SPECIFICATION TaskSpec
CONSTANTS
  Key <- MCKey
  AllKey <- MCAllKey
  BankKey <- MCBankKey
  state_table <- MCTable
  state_offset <- MCOffset
  CHANNELS = 3
  MAX_CHANGE = 2
  MAX_PUSHES = 1
INVARIANT HostMirrorsKeys
