SPECIFICATION FairSpec
CONSTANTS
  MaxGenerations = 3
  MaxBoots = 2
  Threshold = 2
  Environments = {
    {"spawn_throws"},
    {"spawn_error", "boot_restart", "boot_ready", "ps_fails", "old_agent"}}
INVARIANTS ExitIsCurrent RestartIntentKept NothingIsLeftBehind RowsAndBotsAgree
PROPERTIES StopsEnd
CHECK_DEADLOCK FALSE
