SPECIFICATION BackupSpec
CONSTANTS
  Client = {client1}
  Backup = {backup1}
  Meeting = {meeting1}
  Release = 2
  MaxDeaths = 1
INVARIANTS
  ReplacedAtomically
