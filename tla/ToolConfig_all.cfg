\* Two concurrent requests against three versions of the file, addresses used again.
\* The file stops changing at a bound and every request ends.
SPECIFICATION FairSpec
CONSTANTS
    Requests = {r1, r2}
    Addresses = {a0, a1, a2, a3}
    Boot = a0
    None = None
    MaxVersions = 3
INVARIANT OnlyValidConfigs
INVARIANT StaleOnlyByReuse
PROPERTY ReloadSettles
CHECK_DEADLOCK FALSE
