\* Find on a sysfs tree that does not change while it runs.
CONSTANTS
    a = a  b = b  c = c  d = d  e = e  f = f  g = g  h = h  i = i
    Entries <- MCEntries
    Profile <- MCProfile
    HandleOffset = 10
    MaxUnplugs = 0
SPECIFICATION FairSpec
PROPERTY FindReturns
\* Find returns and nothing follows it.
CHECK_DEADLOCK FALSE
