\* Find while one device is unplugged: the uevent loop may spin.
CONSTANTS
    a = a  b = b  c = c  d = d  e = e  f = f  g = g  h = h  i = i
    Entries <- MCEntries
    Profile <- MCProfile
    HandleOffset = 10
    MaxUnplugs = 1
SPECIFICATION FairSpec
PROPERTY FindReturns
\* Find returns and nothing follows it.
CHECK_DEADLOCK FALSE
