----------------------------- MODULE CdcAcmFind -----------------------------
(***************************************************************************)
(* CDCACM::Find (src/platform/posix/linux/cdcacmlinux.cpp): discovery of   *)
(* CDC-ACM devices through sysfs, in four passes over the entries of       *)
(* /sys/bus/usb/drivers/cdc_acm:                                           *)
(*   1. keep the USB interface links (lines 88-103);                       *)
(*   2. keep those with exactly one tty (lines 107-120);                   *)
(*   3. read each tty's uevent file for its PRODUCT= line and keep the     *)
(*      Intrepid vendor id (lines 123-166);                                *)
(*   4. read the serial number and the tty number and build the            *)
(*      FoundDevice (lines 171-205).                                       *)
(* The kernel may remove a device's sysfs files at any time (unplug); that *)
(* is the only concurrency this code meets.                                *)
(*                                                                         *)
(* Strings are abstracted: each entry has a Profile saying what its files  *)
(* contain, and a uevent file is a sequence of line kinds:                 *)
(*   "other"    no PRODUCT= in the line                                    *)
(*   "offset"   PRODUCT= found, but not at column 0                        *)
(*   "noslash"  PRODUCT= at column 0, no '/' after it                      *)
(*   "badhex"   the vendor or product id is not hexadecimal                *)
(*   "vendor"   a well-formed line with another vendor id                  *)
(*   "ours"     a well-formed line with INTREPID_USB_VENDOR_ID             *)
(***************************************************************************)
EXTENDS Naturals, Sequences

CONSTANTS
    Entries,      \* names listed in /sys/bus/usb/drivers/cdc_acm
    Profile,      \* Profile[e]: what the sysfs files of entry e contain
    HandleOffset, \* HANDLE_OFFSET (10)
    MaxUnplugs    \* bound on the devices removed during one Find

LineKind == {"other", "offset", "noslash", "badhex", "vendor", "ours"}

ASSUME FindAssumption ==
    /\ HandleOffset \in Nat \ {0}
    /\ MaxUnplugs \in Nat
    /\ \A e \in Entries :
         /\ Profile[e].usb \in BOOLEAN      \* digit first and DT_LNK
         /\ Profile[e].ttys \in {"none", "one", "many"}
         /\ Profile[e].uevent \in Seq(LineKind)
         /\ Profile[e].pid \in Nat
         /\ Profile[e].colon \in BOOLEAN    \* the name contains ':'
         /\ Profile[e].digits \in BOOLEAN   \* the tty name has a digit
         /\ Profile[e].ttyNum \in Nat

NoSerial == "empty"

Device == [usb : Entries, handle : Nat, pid : Nat,
           serial : Entries \cup {NoSerial}]

VARIABLES
    phase,      \* "list", "tty", "uevent", "serial" or "done"
    present,    \* entries whose sysfs files still exist
    foundusbs,  \* pass 1 result
    todo,       \* entries the current pass has still to visit
    foundttys,  \* keys of the map `foundttys`
    ttyPid,     \* the PID stored in the map for each key
    cur,        \* pass 3: the entry whose uevent file is being read
    fsGood,     \* pass 3: the ifstream has not failed
    line,       \* pass 3: lines read so far
    found,      \* the output vector
    unplugs     \* devices removed so far

vars == <<phase, present, foundusbs, todo, foundttys, ttyPid, cur, fsGood,
          line, found, unplugs>>

-----------------------------------------------------------------------------
None == "none"   \* no uevent file open

\* The sentinel for "no uevent file open" names no entry.
ASSUME NoneAssumption == None \notin Entries

\* The uevent lines of e.
Lines(e) == Profile[e].uevent

\* getline found a line with PRODUCT= somewhere in it (line 134).
HasProduct(k) == k # "other"

\* Mutant: the test `pos != 0` of line 136 written as `pos == npos`.
KeepsOffset(k) == k \in {"offset", "ours"}

\* After the loop, the line is erased from the map unless it is a
\* well-formed PRODUCT= line at column 0 with Intrepid's vendor id
\* (lines 136-163).
KeepsProduct(k) == k = "ours"

Init ==
    /\ phase = "list"
    /\ present = Entries
    /\ foundusbs = {}
    /\ todo = {}
    /\ foundttys = {}
    /\ ttyPid = [e \in Entries |-> 0]
    /\ cur = None
    /\ fsGood = TRUE
    /\ line = 0
    /\ found = {}
    /\ unplugs = 0

(* Lines 88-103: open and list the driver directory (the cdc_acm driver  *)
(* is taken as loaded); keep the links whose name starts with a digit.    *)
ListDriver ==
    /\ phase = "list"
    /\ foundusbs' = {e \in present : Profile[e].usb}
    /\ todo' = {e \in present : Profile[e].usb}
    /\ phase' = "tty"
    /\ UNCHANGED <<present, foundttys, ttyPid, cur, fsGood, line, found,
                   unplugs>>

(* Lines 108-120: list <usb>/tty; keep the entry when the directory opens *)
(* and holds exactly one name, with PID 0 for now.                         *)
ListTty(e) ==
    /\ phase = "tty"
    /\ e \in todo
    /\ todo' = todo \ {e}
    /\ foundttys' = IF e \in present /\ Profile[e].ttys = "one"
                      THEN foundttys \cup {e} ELSE foundttys
    /\ UNCHANGED <<phase, present, foundusbs, ttyPid, cur, fsGood, line,
                   found, unplugs>>

EndTtyPass ==
    /\ phase = "tty"
    /\ todo = {}
    /\ phase' = "uevent"
    /\ todo' = foundttys
    /\ UNCHANGED <<present, foundusbs, foundttys, ttyPid, cur, fsGood, line,
                   found, unplugs>>

(* Lines 126-131: construct the ifstream on the tty's uevent file; it     *)
(* fails when the file no longer exists.                                   *)
OpenUevent(e) ==
    /\ phase = "uevent"
    /\ cur = None
    /\ e \in todo
    /\ todo' = todo \ {e}
    /\ cur' = e
    /\ fsGood' = (e \in present)
    /\ line' = 0
    /\ UNCHANGED <<phase, present, foundusbs, foundttys, ttyPid, found,
                   unplugs>>

\* The loop of lines 132-134 stops when the line just read contains
\* PRODUCT= (a failed getline leaves the line empty), or when getline
\* hit end of file, which needs a good stream on a file still there.
Found == fsGood /\ line > 0 /\ HasProduct(Lines(cur)[line])

\* Mutant: the `!fs.eof()` test left out of the loop condition.
AtEofIgnored == FALSE

AtEof == fsGood /\ cur \in present /\ line = Len(Lines(cur))
LoopExits == Found \/ AtEof

(* Lines 132-134, one iteration: getline.  On a failed stream it extracts *)
(* nothing and sets failbit but not eofbit, so the loop condition         *)
(* `!fs.eof()` stays true and the iteration repeats without end.  A file  *)
(* whose device is removed while it is open fails the same way.           *)
ReadLine ==
    /\ phase = "uevent"
    /\ cur # None
    /\ ~LoopExits
    /\ IF fsGood /\ cur \in present
         THEN /\ line' = IF line < Len(Lines(cur)) THEN line + 1 ELSE line
              /\ UNCHANGED fsGood
         ELSE fsGood' = FALSE /\ UNCHANGED line
    /\ UNCHANGED <<phase, present, foundusbs, todo, foundttys, ttyPid, cur,
                   found, unplugs>>

\* Mutant of CheckProduct: the structured binding of line 125 taken by
\* copy (`auto [tty, ttyPid]`), so line 163 never writes the map.
CheckProductByCopy ==
    /\ phase = "uevent"
    /\ cur # None
    /\ LoopExits
    /\ IF Found /\ KeepsProduct(Lines(cur)[line])
         THEN UNCHANGED <<ttyPid, foundttys>>
         ELSE /\ foundttys' = foundttys \ {cur}
              /\ UNCHANGED ttyPid
    /\ cur' = None
    /\ UNCHANGED <<phase, present, foundusbs, todo, fsGood, line, found,
                   unplugs>>

(* Lines 136-165: keep the entry with its PID when the line found is a    *)
(* well-formed Intrepid PRODUCT= line, erase it otherwise.                *)
CheckProduct ==
    /\ phase = "uevent"
    /\ cur # None
    /\ LoopExits
    /\ IF Found /\ KeepsProduct(Lines(cur)[line])
         THEN /\ ttyPid' = [ttyPid EXCEPT ![cur] = Profile[cur].pid]
              /\ UNCHANGED foundttys
         ELSE /\ foundttys' = foundttys \ {cur}
              /\ UNCHANGED ttyPid
    /\ cur' = None
    /\ UNCHANGED <<phase, present, foundusbs, todo, fsGood, line, found,
                   unplugs>>

EndUeventPass ==
    /\ phase = "uevent"
    /\ cur = None
    /\ todo = {}
    /\ phase' = "serial"
    /\ todo' = foundttys
    /\ UNCHANGED <<present, foundusbs, foundttys, ttyPid, cur, fsGood, line,
                   found, unplugs>>

\* USBSerialGetter (lines 57-85): no ':' in the name fails; otherwise it
\* succeeds, and an ifstream that cannot open the serial file throws
\* nothing, so the serial is left empty.
SerialOf(e) == IF e \in present THEN e ELSE NoSerial

(* Lines 171-205 for one map entry: get the serial, parse the tty number  *)
(* into a handle, and push the FoundDevice.                               *)
AddDevice(e) ==
    /\ phase = "serial"
    /\ e \in todo
    /\ todo' = todo \ {e}
    /\ found' =
         IF Profile[e].colon /\ Profile[e].digits
           THEN found \cup {[usb |-> e,
                             handle |-> Profile[e].ttyNum + HandleOffset,
                             pid |-> ttyPid[e],
                             serial |-> SerialOf(e)]}
           ELSE found
    /\ UNCHANGED <<phase, present, foundusbs, foundttys, ttyPid, cur, fsGood,
                   line, unplugs>>

EndSerialPass ==
    /\ phase = "serial"
    /\ todo = {}
    /\ phase' = "done"
    /\ UNCHANGED <<present, foundusbs, todo, foundttys, ttyPid, cur, fsGood,
                   line, found, unplugs>>

\* The kernel removes a device's sysfs files.
Unplug(e) ==
    /\ e \in present
    /\ unplugs < MaxUnplugs
    /\ phase # "done"
    /\ present' = present \ {e}
    /\ unplugs' = unplugs + 1
    /\ UNCHANGED <<phase, foundusbs, todo, foundttys, ttyPid, cur, fsGood,
                   line, found>>

Next ==
    \/ ListDriver
    \/ \E e \in Entries : ListTty(e) \/ OpenUevent(e) \/ AddDevice(e)
    \/ EndTtyPass
    \/ ReadLine
    \/ CheckProduct
    \/ EndUeventPass
    \/ EndSerialPass
    \/ \E e \in Entries : Unplug(e)

Spec == Init /\ [][Next]_vars

\* Find runs on the calling thread, which keeps being scheduled.
FairSpec ==
    /\ Spec
    /\ WF_vars(ListDriver \/ EndTtyPass \/ ReadLine \/ CheckProduct
               \/ EndUeventPass \/ EndSerialPass
               \/ \E e \in Entries : ListTty(e) \/ OpenUevent(e)
                                     \/ AddDevice(e))

-----------------------------------------------------------------------------
(***************************************************************************)
(* Properties.  The reference: an entry names one of our devices when it   *)
(* is a USB link with exactly one tty, the first line of its uevent file   *)
(* that mentions PRODUCT= is a well-formed Intrepid one, its name has a    *)
(* ':' and its tty name ends in a number.                                  *)
(***************************************************************************)
FirstProduct(e) ==
    LET I == {i \in DOMAIN Lines(e) : Lines(e)[i] # "other"}
    IN  IF I = {} THEN "none"
        ELSE Lines(e)[CHOOSE i \in I : \A j \in I : i <= j]

Qualifies(e) ==
    /\ Profile[e].usb
    /\ Profile[e].ttys = "one"
    /\ FirstProduct(e) = "ours"
    /\ Profile[e].colon
    /\ Profile[e].digits

(* When Find returns, it has reported exactly the devices of ours that are *)
(* still plugged in, plus possibly some unplugged during the scan, each    *)
(* once, with the PID of its own PRODUCT= line and the handle of its own   *)
(* tty: the four passes of CDCACM::Find neither drop nor invent a device   *)
(* whatever the order of the entries and of the unplugs.                   *)
FindMatchesPlugged ==
    phase = "done" =>
      /\ \A d \in found :
           /\ Qualifies(d.usb)
           /\ d.pid = Profile[d.usb].pid
           /\ d.handle = Profile[d.usb].ttyNum + HandleOffset
      /\ \A e \in Entries :
           Qualifies(e) /\ e \in present => \E d \in found : d.usb = e
      /\ \A d1, d2 \in found : d1.usb = d2.usb => d1 = d2

(* Find returns: every call of CDCACM::Find, which the device search makes *)
(* from the calling thread, ends.                                          *)
FindReturns == phase # "done" ~> phase = "done"

(* Every device Find reports has its serial number: the comment at line   *)
(* 177 says a device whose serial cannot be read is skipped.               *)
SerialKnown == \A d \in found : d.serial # NoSerial

=============================================================================
