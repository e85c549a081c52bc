--------------------------- MODULE CdcAcmFindProofs ---------------------------
(***************************************************************************)
(* Proof, for every set of entries and every profile satisfying           *)
(* FindAssumption, that CDCACM::Find reports exactly the devices of ours   *)
(* still plugged in (FindMatchesPlugged), whatever the order in which it   *)
(* visits the entries and the kernel removes devices.  The inductive       *)
(* invariant FindInv says, pass by pass, what the maps built so far hold.  *)
(***************************************************************************)
EXTENDS CdcAcmFind, SequenceTheorems, TLAPS

\* Pass 2 keeps an entry: a USB link with exactly one tty.
OneTty(e) == Profile[e].usb /\ Profile[e].ttys = "one"

\* Pass 3 keeps an entry: its first PRODUCT= line is a well-formed Intrepid one.
Ours(e) == FirstProduct(e) = "ours"

FindTypeOK ==
    /\ phase \in {"list", "tty", "uevent", "serial", "done"}
    /\ present \subseteq Entries
    /\ foundusbs \subseteq Entries
    /\ todo \subseteq Entries
    /\ foundttys \subseteq Entries
    /\ ttyPid \in [Entries -> Nat]
    /\ cur \in Entries \cup {None}
    /\ fsGood \in BOOLEAN
    /\ line \in Nat
    /\ found \subseteq Device
    /\ unplugs \in Nat

\* Pass 3 has read the lines 1 .. line of cur, all but the last without
\* PRODUCT= (lines 132-134).
Reading ==
    /\ cur \in foundttys \ todo
    /\ line <= Len(Lines(cur))
    /\ \A i \in 1 .. line - 1 : Lines(cur)[i] = "other"

\* What pass 4 has pushed so far, for the entries it has visited.
FoundOK ==
    /\ \A d \in found :
         /\ d.usb \in foundttys \ todo
         /\ Profile[d.usb].colon /\ Profile[d.usb].digits
         /\ d.pid = ttyPid[d.usb]
         /\ d.handle = Profile[d.usb].ttyNum + HandleOffset
    /\ \A e \in foundttys \ todo :
         Profile[e].colon /\ Profile[e].digits => \E d \in found : d.usb = e
    /\ \A d1, d2 \in found : d1.usb = d2.usb => d1 = d2

\* Before pass 1 nothing is kept.
ListPass ==
    phase = "list" => foundttys = {} /\ found = {} /\ todo = {} /\ cur = None

\* Pass 2 (lines 107-120): every USB link still there was listed, and
\* every one visited that is still there with one tty was kept.
TtyPass ==
    phase = "tty" =>
      /\ {e \in present : Profile[e].usb} \subseteq foundusbs
      /\ \A e \in foundusbs : Profile[e].usb
      /\ todo \subseteq foundusbs
      /\ foundttys \cap todo = {}
      /\ \A e \in (foundusbs \ todo) \cap present : OneTty(e) => e \in foundttys
      /\ found = {} /\ cur = None

\* From pass 3 on: every entry still there that passes 2 and 3 accept is kept.
KeptPass ==
    phase \in {"uevent", "serial", "done"} =>
      /\ \A e \in present : OneTty(e) /\ Ours(e) => e \in foundttys
      /\ todo \subseteq foundttys

\* Pass 3 (lines 123-166): the entries checked carry their own PID.
UeventPass ==
    phase = "uevent" =>
      /\ found = {}
      /\ cur # None => Reading
      /\ \A e \in foundttys \ (todo \cup {cur}) :
           Ours(e) /\ ttyPid[e] = Profile[e].pid

\* Pass 4 (lines 171-205): the kept entries passed pass 3.
SerialPass ==
    phase \in {"serial", "done"} =>
      /\ cur = None
      /\ \A e \in foundttys : Ours(e) /\ ttyPid[e] = Profile[e].pid
      /\ FoundOK

DonePass == phase = "done" => todo = {}

(* The maps of CDCACM::Find, pass by pass: an entry is kept exactly when   *)
(* the passes done so far accept it or it was unplugged, and each kept    *)
(* entry carries the PID of its own first PRODUCT= line.                   *)
FindInv ==
    /\ FindTypeOK
    /\ \A e \in foundttys : OneTty(e)
    /\ ListPass
    /\ TtyPass
    /\ KeptPass
    /\ UeventPass
    /\ SerialPass
    /\ DonePass

-----------------------------------------------------------------------------
(* The loop of lines 132-134 stops at the reference's first PRODUCT= line. *)

LEMMA LinesSeq ==
    ASSUME NEW e \in Entries
    PROVE  /\ Lines(e) \in Seq(LineKind)
           /\ DOMAIN Lines(e) = 1 .. Len(Lines(e))
BY FindAssumption DEF Lines

\* A line with PRODUCT= after lines without it is the first such line.
LEMMA FirstProductAt ==
    ASSUME NEW e \in Entries, NEW n \in 1 .. Len(Lines(e)),
           \A i \in 1 .. n - 1 : Lines(e)[i] = "other",
           Lines(e)[n] # "other"
    PROVE  FirstProduct(e) = Lines(e)[n]
<1> DEFINE I == {i \in DOMAIN Lines(e) : Lines(e)[i] # "other"}
<1>1. DOMAIN Lines(e) = 1 .. Len(Lines(e))
  BY LinesSeq
<1>2. n \in I /\ \A j \in I : n <= j
  BY <1>1
<1>3. \A k \in I : (\A j \in I : k <= j) => k = n
  BY <1>1, <1>2
<1>4. (CHOOSE k \in I : \A j \in I : k <= j) = n
  BY <1>2, <1>3
<1>. QED
  BY <1>2, <1>4 DEF FirstProduct

\* A file without PRODUCT= has no first such line.
LEMMA FirstProductNone ==
    ASSUME NEW e \in Entries,
           \A i \in 1 .. Len(Lines(e)) : Lines(e)[i] = "other"
    PROVE  FirstProduct(e) = "none"
<1>1. {i \in DOMAIN Lines(e) : Lines(e)[i] # "other"} = {}
  BY LinesSeq
<1>. QED
  BY <1>1 DEF FirstProduct


-----------------------------------------------------------------------------
(* The inductive invariant, one lemma per action.                         *)

LEMMA InitFindInv == Init => FindInv
<1> SUFFICES ASSUME Init PROVE FindInv
  OBVIOUS
<1>1. FindTypeOK
  BY FindAssumption DEF Init, FindTypeOK, None
<1>. QED
  BY <1>1 DEF Init, FindInv, ListPass, TtyPass, KeptPass, UeventPass,
              SerialPass, DonePass

LEMMA ListDriverInv ==
    ASSUME FindInv, ListDriver
    PROVE  FindInv'
<1>1. /\ phase = "list" /\ phase' = "tty"
      /\ foundttys = {} /\ found = {} /\ todo = {} /\ cur = None
  BY DEF ListDriver, FindInv, ListPass
<1>2. FindTypeOK'
  BY <1>1 DEF ListDriver, FindInv, FindTypeOK
<1>3. TtyPass'
  BY <1>1 DEF ListDriver, TtyPass
<1>. QED
  BY <1>1, <1>2, <1>3 DEF ListDriver, FindInv, ListPass, KeptPass,
                          UeventPass, SerialPass, DonePass

LEMMA ListTtyInv ==
    ASSUME FindInv, NEW e \in Entries, ListTty(e)
    PROVE  FindInv'
<1>1. /\ phase = "tty" /\ phase' = "tty"
      /\ e \in todo /\ todo' = todo \ {e}
      /\ foundttys' = IF e \in present /\ Profile[e].ttys = "one"
                        THEN foundttys \cup {e} ELSE foundttys
      /\ UNCHANGED <<present, foundusbs, found, cur>>
  BY DEF ListTty
<1>2. Profile[e].usb
  BY <1>1 DEF FindInv, TtyPass
<1>3. FindTypeOK'
  BY <1>1 DEF ListTty, FindInv, FindTypeOK
<1>4. \A x \in foundttys' : OneTty(x)
  BY <1>1, <1>2 DEF FindInv, OneTty
<1>5. TtyPass'
  <2>1. \A x \in (foundusbs \ todo') \cap present :
          OneTty(x) => x \in foundttys'
    BY <1>1 DEF FindInv, TtyPass, OneTty
  <2>2. foundttys' \cap todo' = {}
    BY <1>1 DEF FindInv, TtyPass
  <2>. QED
    BY <1>1, <2>1, <2>2 DEF FindInv, TtyPass
<1>. QED
  BY <1>1, <1>3, <1>4, <1>5 DEF FindInv, ListPass, KeptPass, UeventPass,
                                SerialPass, DonePass

LEMMA EndTtyPassInv ==
    ASSUME FindInv, EndTtyPass
    PROVE  FindInv'
<1>1. /\ phase = "tty" /\ phase' = "uevent" /\ todo = {} /\ todo' = foundttys
      /\ UNCHANGED <<present, foundusbs, foundttys, ttyPid, cur, found>>
  BY DEF EndTtyPass
<1>2. FindTypeOK'
  BY <1>1 DEF EndTtyPass, FindInv, FindTypeOK
<1>3. KeptPass'
  BY <1>1 DEF FindInv, TtyPass, KeptPass, OneTty
<1>4. UeventPass'
  <2>1. found = {} /\ cur = None
    BY <1>1 DEF FindInv, TtyPass
  <2>2. foundttys \ (todo' \cup {cur}) = {}
    BY <1>1
  <2>. QED
    BY <1>1, <2>1, <2>2 DEF UeventPass
<1>. QED
  BY <1>1, <1>2, <1>3, <1>4 DEF FindInv, ListPass, TtyPass, SerialPass,
                                DonePass


LEMMA OpenUeventInv ==
    ASSUME FindInv, NEW e \in Entries, OpenUevent(e)
    PROVE  FindInv'
<1>1. /\ phase = "uevent" /\ phase' = "uevent" /\ cur = None
      /\ e \in todo /\ todo' = todo \ {e} /\ cur' = e /\ line' = 0
      /\ fsGood' = (e \in present)
      /\ UNCHANGED <<present, foundusbs, foundttys, ttyPid, found, unplugs>>
  BY DEF OpenUevent
<1>2. e \in foundttys /\ e # None
  BY <1>1, NoneAssumption DEF FindInv, KeptPass
<1>3. FindTypeOK'
  BY <1>1 DEF FindInv, FindTypeOK
<1>4. Reading'
  BY <1>1, <1>2 DEF Reading
<1>5. foundttys \ (todo' \cup {cur'}) = foundttys \ (todo \cup {cur})
  BY <1>1, <1>2, NoneAssumption DEF FindInv, FindTypeOK
<1>6. UeventPass'
  BY <1>1, <1>4, <1>5 DEF FindInv, UeventPass
<1>7. KeptPass'
  BY <1>1 DEF FindInv, KeptPass
<1>. QED
  BY <1>1, <1>3, <1>6, <1>7 DEF FindInv, ListPass, TtyPass, SerialPass,
                                DonePass

LEMMA ReadLineInv ==
    ASSUME FindInv, ReadLine
    PROVE  FindInv'
<1>1. /\ phase = "uevent" /\ cur # None /\ ~LoopExits
      /\ IF fsGood /\ cur \in present
           THEN /\ line' = IF line < Len(Lines(cur)) THEN line + 1 ELSE line
                /\ UNCHANGED fsGood
           ELSE fsGood' = FALSE /\ UNCHANGED line
      /\ UNCHANGED <<phase, present, foundusbs, todo, foundttys, ttyPid, cur,
                     found, unplugs>>
  BY DEF ReadLine
<1>2. Reading
  BY <1>1 DEF FindInv, UeventPass
<1>3. cur \in Entries /\ line \in Nat /\ Lines(cur) \in Seq(LineKind)
  BY <1>1, <1>2, LinesSeq DEF FindInv, FindTypeOK, Reading
<1>4. fsGood /\ line > 0 => Lines(cur)[line] = "other"
  BY <1>1 DEF LoopExits, Found, HasProduct
<1>5. Reading'
  <2>1. line' <= Len(Lines(cur)')
    BY <1>1, <1>2, <1>3 DEF Reading
  <2>2. \A i \in 1 .. line' - 1 : Lines(cur)'[i] = "other"
    <3>1. CASE fsGood /\ cur \in present
      BY <1>1, <1>2, <1>3, <1>4, <3>1 DEF Reading, Lines
    <3>2. CASE ~(fsGood /\ cur \in present)
      BY <1>1, <1>2, <3>2 DEF Reading, Lines
    <3>. QED
      BY <3>1, <3>2
  <2>. QED
    BY <1>1, <1>2, <2>1, <2>2 DEF Reading
<1>6. FindTypeOK'
  <2>1. line' \in Nat /\ fsGood' \in BOOLEAN
    <3>1. CASE fsGood /\ cur \in present
      BY <1>1, <1>3, <3>1 DEF FindInv, FindTypeOK
    <3>2. CASE ~(fsGood /\ cur \in present)
      BY <1>1, <1>3, <3>2
    <3>. QED
      BY <3>1, <3>2
  <2>. QED
    BY <1>1, <2>1 DEF FindInv, FindTypeOK
<1>. QED
  BY <1>1, <1>5, <1>6 DEF FindInv, ListPass, TtyPass, KeptPass, UeventPass,
                          SerialPass, DonePass

LEMMA CheckProductInv ==
    ASSUME FindInv, CheckProduct
    PROVE  FindInv'
<1>1. /\ phase = "uevent" /\ cur # None /\ LoopExits
      /\ IF Found /\ KeepsProduct(Lines(cur)[line])
           THEN /\ ttyPid' = [ttyPid EXCEPT ![cur] = Profile[cur].pid]
                /\ UNCHANGED foundttys
           ELSE /\ foundttys' = foundttys \ {cur}
                /\ UNCHANGED ttyPid
      /\ cur' = None
      /\ UNCHANGED <<phase, present, foundusbs, todo, fsGood, line, found,
                     unplugs>>
  BY DEF CheckProduct
<1>2. /\ Reading
      /\ cur \in Entries /\ line \in Nat
      /\ Lines(cur) \in Seq(LineKind)
      /\ ttyPid \in [Entries -> Nat]
  BY <1>1, LinesSeq DEF FindInv, FindTypeOK, UeventPass
<1>3. foundttys' \ (todo \cup {cur'}) = foundttys' \ todo
  BY <1>1, NoneAssumption DEF FindInv, FindTypeOK
<1>4. CASE Found /\ KeepsProduct(Lines(cur)[line])
  <2>1. line \in 1 .. Len(Lines(cur)) /\ Lines(cur)[line] = "ours"
    BY <1>2, <1>4 DEF Found, KeepsProduct, Reading
  <2>2. Ours(cur)
    BY <1>2, <2>1, FirstProductAt DEF Reading, Ours
  <2>3. ttyPid' \in [Entries -> Nat] /\ ttyPid'[cur] = Profile[cur].pid
    BY <1>1, <1>2, <1>4, FindAssumption
  <2>4. \A x \in foundttys \ (todo \cup {cur}) : ttyPid'[x] = ttyPid[x]
    BY <1>1, <1>2, <1>4 DEF FindInv, FindTypeOK
  <2>5. UeventPass'
    BY <1>1, <1>3, <1>4, <2>2, <2>3, <2>4 DEF FindInv, UeventPass
  <2>. QED
    BY <1>1, <1>4, <2>3, <2>5 DEF FindInv, FindTypeOK, ListPass, TtyPass,
                                  KeptPass, SerialPass, DonePass
<1>5. CASE ~(Found /\ KeepsProduct(Lines(cur)[line]))
  <2>1. ~Ours(cur)
    <3>1. CASE Found
      <4>1. line \in 1 .. Len(Lines(cur)) /\ Lines(cur)[line] # "other"
            /\ Lines(cur)[line] # "ours"
        BY <1>2, <1>5, <3>1 DEF Found, KeepsProduct, HasProduct, Reading
      <4>. QED
        BY <1>2, <4>1, FirstProductAt DEF Reading, Ours
    <3>2. CASE ~Found
      <4>1. \A i \in 1 .. Len(Lines(cur)) : Lines(cur)[i] = "other"
        BY <1>1, <1>2, <3>2 DEF LoopExits, AtEof, Found, HasProduct, Reading
      <4>. QED
        BY <1>2, <4>1, FirstProductNone DEF Ours
    <3>. QED
      BY <3>1, <3>2
  <2>0. foundttys' = foundttys \ {cur} /\ ttyPid' = ttyPid
    BY <1>1, <1>5
  <2>2. KeptPass'
    BY <1>1, <1>2, <2>0, <2>1 DEF FindInv, KeptPass, Reading
  <2>3. UeventPass'
    BY <1>1, <1>3, <2>0 DEF FindInv, UeventPass
  <2>. QED
    BY <1>1, <2>0, <2>2, <2>3 DEF FindInv, FindTypeOK, ListPass, TtyPass,
                                  SerialPass, DonePass
<1>. QED
  BY <1>4, <1>5


LEMMA EndUeventPassInv ==
    ASSUME FindInv, EndUeventPass
    PROVE  FindInv'
<1>1. /\ phase = "uevent" /\ phase' = "serial" /\ cur = None /\ todo = {}
      /\ todo' = foundttys
      /\ UNCHANGED <<present, foundusbs, foundttys, ttyPid, cur, found>>
  BY DEF EndUeventPass
<1>2. found = {} /\ foundttys \ (todo \cup {cur}) = foundttys
  BY <1>1, NoneAssumption DEF FindInv, FindTypeOK, UeventPass
<1>3. SerialPass'
  BY <1>1, <1>2 DEF FindInv, UeventPass, SerialPass, FoundOK
<1>4. FindTypeOK'
  BY <1>1 DEF EndUeventPass, FindInv, FindTypeOK
<1>. QED
  BY <1>1, <1>3, <1>4 DEF FindInv, ListPass, TtyPass, KeptPass, UeventPass,
                          DonePass

LEMMA AddDeviceInv ==
    ASSUME FindInv, NEW e \in Entries, AddDevice(e)
    PROVE  FindInv'
<1> DEFINE dev == [usb |-> e,
                   handle |-> Profile[e].ttyNum + HandleOffset,
                   pid |-> ttyPid[e],
                   serial |-> SerialOf(e)]
<1>1. /\ phase = "serial" /\ phase' = "serial"
      /\ e \in todo /\ todo' = todo \ {e}
      /\ found' = IF Profile[e].colon /\ Profile[e].digits
                    THEN found \cup {dev} ELSE found
      /\ UNCHANGED <<present, foundusbs, foundttys, ttyPid, cur, fsGood, line,
                     unplugs>>
  BY DEF AddDevice
<1>2. dev \in Device
  BY FindAssumption DEF FindInv, FindTypeOK, Device, SerialOf
<1>3. e \in foundttys /\ FoundOK
  BY <1>1 DEF FindInv, KeptPass, SerialPass
<1>4. \A d \in found : d.usb # e
  BY <1>1, <1>3 DEF FoundOK
<1>5. FoundOK'
  <2>1. \A d \in found' :
          /\ d.usb \in foundttys' \ todo'
          /\ Profile[d.usb].colon /\ Profile[d.usb].digits
          /\ d.pid = ttyPid'[d.usb]
          /\ d.handle = Profile[d.usb].ttyNum + HandleOffset
    BY <1>1, <1>3 DEF FoundOK
  <2>2. \A x \in foundttys' \ todo' :
          Profile[x].colon /\ Profile[x].digits => \E d \in found' : d.usb = x
    <3> SUFFICES ASSUME NEW x \in foundttys' \ todo',
                        Profile[x].colon /\ Profile[x].digits
                 PROVE  \E d \in found' : d.usb = x
      OBVIOUS
    <3>1. CASE x = e
      <4>1. dev \in found' /\ dev.usb = x
        BY <1>1, <3>1
      <4>. QED
        BY <4>1
    <3>2. CASE x # e
      <4>1. x \in foundttys \ todo /\ found \subseteq found'
        BY <1>1, <3>2
      <4>. QED
        BY <1>3, <4>1 DEF FoundOK
    <3>. QED
      BY <3>1, <3>2
  <2>3. \A d1, d2 \in found' : d1.usb = d2.usb => d1 = d2
    BY <1>1, <1>3, <1>4 DEF FoundOK
  <2>. QED
    BY <2>1, <2>2, <2>3 DEF FoundOK
<1>6. FindTypeOK'
  <2>1. found' \subseteq Device
    BY <1>1, <1>2 DEF FindInv, FindTypeOK
  <2>. QED
    BY <1>1, <2>1 DEF FindInv, FindTypeOK
<1>. QED
  BY <1>1, <1>5, <1>6 DEF FindInv, ListPass, TtyPass, KeptPass, UeventPass,
                          SerialPass, DonePass

LEMMA EndSerialPassInv ==
    ASSUME FindInv, EndSerialPass
    PROVE  FindInv'
<1>1. /\ phase = "serial" /\ phase' = "done" /\ todo = {}
      /\ UNCHANGED <<present, foundusbs, todo, foundttys, ttyPid, cur, found>>
  BY DEF EndSerialPass
<1>2. FindTypeOK'
  BY <1>1 DEF EndSerialPass, FindInv, FindTypeOK
<1>. QED
  BY <1>1, <1>2 DEF FindInv, ListPass, TtyPass, KeptPass, UeventPass,
                    SerialPass, FoundOK, DonePass

LEMMA UnplugInv ==
    ASSUME FindInv, NEW e \in Entries, Unplug(e)
    PROVE  FindInv'
<1>1. /\ present' = present \ {e} /\ unplugs' = unplugs + 1
      /\ UNCHANGED <<phase, foundusbs, todo, foundttys, ttyPid, cur, fsGood,
                     line, found>>
  BY DEF Unplug
<1>2. FindTypeOK'
  BY <1>1 DEF FindInv, FindTypeOK
<1>3. TtyPass' /\ KeptPass'
  BY <1>1 DEF FindInv, TtyPass, KeptPass
<1>. QED
  BY <1>1, <1>2, <1>3 DEF FindInv, ListPass, UeventPass, Reading, SerialPass,
                          FoundOK, DonePass

LEMMA NextFindInv == FindInv /\ [Next]_vars => FindInv'
<1> SUFFICES ASSUME FindInv, [Next]_vars PROVE FindInv'
  OBVIOUS
<1>1. CASE ListDriver
  BY <1>1, ListDriverInv
<1>2. ASSUME NEW e \in Entries, ListTty(e) PROVE FindInv'
  BY <1>2, ListTtyInv
<1>3. ASSUME NEW e \in Entries, OpenUevent(e) PROVE FindInv'
  BY <1>3, OpenUeventInv
<1>4. ASSUME NEW e \in Entries, AddDevice(e) PROVE FindInv'
  BY <1>4, AddDeviceInv
<1>5. CASE EndTtyPass
  BY <1>5, EndTtyPassInv
<1>6. CASE ReadLine
  BY <1>6, ReadLineInv
<1>7. CASE CheckProduct
  BY <1>7, CheckProductInv
<1>8. CASE EndUeventPass
  BY <1>8, EndUeventPassInv
<1>9. CASE EndSerialPass
  BY <1>9, EndSerialPassInv
<1>10. ASSUME NEW e \in Entries, Unplug(e) PROVE FindInv'
  BY <1>10, UnplugInv
<1>11. CASE UNCHANGED vars
  BY <1>11 DEF vars, FindInv, FindTypeOK, ListPass, TtyPass, KeptPass,
               UeventPass, Reading, SerialPass, FoundOK, DonePass, Ours,
               OneTty
<1>. QED
  BY <1>1, <1>2, <1>3, <1>4, <1>5, <1>6, <1>7, <1>8, <1>9, <1>10, <1>11
     DEF Next

\* FindInv holds in every state of every run of Find.
THEOREM FindInvHolds == Spec => []FindInv
BY InitFindInv, NextFindInv, PTL DEF Spec

\* When Find has returned, the pass-by-pass facts give the reference.
LEMMA FindInvMatches == FindInv => FindMatchesPlugged
<1> SUFFICES ASSUME FindInv, phase = "done" PROVE FindMatchesPlugged
  BY DEF FindMatchesPlugged
<1>1. /\ todo = {} /\ FoundOK
      /\ \A e \in foundttys : OneTty(e) /\ Ours(e) /\ ttyPid[e] = Profile[e].pid
      /\ \A e \in present : OneTty(e) /\ Ours(e) => e \in foundttys
  BY DEF FindInv, DonePass, SerialPass, KeptPass
<1>2. \A d \in found :
        /\ Qualifies(d.usb)
        /\ d.pid = Profile[d.usb].pid
        /\ d.handle = Profile[d.usb].ttyNum + HandleOffset
  BY <1>1 DEF FoundOK, Qualifies, OneTty, Ours
<1>3. \A e \in Entries : Qualifies(e) /\ e \in present => \E d \in found : d.usb = e
  BY <1>1 DEF FoundOK, Qualifies, OneTty, Ours
<1>. QED
  BY <1>1, <1>2, <1>3 DEF FindMatchesPlugged, FoundOK

(* Whatever the order in which CDCACM::Find visits the sysfs entries and   *)
(* the kernel removes devices during the scan, when Find returns it has    *)
(* reported every device of ours still plugged in, once, each with the PID *)
(* of the first PRODUCT= line of its own uevent file (lines 132-163) and   *)
(* the handle of its own tty (lines 185-200), and nothing else.            *)
THEOREM FindMatchesPluggedHolds == Spec => []FindMatchesPlugged
BY FindInvHolds, FindInvMatches, PTL

=============================================================================
