----------------------------- MODULE RadioProofs -----------------------------
(***************************************************************************)
(* Proofs about the radio commands of MCRadio, each part with the state of *)
(* its own, for any number of commands, peers and events.                  *)
(***************************************************************************)
EXTENDS MCRadio, FiniteSetTheorems, SequenceTheorems, TLAPS

mcVars == <<part, bleVars, p2pVars, csiVars, netVars, apVars, scanVars>>

\* A step of the whole is a step of the part that runs.
LEMMA PartStep ==
  ASSUME [MCNext]_mcVars
  PROVE  /\ part' = part
         /\ part = "csi" => [Csi!Next]_csiVars
         /\ part = "net" => [Net!Next]_netVars
         /\ part = "peers" => [Ap!Next]_apVars
         /\ part = "scan" => [Scan!Next]_scanVars
         /\ part = "ble" => [Ble!Next]_bleVars
         /\ part = "p2p" => [P2p!Next]_p2pVars
<1>1. CASE MCNext
  BY <1>1 DEF MCNext
<1>2. CASE UNCHANGED mcVars
  BY <1>2 DEF mcVars
<1>3. QED BY <1>1, <1>2

-----------------------------------------------------------------------------
(* CSI: who has what while the thread is there.                              *)

CsiInv ==
  /\ ~touched
  /\ csiCmd \in {"idle", "wakes", "deinit"}
  /\ puller \in {"none", "test", "wait", "awake", "read", "leave", "ended"}
  /\ wake \in {"none", "empty", "signalled"} /\ gone \in {"none", "empty", "signalled"}
  /\ handle => wake # "none" /\ gone # "none"
  /\ puller # "none" => handle
  /\ csiCmd # "idle" => handle
  /\ gone = "signalled" => puller = "ended"

\* Every step of the CSI thread and its commands keeps CsiInv.
LEMMA CsiInductive == CsiInv /\ [Csi!Next]_csiVars => CsiInv'
<1> SUFFICES ASSUME CsiInv, [Csi!Next]_csiVars PROVE CsiInv'
  OBVIOUS
<1> USE DEF CsiInv
<1>1. CASE Csi!InitNew
  BY <1>1 DEF Csi!InitNew
<1>2. CASE Csi!GetResults \/ Csi!Wakes \/ Csi!Stop
  BY <1>2 DEF Csi!GetResults, Csi!Wakes, Csi!Stop
<1>3. CASE Csi!Deinit
  BY <1>3 DEF Csi!Deinit
<1>4. CASE Csi!DeinitTimesOut
  BY <1>4 DEF Csi!DeinitTimesOut
<1>5. CASE Csi!DeinitDone
  BY <1>5 DEF Csi!DeinitDone
<1>6. CASE Csi!PullerStep
  BY <1>6
     DEF Csi!PullerStep, Csi!TestExit, Csi!WaitWake, Csi!Awake, Csi!Read, Csi!Leave, Csi!Goes
<1>7. CASE UNCHANGED csiVars
  BY <1>7 DEF csiVars
<1>8. QED BY <1>1, <1>2, <1>3, <1>4, <1>5, <1>6, <1>7 DEF Csi!Next

\* However the five seconds of a deinit fall against the thread's tests, the CSI thread
\* never waits on or signals a sync object that was deleted.
THEOREM CsiObjectsKept == MCSpec => []CsiSafe
<1> DEFINE Inv == part = "csi" => CsiInv
<1>1. MCInit => Inv
  BY DEF MCInit, Csi!Init, CsiInv
<1>2. Inv /\ [MCNext]_mcVars => Inv'
  BY PartStep, CsiInductive
<1>3. Inv => CsiSafe
  BY DEF CsiInv, CsiSafe, Csi!PullerKeepsObjects
<1>4. QED BY <1>1, <1>2, <1>3, PTL DEF MCSpec, mcVars

-----------------------------------------------------------------------------
(* The station's interface: whoever takes it down stops its client.          *)

NetInv ==
  /\ sta \in [added : BOOLEAN, up : BOOLEAN, addr : {"none", "dhcp", "static"}]
  /\ ipMode \in {"dhcp", "static"}
  /\ client \in BOOLEAN
  /\ netEvt \in {"idle", "up", "down", "locks"}
  /\ sta.up => sta.added
  /\ client => sta.up
  /\ netEvt = "up" => sta.added
  /\ sta.up /\ ipMode = "dhcp" /\ sta.addr = "none" => client
  /\ sta.up /\ sta.addr # "none" => tuya # "not started"

\* Every step of the network glue keeps NetInv.
LEMMA NetInductive == NetInv /\ [Net!Next]_netVars => NetInv'
<1> SUFFICES ASSUME NetInv, [Net!Next]_netVars PROVE NetInv'
  OBVIOUS
<1> USE DEF NetInv, Net!Absent, Net!Stopped, Net!StatusCallback, Net!OnIpAcquired
<1>1. CASE Net!AddIfSta
  BY <1>1 DEF Net!AddIfSta
<1>2. CASE Net!RemoveIfSta
  BY <1>2 DEF Net!RemoveIfSta
<1>3. CASE Net!SetStaticIp
  BY <1>3 DEF Net!SetStaticIp
<1>4. CASE Net!SetDynamicIp
  BY <1>4 DEF Net!SetDynamicIp
<1>5. ASSUME NEW group \in BOOLEAN, Net!ApSetUp(group) PROVE NetInv'
  BY <1>5 DEF Net!ApSetUp
<1>6. CASE Net!ApSetDown \/ Net!Joins \/ Net!Drops
  <2>1. CASE Net!ApSetDown
    BY <2>1 DEF Net!ApSetDown
  <2>2. CASE Net!Joins
    BY <2>2 DEF Net!Joins
  <2>3. CASE Net!Drops
    BY <2>3 DEF Net!Drops
  <2>4. QED BY <1>6, <2>1, <2>2, <2>3
<1>7. CASE Net!SetUp
  BY <1>7 DEF Net!SetUp
<1>8. CASE Net!SetDownTests \/ Net!SetDownLocked
  <2>1. CASE Net!SetDownTests
    BY <2>1 DEF Net!SetDownTests
  <2>2. CASE Net!SetDownLocked /\ client
    BY <2>2 DEF Net!SetDownLocked
  <2>3. CASE Net!SetDownLocked /\ ~client
    BY <2>3 DEF Net!SetDownLocked
  <2>4. QED BY <1>8, <2>1, <2>2, <2>3
<1>9. CASE Net!Bound
  BY <1>9 DEF Net!Bound
<1>10. CASE Net!LeaseLost
  BY <1>10 DEF Net!LeaseLost
<1>11. CASE UNCHANGED netVars
  BY <1>11 DEF netVars
<1>12. QED
  BY <1>1, <1>2, <1>3, <1>4, <1>5, <1>6, <1>7, <1>8, <1>9, <1>10, <1>11
     DEF Net!Next, Net!EventStep

\* A station that needs an address has a client that asks for one, for one that has an
\* address the start of Tuya was tried, and an interface that was removed stays down.
THEOREM NetInterfaceTrue == MCSpec => []NetSafe
<1> DEFINE Inv == part = "net" => NetInv
<1>1. MCInit => Inv
  <2>1. Net!Absent \in [added : BOOLEAN, up : BOOLEAN, addr : {"none", "dhcp", "static"}]
        /\ ~Net!Absent.up
    BY DEF Net!Absent
  <2>2. QED BY <2>1 DEF MCInit, Net!Init, NetInv
<1>2. Inv /\ [MCNext]_mcVars => Inv'
  BY PartStep, NetInductive
<1>3. Inv => NetSafe
  BY DEF NetInv, NetSafe, Net!ClientRunsWhenNeeded, Net!TuyaTried, Net!RemovedStaysDown
<1>4. QED BY <1>1, <1>2, <1>3, PTL DEF MCSpec, mcVars

-----------------------------------------------------------------------------
(* The scan: while none is lost, at most one runs and its command waits for it. *)

ScanInv ==
  /\ scanNo \in Int /\ scanRuns \in Seq(Int)
  /\ ~lost =>
       \/ /\ scanCmd = "idle" /\ scanRuns = <<>> /\ ~scanDone
          /\ said = "done" => results = scanNo
       \/ /\ scanCmd = "wait" /\ said = "none"
          /\ \/ Len(scanRuns) = 1 /\ Head(scanRuns) = scanNo /\ ~scanDone
             \/ scanRuns = <<>> /\ scanDone /\ results = scanNo

\* Every step of a scan keeps ScanInv.
LEMMA ScanInductive == ScanInv /\ [Scan!Next]_scanVars => ScanInv'
<1> SUFFICES ASSUME ScanInv, [Scan!Next]_scanVars PROVE ScanInv'
  OBVIOUS
<1> USE DEF ScanInv
<1>0. Len(<<>>) = 0
  OBVIOUS
<1>1. ASSUME NEW p2p \in BOOLEAN, Scan!ScanBegins(p2p) PROVE ScanInv'
  <2>1. CASE UNCHANGED <<scanNo, scanRuns, scanCmd, lost>>
    BY <1>1, <2>1 DEF Scan!ScanBegins
  <2>2. CASE /\ scanNo' = scanNo + 1 /\ scanRuns' = Append(scanRuns, scanNo + 1)
             /\ scanCmd' = (IF p2p THEN "idle" ELSE "wait") /\ lost' = (lost \/ p2p)
    <3>1. scanNo' \in Int /\ scanRuns' \in Seq(Int)
      BY <2>2, AppendProperties
    <3>2. CASE lost \/ p2p
      BY <2>2, <3>1, <3>2
    <3>3. CASE ~lost /\ ~p2p
      <4>1. scanRuns = <<>> /\ ~scanDone
        BY <1>1, <3>3 DEF Scan!ScanBegins
      <4>2. Len(scanRuns') = 1 /\ Head(scanRuns') = scanNo'
        BY <2>2, <4>1
      <4>3. QED BY <1>1, <2>2, <3>1, <3>3, <4>1, <4>2 DEF Scan!ScanBegins
    <3>4. QED BY <3>2, <3>3
  <2>3. QED BY <1>1, <2>1, <2>2 DEF Scan!ScanBegins
<1>2. CASE Scan!ScanEnds
  BY <1>0, <1>2 DEF Scan!ScanEnds
<1>3. CASE Scan!ScanTimesOut
  BY <1>3 DEF Scan!ScanTimesOut
<1>4. CASE Scan!ScanResult
  <2>1. scanRuns' \in Seq(Int) /\ (Len(scanRuns) = 1 => scanRuns' = <<>>)
    BY <1>4, HeadTailProperties, EmptySeq DEF Scan!ScanResult
  <2>2. QED BY <1>4, <2>1 DEF Scan!ScanResult
<1>5. CASE UNCHANGED scanVars
  BY <1>5 DEF scanVars
<1>6. QED BY <1>1, <1>2, <1>3, <1>4, <1>5 DEF Scan!Next

-----------------------------------------------------------------------------
(* The access point's peers: the count runs behind the driver by the events that wait. *)

\* The count after each event that waits, from the count there is to the stations that
\* are in.
Counts(c) ==
  /\ c[0] = stations /\ c[Len(told)] = Cardinality(inAp)
  /\ \A i \in 1..Len(told) : c[i] = IF told[i] = "add" THEN c[i - 1] + 1 ELSE c[i - 1] - 1

\* The bit tells that the count is not zero; one that was cleared too early will be right
\* after the event that brings the count to zero.
BitTells(c) ==
  IF stations = 0 THEN peerBit = FALSE
  ELSE peerBit = TRUE \/ \E k \in 0..Len(told) : c[k] = 0

PeersInv ==
  /\ told \in Seq({"add", "remove"}) /\ inAp \subseteq Peers
  /\ ~apRole => inAp = {}
  /\ peerBit \in BOOLEAN
  /\ ~unmatched => \E c \in [0..Len(told) -> 0..Cardinality(Peers)] : Counts(c) /\ BitTells(c)

\* Adding and taking out a station, and the count as an unsigned number.
LEMMA PeerSets ==
  ASSUME inAp \subseteq Peers
  PROVE  /\ Cardinality(inAp) \in 0..Cardinality(Peers) /\ Cardinality(Peers) \in Nat
         /\ \A p \in Peers \ inAp :
              /\ Cardinality(inAp \cup {p}) = Cardinality(inAp) + 1
              /\ Cardinality(inAp \cup {p}) \in 0..Cardinality(Peers)
         /\ \A p \in inAp :
              /\ Cardinality(inAp \ {p}) = Cardinality(inAp) - 1
              /\ Cardinality(inAp \ {p}) \in 0..Cardinality(Peers)
         /\ \A n \in 0..Cardinality(Peers) : n % CountMod = n
<1>1. \A s \in SUBSET Peers : IsFiniteSet(s) /\ Cardinality(s) \in 0..Cardinality(Peers)
  <2> TAKE s \in SUBSET Peers
  <2>1. IsFiniteSet(s) /\ Cardinality(s) <= Cardinality(Peers)
    BY FS_Subset, RadioAssumption
  <2>2. QED BY <2>1, FS_CardinalityType, RadioAssumption
<1>2. Cardinality(Peers) \in Nat
  BY FS_CardinalityType, RadioAssumption
<1>3. \A p \in Peers \ inAp : Cardinality(inAp \cup {p}) = Cardinality(inAp) + 1
  BY <1>1, FS_AddElement
<1>4. \A p \in inAp : Cardinality(inAp \ {p}) = Cardinality(inAp) - 1
  BY <1>1, FS_RemoveElement
<1>5. \A n \in 0..Cardinality(Peers) : n % CountMod = n
  BY <1>2, RadioAssumption
<1>6. QED BY <1>1, <1>2, <1>3, <1>4, <1>5

\* The instance counts as this module does.
LEMMA SameCount == \A s : Ap!Cardinality(s) = Cardinality(s)
  BY DEF Ap!Cardinality, Cardinality

\* Every step of the access point's driver and thread keeps PeersInv.
LEMMA PeersInductive == PeersInv /\ [Ap!Next]_apVars => PeersInv'
<1> SUFFICES ASSUME PeersInv, [Ap!Next]_apVars PROVE PeersInv'
  OBVIOUS
<1> DEFINE n == Len(told)
           m == Cardinality(Peers)
<1>1. told \in Seq({"add", "remove"}) /\ n \in Nat /\ m \in Nat /\ inAp \subseteq Peers
  BY PeerSets, LenProperties DEF PeersInv
<1>2. Cardinality({}) = 0
  BY FS_EmptySet
<1>3. CASE Ap!RoleUp
  <2>1. told' = told /\ inAp' = {} /\ inAp = {} /\ peerBit' = FALSE /\ stations' = stations
        /\ unmatched' = unmatched
    BY <1>3 DEF Ap!RoleUp, PeersInv
  <2>2. ASSUME ~unmatched
        PROVE  \E c \in [0..Len(told') -> 0..m] : Counts(c)' /\ BitTells(c)'
    <3>1. PICK c \in [0..n -> 0..m] : Counts(c)
      BY <2>2 DEF PeersInv
    <3>2. c[n] = 0
      BY <1>2, <2>1, <3>1 DEF Counts
    <3>3. Counts(c)' /\ BitTells(c)'
      BY <1>1, <2>1, <3>1, <3>2 DEF Counts, BitTells
    <3>4. QED BY <2>1, <3>3
  <2>3. QED BY <1>1, <2>1, <2>2 DEF PeersInv
<1>4. CASE Ap!RoleDown
  <2>1. inAp' = {} /\ peerBit' = FALSE /\ stations' = stations /\ apRole' = FALSE
    BY <1>4 DEF Ap!RoleDown
  <2>2. CASE unmatched' = TRUE /\ told' = told
    BY <1>1, <2>1, <2>2 DEF PeersInv
  <2>3. CASE told' = told \o [k \in 1..Cardinality(inAp) |-> "remove"] /\ unmatched' = unmatched
    <3> DEFINE a == Cardinality(inAp)
               gone_ == [k \in 1..a |-> "remove"]
    <3>1. a \in 0..m
      BY <1>1, PeerSets
    <3>2. gone_ \in Seq({"add", "remove"}) /\ Len(gone_) = a
      BY <3>1, IsASeq
    <3>3. /\ told' \in Seq({"add", "remove"}) /\ Len(told') = n + a
          /\ \A i \in 1..(n + a) : told'[i] = IF i <= n THEN told[i] ELSE "remove"
      <4> HIDE DEF a
      <4>1. \A i \in 1..a : gone_[i] = "remove"
        OBVIOUS
      <4> HIDE DEF gone_
      <4>2. told' = told \o gone_
        BY <2>3 DEF a, gone_
      <4>3. QED BY <1>1, <3>1, <3>2, <4>1, <4>2, ConcatProperties
    <3>4. ASSUME ~unmatched
          PROVE  \E c \in [0..Len(told') -> 0..m] : Counts(c)' /\ BitTells(c)'
      <4>1. PICK c \in [0..n -> 0..m] : Counts(c)
        BY <3>4 DEF PeersInv
      <4> DEFINE d == [k \in 0..(n + a) |-> IF k <= n THEN c[k] ELSE a - (k - n)]
      <4>2. c[n] = a /\ c[0] = stations
        BY <4>1 DEF Counts
      <4> HIDE DEF a
      <4>3. d \in [0..(n + a) -> 0..m]
        BY <1>1, <3>1
      <4>4. d[0] = stations' /\ d[n + a] = 0
        BY <1>1, <2>1, <3>1, <4>2
      <4>5. \A i \in 1..n : c[i] = IF told[i] = "add" THEN c[i - 1] + 1 ELSE c[i - 1] - 1
        BY <4>1 DEF Counts
      <4>6. \A i \in 1..(n + a) :
              d[i] = IF told'[i] = "add" THEN d[i - 1] + 1 ELSE d[i - 1] - 1
        <5> TAKE i \in 1..(n + a)
        <5>1. CASE i <= n
          <6>1. d[i] = c[i] /\ d[i - 1] = c[i - 1] /\ told'[i] = told[i] /\ i \in 1..n
            BY <1>1, <3>1, <3>3, <5>1
          <6>2. QED BY <4>5, <6>1
        <5>2. CASE i > n
          <6>1. d[i] = a - (i - n) /\ told'[i] = "remove"
            BY <1>1, <3>1, <3>3, <5>2
          <6>2. d[i - 1] = a - ((i - 1) - n)
            <7>1. i - 1 \in 0..(n + a) /\ i - 1 >= n
              BY <1>1, <3>1, <5>2
            <7>2. CASE i - 1 = n
              BY <1>1, <3>1, <4>2, <7>1, <7>2
            <7>3. CASE i - 1 > n
              BY <1>1, <3>1, <7>1, <7>3
            <7>4. QED BY <1>1, <7>1, <7>2, <7>3
          <6>3. QED BY <1>1, <3>1, <5>2, <6>1, <6>2
        <5>3. QED BY <1>1, <3>1, <5>1, <5>2
      <4> HIDE DEF d
      <4>7. PICK e \in [0..(n + a) -> 0..m] : e = d
        BY <4>3
      <4>8. Counts(e)'
        BY <1>2, <2>1, <3>3, <4>4, <4>6, <4>7 DEF Counts
      <4>9. BitTells(e)'
        BY <1>1, <2>1, <3>1, <3>3, <4>4, <4>7 DEF BitTells
      <4>10. QED BY <3>3, <4>7, <4>8, <4>9
    <3>5. QED BY <2>1, <2>3, <3>3, <3>4 DEF PeersInv
  <2>4. \/ told' = told \o [k \in 1..Cardinality(inAp) |-> "remove"] /\ unmatched' = unmatched
        \/ unmatched' = TRUE /\ told' = told
    BY <1>4, SameCount, Zenon DEF Ap!RoleDown
  <2>5. QED BY <2>2, <2>3, <2>4
<1>5. ASSUME NEW e \in {"add", "remove"}, told' = Append(told, e), inAp' \subseteq Peers,
             apRole' = TRUE \/ (apRole' = apRole /\ inAp # {}),
             Cardinality(inAp') \in 0..m,
             Cardinality(inAp') = Cardinality(inAp) + (IF e = "add" THEN 1 ELSE -1),
             UNCHANGED <<stations, peerBit, unmatched>>
      PROVE  PeersInv'
  <2>1. /\ told' \in Seq({"add", "remove"}) /\ Len(told') = n + 1
        /\ \A i \in 1..n : told'[i] = told[i]
        /\ told'[n + 1] = e
    BY <1>1, <1>5, AppendProperties
  <2>2. ASSUME ~unmatched
        PROVE  \E c \in [0..Len(told') -> 0..m] : Counts(c)' /\ BitTells(c)'
    <3>1. PICK c \in [0..n -> 0..m] : Counts(c) /\ BitTells(c)
      BY <2>2 DEF PeersInv
    <3> DEFINE a == Cardinality(inAp')
               d == [k \in 0..(n + 1) |-> IF k <= n THEN c[k] ELSE a]
    <3>2. c[n] = Cardinality(inAp) /\ c[0] = stations
      BY <3>1 DEF Counts
    <3>3. a \in 0..m /\ a = c[n] + (IF e = "add" THEN 1 ELSE -1)
      BY <1>5, <3>2
    <3> HIDE DEF a
    <3>4. d \in [0..(n + 1) -> 0..m] /\ d[0] = stations' /\ d[n + 1] = a
      BY <1>1, <1>5, <3>2, <3>3
    <3>5. \A i \in 1..n : c[i] = IF told[i] = "add" THEN c[i - 1] + 1 ELSE c[i - 1] - 1
      BY <3>1 DEF Counts
    <3>6. \A i \in 1..(n + 1) : d[i] = IF told'[i] = "add" THEN d[i - 1] + 1 ELSE d[i - 1] - 1
      <4> TAKE i \in 1..(n + 1)
      <4>1. CASE i \in 1..n
        <5>1. d[i] = c[i] /\ d[i - 1] = c[i - 1] /\ told'[i] = told[i]
          BY <1>1, <2>1, <4>1
        <5>2. QED BY <3>5, <4>1, <5>1
      <4>2. CASE i = n + 1
        <5>1. d[i] = a /\ d[i - 1] = c[n] /\ told'[i] = e
          BY <1>1, <2>1, <4>2
        <5>2. QED BY <1>1, <3>3, <5>1
      <4>3. QED BY <1>1, <4>1, <4>2
    <3>7. \A k \in 0..n : d[k] = c[k] /\ k \in 0..(n + 1)
      BY <1>1
    <3> HIDE DEF d
    <3>8. PICK f \in [0..(n + 1) -> 0..m] : f = d
      BY <3>4
    <3>9. Counts(f)'
      BY <2>1, <3>4, <3>6, <3>8 DEF Counts, a
    <3>10. BitTells(f)'
      BY <1>1, <1>5, <2>1, <3>1, <3>7, <3>8 DEF BitTells
    <3>11. QED BY <2>1, <3>8, <3>9, <3>10
  <2>3. (~apRole => inAp = {})' /\ peerBit' \in BOOLEAN
    BY <1>5 DEF PeersInv
  <2>4. QED BY <1>5, <2>1, <2>2, <2>3 DEF PeersInv
<1>6. CASE Ap!PeerJoins
  <2>1. PICK p \in Peers \ inAp : inAp' = inAp \cup {p}
    BY <1>6 DEF Ap!PeerJoins
  <2>2. Cardinality(inAp') \in 0..m /\ Cardinality(inAp') = Cardinality(inAp) + 1
    BY <1>1, <2>1, PeerSets
  <2>3. apRole' = TRUE
    BY <1>6 DEF Ap!PeerJoins
  <2>4. QED BY <1>1, <1>5, <1>6, <2>1, <2>2, <2>3 DEF Ap!PeerJoins
<1>7. CASE Ap!PeerLeaves
  <2>1. PICK p \in inAp : inAp' = inAp \ {p}
    BY <1>7 DEF Ap!PeerLeaves
  <2>2. Cardinality(inAp') \in 0..m /\ Cardinality(inAp') = Cardinality(inAp) - 1
    BY <1>1, <2>1, PeerSets
  <2>3. inAp \in SUBSET Peers /\ inAp # {}
    BY <1>1, <2>1
  <2>4. QED BY <1>1, <1>5, <1>7, <2>1, <2>2, <2>3 DEF Ap!PeerLeaves
<1>8. ASSUME told # <<>>, told' = Tail(told), UNCHANGED <<apRole, inAp, unmatched>>,
             stations' = (IF Head(told) = "add" THEN stations + 1 ELSE stations - 1) % CountMod,
             peerBit' = IF Head(told) = "add" THEN TRUE
                        ELSE IF stations' = 0 THEN FALSE ELSE peerBit
      PROVE  PeersInv'
  <2>1. /\ told' \in Seq({"add", "remove"}) /\ Len(told') = n - 1 /\ n > 0
        /\ \A i \in 1..(n - 1) : told'[i] = told[i + 1]
        /\ Head(told) = told[1]
    BY <1>1, <1>8, HeadTailProperties, EmptySeq
  <2>2. ASSUME ~unmatched
        PROVE  \E c \in [0..Len(told') -> 0..m] : Counts(c)' /\ BitTells(c)'
    <3>1. PICK c \in [0..n -> 0..m] : Counts(c) /\ BitTells(c)
      BY <2>2 DEF PeersInv
    <3>2. /\ c[n] = Cardinality(inAp) /\ c[0] = stations
          /\ \A i \in 1..n : c[i] = IF told[i] = "add" THEN c[i - 1] + 1 ELSE c[i - 1] - 1
      BY <3>1 DEF Counts
    <3>3. c[1] = (IF told[1] = "add" THEN stations + 1 ELSE stations - 1) /\ c[1] \in 0..m
      BY <1>1, <2>1, <3>2
    <3>4. stations' = c[1]
      BY <1>1, <1>8, <2>1, <3>3, PeerSets
    <3> DEFINE d == [k \in 0..(n - 1) |-> c[k + 1]]
    <3>5. d \in [0..(n - 1) -> 0..m] /\ d[0] = stations' /\ d[n - 1] = Cardinality(inAp)
      BY <1>1, <2>1, <3>2, <3>4, SMTT(30)
    <3>6. \A i \in 1..(n - 1) : d[i] = IF told'[i] = "add" THEN d[i - 1] + 1 ELSE d[i - 1] - 1
      <4> TAKE i \in 1..(n - 1)
      <4>1. i + 1 \in 1..n /\ d[i] = c[i + 1] /\ d[i - 1] = c[i] /\ (i + 1) - 1 = i
        BY <1>1, <2>1
      <4>2. QED BY <2>1, <3>2, <4>1
    <3>7. \A k \in 1..n : k - 1 \in 0..(n - 1) /\ d[k - 1] = c[k]
      BY <1>1, <2>1
    <3> HIDE DEF d
    <3>8. PICK f \in [0..(n - 1) -> 0..m] : f = d
      BY <3>5
    <3>9. Counts(f)'
      BY <1>8, <2>1, <3>5, <3>6, <3>8 DEF Counts
    <3>10. BitTells(f)'
      <4>1. CASE stations' = 0
        <5>1. Head(told) # "add"
          BY <1>1, <2>1, <3>2, <3>3, <3>4, <4>1
        <5>2. QED BY <1>8, <4>1, <5>1 DEF BitTells
      <4>2. CASE stations' # 0 /\ peerBit' # TRUE
        <5>1. Head(told) # "add" /\ peerBit # TRUE
          BY <1>8, <4>2
        <5>2. stations # 0
          BY <1>1, <2>1, <3>2, <3>3, <3>4, <5>1
        <5>3. PICK k \in 0..n : c[k] = 0
          BY <3>1, <5>1, <5>2 DEF BitTells
        <5>4. k \in 1..n
          BY <1>1, <3>2, <5>2, <5>3
        <5>5. k - 1 \in 0..(n - 1) /\ f[k - 1] = 0
          BY <3>7, <3>8, <5>3, <5>4
        <5>6. QED BY <2>1, <4>2, <5>5 DEF BitTells
      <4>3. QED BY <4>1, <4>2 DEF BitTells
    <3>11. QED BY <2>1, <3>8, <3>9, <3>10
  <2>3. peerBit' \in BOOLEAN
    BY <1>8 DEF PeersInv
  <2>4. QED BY <1>8, <2>1, <2>2, <2>3 DEF PeersInv
<1>9. CASE Ap!AddPeer \/ Ap!RemovePeer
  <2>1. CASE Ap!AddPeer
    BY <1>8, <2>1 DEF Ap!AddPeer
  <2>2. CASE Ap!RemovePeer
    BY <1>8, <2>2 DEF Ap!RemovePeer
  <2>3. QED BY <1>9, <2>1, <2>2
<1>10. CASE UNCHANGED apVars
  BY <1>10 DEF apVars, PeersInv, Counts, BitTells
<1>11. QED BY <1>3, <1>4, <1>6, <1>7, <1>9, <1>10 DEF Ap!Next

\* A scan that reports success left its own results, unless an earlier one timed out or
\* was a find.
THEOREM ScanOwnResults == MCSpec => [](part = "scan" => Scan!ScanAnswersOwn)
<1> DEFINE Inv == part = "scan" => ScanInv
<1>1. MCInit => Inv
  BY DEF MCInit, Scan!Init, ScanInv
<1>2. Inv /\ [MCNext]_mcVars => Inv'
  BY PartStep, ScanInductive
<1>3. Inv => (part = "scan" => Scan!ScanAnswersOwn)
  BY DEF ScanInv, Scan!ScanAnswersOwn
<1>4. QED BY <1>1, <1>2, <1>3, PTL DEF MCSpec, mcVars

\* Once every peer event is handled, the count is that of the stations that are in and the
\* bit says whether there is one; and a scan that succeeds left its own results.
THEOREM PeersAndScanTrue == MCSpec => []PeersAndScan
<1> DEFINE Inv == part = "peers" => PeersInv
<1>1. MCInit => Inv
  <2> SUFFICES ASSUME MCInit PROVE PeersInv
    OBVIOUS
  <2>1. /\ told = <<>> /\ inAp = {} /\ stations = 0 /\ peerBit = FALSE
        /\ Len(told) = 0 /\ Cardinality(inAp) = 0
    BY FS_EmptySet DEF MCInit, Ap!Init
  <2>2. [i \in 0..0 |-> 0] \in [0..Len(told) -> 0..Cardinality(Peers)]
        /\ Counts([i \in 0..0 |-> 0]) /\ BitTells([i \in 0..0 |-> 0])
    BY <2>1, FS_CardinalityType, RadioAssumption DEF Counts, BitTells
  <2>3. QED BY <2>1, <2>2 DEF PeersInv
<1>2. Inv /\ [MCNext]_mcVars => Inv'
  BY PartStep, PeersInductive
<1>3. Inv => (part = "peers" => Ap!PeersCounted)
  <2> SUFFICES ASSUME PeersInv, told = <<>>, ~unmatched
               PROVE  stations = Cardinality(inAp) /\ (peerBit <=> inAp # {})
    BY SameCount DEF PeersInv, Ap!PeersCounted
  <2>1. Len(told) = 0
    OBVIOUS
  <2>2. PICK c \in [0..0 -> 0..Cardinality(Peers)] : Counts(c) /\ BitTells(c)
    BY <2>1 DEF PeersInv
  <2>3. stations = Cardinality(inAp)
    BY <2>1, <2>2 DEF Counts
  <2>4. peerBit <=> stations # 0
    BY <2>1, <2>2 DEF Counts, BitTells, PeersInv
  <2>5. Cardinality(inAp) = 0 <=> inAp = {}
    BY FS_EmptySet, FS_Subset, RadioAssumption DEF PeersInv
  <2>6. QED BY <2>3, <2>4, <2>5
<1>4. MCSpec => [](part = "peers" => Ap!PeersCounted)
  BY <1>1, <1>2, <1>3, PTL DEF MCSpec, mcVars
<1>5. (part = "peers" => Ap!PeersCounted) /\ (part = "scan" => Scan!ScanAnswersOwn)
      => PeersAndScan
  BY DEF PeersAndScan
<1>6. QED BY <1>4, <1>5, ScanOwnResults, PTL
=============================================================================
