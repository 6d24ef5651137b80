--------------------------- MODULE RadioLinkProofs ---------------------------
(***************************************************************************)
(* Proofs about the two radio parts of MCRadio in which a queue of reports *)
(* stands between the driver and what the program keeps of its links: the  *)
(* table of Bluetooth LE connections, which the command thread and the     *)
(* host task share without a lock, and the Wi-Fi Direct group.             *)
(***************************************************************************)
EXTENDS RadioProofs

NoHandle == "none"
Handles == BleHandles \cup {NoHandle}
Entries == 1..MaxConns
Ats == {"idle", "wait", "entry", "add", "remove", "stored"}
ThreadType == [at : Ats, i : Nat, h : Handles, read : Int]
ReportType == [what : {"connected", "disconnected"}, h : BleHandles]

\* The handles in a table, each in one entry.
InTable(t) == {t[i] : i \in Entries} \ {NoHandle}
Once(t) == \A i, j \in Entries : i # j /\ t[i] # NoHandle => t[i] # t[j]

BleTypes ==
  /\ host \in {"off", "starting", "on"} /\ overlap \in BOOLEAN
  /\ bleCmd \in ThreadType /\ bleCmd.at # "add"
  /\ bleCmd.at \in {"entry", "remove", "stored"} => bleCmd.i >= 1
  /\ bleEvt \in ThreadType /\ bleEvt.at \notin {"wait", "entry"}
  /\ bleEvt.at \in {"add", "remove"} => bleEvt.h \in BleHandles
  /\ table \in [Entries -> Handles] /\ conns \in Int
  /\ links \subseteq BleHandles /\ reports \in Seq(ReportType)
  /\ scan \in [on : BOOLEAN, count : 0..MaxScan]
  /\ syncObj # "none" => bleCmd.at = "wait"

\* Nothing is under way while there is no host, and a host starts with an empty table.
HostAlone ==
  /\ host # "on" => /\ links = {} /\ reports = <<>> /\ bleEvt.at = "idle"
                    /\ bleCmd.at \in {"idle", "wait"}
  /\ host = "starting" => conns = 0 /\ \A i \in Entries : table[i] = NoHandle

Busy(t) == t.at \in {"add", "remove", "stored"}

\* The handles in the table once the thread that is in it has written.
Written == CASE bleCmd.at = "remove" -> InTable(table) \ {bleCmd.h}
             [] bleCmd.at # "remove" /\ bleEvt.at = "remove" -> InTable(table) \ {bleEvt.h}
             [] bleCmd.at # "remove" /\ bleEvt.at = "add" -> InTable(table) \cup {bleEvt.h}
             [] OTHER -> InTable(table)

\* The reports in r take the handles a to the handles b, never more than there are
\* entries, and s is what each leaves; a connection is reported when the last of its
\* handle is over.
Path(s, r, a, b) ==
  /\ s \in [0..Len(r) -> SUBSET BleHandles]
  /\ s[0] = a /\ s[Len(r)] = b
  /\ \A k \in 0..Len(r) : IsFiniteSet(s[k]) /\ Cardinality(s[k]) <= MaxConns
  /\ \A k \in 1..Len(r) :
       IF r[k].what = "connected"
       THEN /\ s[k] = s[k - 1] \cup {r[k].h}
            /\ r[k].h \notin a /\ \A j \in 1..(k - 1) : r[j].h # r[k].h
       ELSE s[k] = s[k - 1] \ {r[k].h}

Leads(r, a, b) == \E s \in [0..Len(r) -> SUBSET BleHandles] : Path(s, r, a, b)

CountKept ==
  LET n == Cardinality(InTable(table)) IN
  IF bleCmd.at = "stored" THEN bleCmd.read = n
  ELSE IF bleEvt.at = "stored" THEN bleEvt.read = n ELSE conns = n

\* As long as the threads were never in the table together.
Tidy ==
  /\ ~(Busy(bleCmd) /\ Busy(bleEvt))
  /\ Once(table) /\ CountKept
  /\ bleEvt.at = "add" => bleEvt.h \notin InTable(table)
  /\ bleCmd.at = "remove" => bleCmd.h \in InTable(table)
  /\ Leads(reports, Written, links)

BleInv == BleTypes /\ HostAlone /\ (host = "on" /\ ~overlap => Tidy)

-----------------------------------------------------------------------------
(* A table of handles. *)

\* The handles in a table are finitely many and handles of the controller.
LEMMA TableSet ==
  ASSUME NEW t \in [Entries -> Handles]
  PROVE  IsFiniteSet(InTable(t)) /\ Cardinality(InTable(t)) \in Nat /\ InTable(t) \subseteq BleHandles
<1> DEFINE Img == {t[i] : i \in Entries}
           f == [i \in Entries |-> t[i]]
<1>1. IsFiniteSet(Entries)
  BY FS_Interval, BleAssumption DEF Entries
<1>2. f \in Surjection(Entries, Img)
  BY DEF Surjection
<1>3. IsFiniteSet(Img)
  BY <1>1, <1>2, FS_Surjection
<1>4. IsFiniteSet(InTable(t))
  BY <1>3, FS_Subset DEF InTable
<1>5. InTable(t) \subseteq BleHandles
  BY DEF InTable, Handles
<1>6. QED BY <1>4, <1>5, FS_CardinalityType

\* A handle is entered into a free entry ...
LEMMA TableAdd ==
  ASSUME NEW t \in [Entries -> Handles], Once(t), NEW i \in Entries, t[i] = NoHandle,
         NEW h \in BleHandles, h \notin InTable(t)
  PROVE  LET u == [t EXCEPT ![i] = h] IN
         /\ u \in [Entries -> Handles] /\ Once(u) /\ InTable(u) = InTable(t) \cup {h}
         /\ Cardinality(InTable(u)) = Cardinality(InTable(t)) + 1
<1> DEFINE u == [t EXCEPT ![i] = h]
<1>1. h # NoHandle /\ h \in Handles
  BY BleAssumption DEF NoHandle, Handles
<1>2. u \in [Entries -> Handles] /\ u[i] = h /\ \A j \in Entries : j # i => u[j] = t[j]
  BY <1>1
<1>3. \A j \in Entries : t[j] # h
  BY <1>1 DEF InTable
<1> HIDE DEF u
<1>4. Once(u)
  BY <1>1, <1>2, <1>3 DEF Once
<1>5. InTable(u) = InTable(t) \cup {h}
  BY <1>1, <1>2 DEF InTable
<1>6. Cardinality(InTable(u)) = Cardinality(InTable(t)) + 1
  BY <1>5, TableSet, FS_AddElement
<1>7. QED BY <1>2, <1>4, <1>5, <1>6 DEF u

\* ... or leaves the only entry it has.
LEMMA TableRemove ==
  ASSUME NEW t \in [Entries -> Handles], Once(t), NEW i \in Entries, t[i] # NoHandle
  PROVE  LET u == [t EXCEPT ![i] = NoHandle] IN
         /\ u \in [Entries -> Handles] /\ Once(u) /\ InTable(u) = InTable(t) \ {t[i]}
         /\ Cardinality(InTable(u)) = Cardinality(InTable(t)) - 1
<1> DEFINE u == [t EXCEPT ![i] = NoHandle]
<1>1. NoHandle \in Handles
  BY DEF Handles
<1>2. /\ u \in [Entries -> Handles] /\ u[i] = NoHandle
      /\ \A j \in Entries : j # i => u[j] = t[j]
  BY <1>1
<1>3. \A j \in Entries : j # i => t[j] # t[i]
  BY DEF Once
<1> HIDE DEF u
<1>4. Once(u)
  BY <1>2 DEF Once
<1>5. InTable(u) = InTable(t) \ {t[i]}
  BY <1>2, <1>3 DEF InTable
<1>6. t[i] \in InTable(t)
  BY DEF InTable
<1>7. Cardinality(InTable(u)) = Cardinality(InTable(t)) - 1
  <2>1. IsFiniteSet(InTable(t))
    BY TableSet
  <2>2. Cardinality(InTable(t) \ {t[i]}) = Cardinality(InTable(t)) - 1
    BY <1>6, <2>1, FS_RemoveElement
  <2>3. QED BY <1>5, <2>2
<1>8. QED BY <1>2, <1>4, <1>5, <1>7 DEF u

\* A table without a free entry is full.
LEMMA TableFull ==
  ASSUME NEW t \in [Entries -> Handles], Once(t), \A i \in Entries : t[i] # NoHandle
  PROVE  Cardinality(InTable(t)) = MaxConns
<1>1. IsFiniteSet(Entries) /\ Cardinality(Entries) = MaxConns
  BY FS_Interval, BleAssumption DEF Entries
<1>2. t \in Bijection(Entries, InTable(t))
  <2>1. \A i \in Entries : t[i] \in InTable(t)
    BY DEF InTable
  <2>2. t \in [Entries -> InTable(t)]
    BY <2>1
  <2>3. \A i, j \in Entries : t[i] = t[j] => i = j
    BY DEF Once
  <2>4. \A h \in InTable(t) : \E i \in Entries : t[i] = h
    BY DEF InTable
  <2>5. t \in Injection(Entries, InTable(t))
    BY <2>2, <2>3 DEF Injection, IsInjective
  <2>6. t \in Surjection(Entries, InTable(t))
    BY <2>2, <2>4 DEF Surjection
  <2>7. QED BY <2>5, <2>6 DEF Bijection
<1>3. ExistsBijection(Entries, InTable(t))
  BY <1>2 DEF ExistsBijection
<1>4. QED BY <1>1, <1>3, FS_Bijection

\* The first entry found is one of those found.
LEMMA FirstFound ==
  ASSUME NEW f \in SUBSET Entries, f # {}
  PROVE  Ble!Min(f) \in f
<1>1. f \subseteq Nat
  BY BleAssumption DEF Entries
<1>2. PICK x \in f : \A y \in f : ~(<<y, x>> \in OpToRel(<, Nat))
  BY <1>1, NatLessThanWellFounded, WFMin
<1>3. \A y \in f : ~(y < x)
  BY <1>1, <1>2 DEF OpToRel
<1>4. \A y \in f : x <= y
  BY <1>1, <1>3
<1>5. QED BY <1>4 DEF Ble!Min

-----------------------------------------------------------------------------
(* The reports that wait. *)

\* A path stays among the sets of handles that fit the table.
LEMMA PathFits ==
  ASSUME NEW r \in Seq(ReportType), NEW a, NEW b, Leads(r, a, b)
  PROVE  /\ a \in SUBSET BleHandles /\ IsFiniteSet(a) /\ Cardinality(a) <= MaxConns
         /\ b \in SUBSET BleHandles /\ IsFiniteSet(b) /\ Cardinality(b) <= MaxConns
<1>1. PICK s \in [0..Len(r) -> SUBSET BleHandles] : Path(s, r, a, b)
  BY DEF Leads
<1>2. Len(r) \in Nat /\ 0 \in 0..Len(r) /\ Len(r) \in 0..Len(r)
  OBVIOUS
<1>3. QED BY <1>1, <1>2 DEF Path

\* Without reports there is nothing to be done ...
LEMMA PathOfNone ==
  ASSUME NEW a \in SUBSET BleHandles, IsFiniteSet(a), Cardinality(a) <= MaxConns
  PROVE  Leads(<<>>, a, a)
<1> DEFINE s == [k \in 0..0 |-> a]
<1>1. Len(<<>>) = 0
  OBVIOUS
<1>2. Path(s, <<>>, a, a)
  BY <1>1 DEF Path
<1>3. QED BY <1>1, <1>2 DEF Leads

\* ... and nothing has been done.
LEMMA NoneIsPath ==
  ASSUME NEW a, NEW b, Leads(<<>>, a, b)
  PROVE  a = b
<1>1. Len(<<>>) = 0
  OBVIOUS
<1>2. QED BY <1>1 DEF Leads, Path

\* A handle that no report names is there at the end if it was at the start.
LEMMA PathKeeps ==
  ASSUME NEW r \in Seq(ReportType), NEW a, NEW b, NEW s \in [0..Len(r) -> SUBSET BleHandles],
         Path(s, r, a, b), NEW h \in a, \A k \in 1..Len(r) : r[k].h # h
  PROVE  h \in b
<1> DEFINE n == Len(r)
           Gone == {k \in 0..n : h \notin s[k]}
<1>1. n \in Nat
  OBVIOUS
<1>2. SUFFICES ASSUME h \notin b PROVE FALSE
  OBVIOUS
<1>3. n \in Gone
  BY <1>1, <1>2 DEF Path
<1>4. PICK m \in Gone : \A y \in Gone : ~(<<y, m>> \in OpToRel(<, Nat))
  <2>1. Gone \subseteq Nat /\ Gone # {}
    BY <1>1, <1>3
  <2>2. QED BY <2>1, NatLessThanWellFounded, WFMin
<1>5. m \in Nat /\ \A y \in Gone : ~(y < m)
  BY <1>1, <1>4 DEF OpToRel
<1>6. m # 0
  BY <1>4 DEF Path
<1>7. m \in 1..n /\ m - 1 \in 0..n /\ m - 1 \notin Gone
  <2>1. m \in 0..n
    BY <1>4
  <2>2. m \in 1..n /\ m - 1 \in 0..n /\ m - 1 < m
    BY <1>1, <1>6, <2>1
  <2>3. QED BY <1>5, <2>2
<1>8. h \in s[m - 1] /\ h \notin s[m]
  BY <1>4, <1>7
<1>9. r[m].h # h /\ s[m] \in {s[m - 1] \cup {r[m].h}, s[m - 1] \ {r[m].h}}
  BY <1>7 DEF Path
<1>10. QED BY <1>8, <1>9

\* A link that was made is reported ...
LEMMA PathOfLink ==
  ASSUME NEW r \in Seq(ReportType), NEW a, NEW b, Leads(r, a, b), Cardinality(b) < MaxConns,
         NEW h \in BleHandles, h \notin b, \A k \in 1..Len(r) : r[k].h # h
  PROVE  Leads(Append(r, [what |-> "connected", h |-> h]), a, b \cup {h})
<1>1. PICK s \in [0..Len(r) -> SUBSET BleHandles] : Path(s, r, a, b)
  BY DEF Leads
<1> DEFINE x == [what |-> "connected", h |-> h]
           q == Append(r, x)
           n == Len(r)
           c == b \cup {h}
           u == [k \in 0..(n + 1) |-> IF k = n + 1 THEN c ELSE s[k]]
<1>2. /\ n \in Nat /\ Len(q) = n + 1 /\ q[n + 1] = x
      /\ \A k \in 1..n : q[k] = r[k]
  <2>1. x \in ReportType
    BY DEF ReportType
  <2>2. QED BY <2>1
<1>3. b \in SUBSET BleHandles /\ IsFiniteSet(b)
  BY PathFits
<1>4. c \in SUBSET BleHandles /\ IsFiniteSet(c) /\ Cardinality(c) <= MaxConns
  <2>1. IsFiniteSet(c) /\ Cardinality(c) = Cardinality(b) + 1
    BY <1>3, FS_AddElement
  <2>2. QED BY <1>3, <2>1, FS_CardinalityType, BleAssumption
<1>5. h \notin a
  BY <1>1, PathKeeps
<1>6. x.what = "connected" /\ x.h = h
  OBVIOUS
<1> HIDE DEF x, q, c
<1>7. u \in [0..(n + 1) -> SUBSET BleHandles]
  BY <1>1, <1>2, <1>4
<1>8. u[n + 1] = c /\ \A k \in 0..n : u[k] = s[k]
  BY <1>2
<1> HIDE DEF u
<1>9. Path(u, q, a, c)
  <2>1. u[0] = a /\ u[Len(q)] = c
    BY <1>1, <1>2, <1>8 DEF Path
  <2>2. \A k \in 0..Len(q) : IsFiniteSet(u[k]) /\ Cardinality(u[k]) <= MaxConns
    BY <1>1, <1>2, <1>4, <1>8 DEF Path
  <2>3. ASSUME NEW k \in 1..Len(q)
        PROVE  IF q[k].what = "connected"
               THEN /\ u[k] = u[k - 1] \cup {q[k].h}
                    /\ q[k].h \notin a /\ \A j \in 1..(k - 1) : q[j].h # q[k].h
               ELSE u[k] = u[k - 1] \ {q[k].h}
    <3>1. CASE k = n + 1
      <4>1. u[k] = c /\ u[k - 1] = b
        BY <1>1, <1>2, <1>8, <3>1 DEF Path
      <4>2. q[k].what = "connected" /\ q[k].h = h
        BY <1>2, <1>6, <3>1
      <4>3. \A j \in 1..(k - 1) : q[j].h # h
        BY <1>2, <3>1
      <4>4. QED BY <4>1, <4>2, <4>3, <1>5 DEF c
    <3>2. CASE k # n + 1
      <4>1. k \in 1..n /\ k \in 0..n /\ k - 1 \in 0..n
        BY <1>2, <3>2
      <4>2. q[k] = r[k] /\ u[k] = s[k] /\ u[k - 1] = s[k - 1]
        BY <4>1, <1>2, <1>8
      <4>3. \A j \in 1..(k - 1) : q[j] = r[j]
        BY <4>1, <1>2
      <4>4. QED BY <1>1, <4>1, <4>2, <4>3 DEF Path
    <3>3. QED BY <3>1, <3>2
  <2>4. QED BY <1>2, <1>7, <2>1, <2>2, <2>3 DEF Path
<1>10. u \in [0..Len(q) -> SUBSET BleHandles]
  BY <1>2, <1>7
<1>11. Leads(q, a, c)
  BY <1>9, <1>10 DEF Leads
<1>12. QED BY <1>11 DEF q, c, x

\* ... and so is one that is over.
LEMMA PathOfEnd ==
  ASSUME NEW r \in Seq(ReportType), NEW a, NEW b, Leads(r, a, b), NEW h \in BleHandles
  PROVE  Leads(Append(r, [what |-> "disconnected", h |-> h]), a, b \ {h})
<1>1. PICK s \in [0..Len(r) -> SUBSET BleHandles] : Path(s, r, a, b)
  BY DEF Leads
<1> DEFINE x == [what |-> "disconnected", h |-> h]
           q == Append(r, x)
           n == Len(r)
           c == b \ {h}
           u == [k \in 0..(n + 1) |-> IF k = n + 1 THEN c ELSE s[k]]
<1>2. /\ n \in Nat /\ Len(q) = n + 1 /\ q[n + 1] = x
      /\ \A k \in 1..n : q[k] = r[k]
  <2>1. x \in ReportType
    BY DEF ReportType
  <2>2. QED BY <2>1
<1>3. b \in SUBSET BleHandles /\ IsFiniteSet(b) /\ Cardinality(b) <= MaxConns
  BY PathFits
<1>4. c \in SUBSET BleHandles /\ IsFiniteSet(c) /\ Cardinality(c) <= MaxConns
  <2>1. IsFiniteSet(c) /\ Cardinality(c) <= Cardinality(b)
    BY <1>3, FS_Subset
  <2>2. QED BY <1>3, <2>1, FS_CardinalityType, BleAssumption
<1>6. x.what # "connected" /\ x.h = h
  OBVIOUS
<1> HIDE DEF x, q, c
<1>7. u \in [0..(n + 1) -> SUBSET BleHandles]
  BY <1>1, <1>2, <1>4
<1>8. u[n + 1] = c /\ \A k \in 0..n : u[k] = s[k]
  BY <1>2
<1> HIDE DEF u
<1>9. Path(u, q, a, c)
  <2>1. u[0] = a /\ u[Len(q)] = c
    BY <1>1, <1>2, <1>8 DEF Path
  <2>2. \A k \in 0..Len(q) : IsFiniteSet(u[k]) /\ Cardinality(u[k]) <= MaxConns
    BY <1>1, <1>2, <1>4, <1>8 DEF Path
  <2>3. ASSUME NEW k \in 1..Len(q)
        PROVE  IF q[k].what = "connected"
               THEN /\ u[k] = u[k - 1] \cup {q[k].h}
                    /\ q[k].h \notin a /\ \A j \in 1..(k - 1) : q[j].h # q[k].h
               ELSE u[k] = u[k - 1] \ {q[k].h}
    <3>1. CASE k = n + 1
      <4>1. u[k] = c /\ u[k - 1] = b
        BY <1>1, <1>2, <1>8, <3>1 DEF Path
      <4>2. q[k].what # "connected" /\ q[k].h = h
        BY <1>2, <1>6, <3>1
      <4>3. QED BY <4>1, <4>2 DEF c
    <3>2. CASE k # n + 1
      <4>1. k \in 1..n /\ k \in 0..n /\ k - 1 \in 0..n
        BY <1>2, <3>2
      <4>2. q[k] = r[k] /\ u[k] = s[k] /\ u[k - 1] = s[k - 1]
        BY <4>1, <1>2, <1>8
      <4>3. \A j \in 1..(k - 1) : q[j] = r[j]
        BY <4>1, <1>2
      <4>4. QED BY <1>1, <4>1, <4>2, <4>3 DEF Path
    <3>3. QED BY <3>1, <3>2
  <2>4. QED BY <1>2, <1>7, <2>1, <2>2, <2>3 DEF Path
<1>10. u \in [0..Len(q) -> SUBSET BleHandles]
  BY <1>2, <1>7
<1>11. Leads(q, a, c)
  BY <1>9, <1>10 DEF Leads
<1>12. QED BY <1>11 DEF q, c, x

\* The first report is the first step.
LEMMA PathAfterHead ==
  ASSUME NEW r \in Seq(ReportType), r # <<>>, NEW a, NEW b, Leads(r, a, b)
  PROVE  LET x == Head(r) IN
         IF x.what = "connected" THEN x.h \notin a /\ Leads(Tail(r), a \cup {x.h}, b)
         ELSE Leads(Tail(r), a \ {x.h}, b)
<1>1. PICK s \in [0..Len(r) -> SUBSET BleHandles] : Path(s, r, a, b)
  BY DEF Leads
<1> DEFINE n == Len(r)
           q == Tail(r)
           u == [k \in 0..(n - 1) |-> s[k + 1]]
<1>2. /\ n \in Nat /\ n >= 1 /\ q \in Seq(ReportType) /\ Len(q) = n - 1
      /\ Head(r) = r[1] /\ \A k \in 1..(n - 1) : q[k] = r[k + 1]
  BY HeadTailProperties, EmptySeq
<1> HIDE DEF q
<1>3. u \in [0..(n - 1) -> SUBSET BleHandles] /\ \A k \in 0..(n - 1) : u[k] = s[k + 1]
  BY <1>1, <1>2
<1> HIDE DEF u
<1>4. 1 \in 1..n /\ 0 \in 0..(n - 1) /\ n - 1 \in 0..(n - 1)
  BY <1>2
<1>5. s[1] = IF r[1].what = "connected" THEN a \cup {r[1].h} ELSE a \ {r[1].h}
  BY <1>1, <1>4 DEF Path
<1>6. r[1].what = "connected" => r[1].h \notin a
  BY <1>1, <1>4 DEF Path
<1>7. Path(u, q, s[1], b)
  <2>1. u[0] = s[1] /\ u[Len(q)] = b
    BY <1>1, <1>2, <1>3, <1>4 DEF Path
  <2>2. \A k \in 0..Len(q) : IsFiniteSet(u[k]) /\ Cardinality(u[k]) <= MaxConns
    <3> SUFFICES ASSUME NEW k \in 0..(n - 1) PROVE IsFiniteSet(u[k]) /\ Cardinality(u[k]) <= MaxConns
      BY <1>2
    <3>1. k + 1 \in 0..n
      BY <1>2
    <3>2. QED BY <1>1, <1>3, <3>1 DEF Path
  <2>3. ASSUME NEW k \in 1..Len(q)
        PROVE  IF q[k].what = "connected"
               THEN /\ u[k] = u[k - 1] \cup {q[k].h}
                    /\ q[k].h \notin s[1] /\ \A j \in 1..(k - 1) : q[j].h # q[k].h
               ELSE u[k] = u[k - 1] \ {q[k].h}
    <3>1. k \in 1..(n - 1) /\ k \in 0..(n - 1) /\ k - 1 \in 0..(n - 1) /\ k + 1 \in 1..n
      BY <1>2
    <3>2. q[k] = r[k + 1] /\ u[k] = s[k + 1] /\ u[k - 1] = s[k]
      BY <1>2, <1>3, <3>1
    <3>3. r[k + 1].what = "connected" =>
            /\ s[k + 1] = s[k] \cup {r[k + 1].h} /\ r[k + 1].h \notin a
            /\ \A j \in 1..k : r[j].h # r[k + 1].h
      BY <1>1, <3>1 DEF Path
    <3>4. r[k + 1].what # "connected" => s[k + 1] = s[k] \ {r[k + 1].h}
      BY <1>1, <3>1 DEF Path
    <3>5. \A j \in 1..(k - 1) : q[j] = r[j + 1] /\ j + 1 \in 1..k
      BY <1>2, <3>1
    <3>6. r[k + 1].what = "connected" => r[1].h # r[k + 1].h
      BY <3>1, <3>3
    <3>7. r[k + 1].what = "connected" => r[k + 1].h \notin s[1]
      BY <1>5, <3>3, <3>6
    <3>8. QED BY <3>2, <3>3, <3>4, <3>5, <3>7
  <2>4. QED BY <1>2, <1>3, <2>1, <2>2, <2>3 DEF Path
<1>8. Leads(q, s[1], b)
  BY <1>2, <1>3, <1>7 DEF Leads
<1>9. QED BY <1>2, <1>5, <1>6, <1>8 DEF q

\* A handle taken out at the start is out at the end.
LEMMA PathWithout ==
  ASSUME NEW r \in Seq(ReportType), NEW a, NEW b, Leads(r, a, b), NEW h \in a
  PROVE  Leads(r, a \ {h}, b \ {h})
<1>1. PICK s \in [0..Len(r) -> SUBSET BleHandles] : Path(s, r, a, b)
  BY DEF Leads
<1> DEFINE n == Len(r)
           u == [k \in 0..n |-> s[k] \ {h}]
<1>2. n \in Nat /\ 0 \in 0..n /\ n \in 0..n
  OBVIOUS
<1>3. u \in [0..n -> SUBSET BleHandles] /\ \A k \in 0..n : u[k] = s[k] \ {h}
  BY <1>1
<1> HIDE DEF u
<1>4. Path(u, r, a \ {h}, b \ {h})
  <2>1. u[0] = a \ {h} /\ u[n] = b \ {h}
    BY <1>1, <1>2, <1>3 DEF Path
  <2>2. ASSUME NEW k \in 0..n PROVE IsFiniteSet(u[k]) /\ Cardinality(u[k]) <= MaxConns
    <3>1. IsFiniteSet(s[k]) /\ Cardinality(s[k]) <= MaxConns
      BY <1>1 DEF Path
    <3>2. IsFiniteSet(u[k]) /\ Cardinality(u[k]) <= Cardinality(s[k])
      BY <1>3, <3>1, FS_Subset
    <3>3. QED BY <3>1, <3>2, FS_CardinalityType, BleAssumption
  <2>3. ASSUME NEW k \in 1..n
        PROVE  IF r[k].what = "connected"
               THEN /\ u[k] = u[k - 1] \cup {r[k].h}
                    /\ r[k].h \notin a \ {h} /\ \A j \in 1..(k - 1) : r[j].h # r[k].h
               ELSE u[k] = u[k - 1] \ {r[k].h}
    <3>1. k \in 0..n /\ k - 1 \in 0..n
      BY <1>2
    <3>2. u[k] = s[k] \ {h} /\ u[k - 1] = s[k - 1] \ {h}
      BY <1>3, <3>1
    <3>3. QED BY <1>1, <3>2 DEF Path
  <2>4. QED BY <1>2, <1>3, <2>1, <2>2, <2>3 DEF Path
<1>5. QED BY <1>3, <1>4 DEF Leads

-----------------------------------------------------------------------------
(* The two threads. *)

\* What a thread is set to when it begins, goes on and ends.
LEMMA ThreadIdle ==
  /\ Ble!Idle \in ThreadType /\ Ble!Idle.at = "idle"
BY DEF ThreadType, Ats, Handles, NoHandle, Ble!Idle, Ble!NoHandle

\* A thread that moves on stays a thread.
LEMMA ThreadAt ==
  ASSUME NEW t \in ThreadType, NEW a \in Ats
  PROVE  [t EXCEPT !.at = a] \in ThreadType /\ [t EXCEPT !.at = a].at = a
BY DEF ThreadType

\* A write of the table keeps it a table.
LEMMA WritesForm ==
  ASSUME BleTypes, NEW t \in ThreadType, Ble!Writes(t)
  PROVE  table' \in [Entries -> Handles]
<1> DEFINE f == Ble!Found(t.at, t.h)
<1>1. f \in SUBSET Entries
  BY DEF Ble!Found, Ble!Entries, Entries
<1>2. CASE f = {}
  BY <1>2 DEF Ble!Writes, BleTypes
<1>3. CASE f # {}
  <2>1. Ble!Min(f) \in Entries
    BY <1>1, <1>3, FirstFound
  <2>2. t.h \in Handles /\ NoHandle \in Handles
    BY DEF ThreadType, Handles
  <2>3. table' = [table EXCEPT ![Ble!Min(f)] = IF t.at = "add" THEN t.h ELSE Ble!NoHandle]
    BY <1>3 DEF Ble!Writes
  <2>4. QED BY <2>1, <2>2, <2>3 DEF BleTypes, NoHandle, Ble!NoHandle
<1>4. QED BY <1>2, <1>3

\* What a thread has read is a number.
LEMMA WrittenForm ==
  ASSUME BleTypes, NEW t \in ThreadType
  PROVE  LET u == Ble!Written(t) IN
         u \in ThreadType /\ u.at = "stored" /\ u.i = t.i
<1> DEFINE n == IF Ble!Found(t.at, t.h) = {} THEN conns
                ELSE IF t.at = "add" THEN conns + 1 ELSE conns - 1
<1>1. n \in Int
  BY DEF BleTypes
<1>2. Ble!Written(t) = [t EXCEPT !.read = n, !.at = "stored"]
  BY DEF Ble!Written
<1>3. "stored" \in Ats /\ 0 \in Nat /\ NoHandle \in Handles
  BY DEF Ats, Handles
<1> HIDE DEF n
<1>4. QED BY <1>1, <1>2, <1>3 DEF ThreadType

\* A report that is put behind the others.
LEMMA ReportForm ==
  ASSUME BleTypes, NEW w \in {"connected", "disconnected"}, NEW h \in BleHandles
  PROVE  Ble!Report(w, h) \in Seq(ReportType)
BY DEF Ble!Report, BleTypes, ReportType

\* Each step keeps the types, and leaves nothing under way without a host.
LEMMA BleTypesStep ==
  ASSUME BleTypes, HostAlone, Ble!Next
  PROVE  BleTypes' /\ HostAlone'
<1> USE DEF Ble!bleVars
<1>0. /\ bleCmd \in ThreadType /\ bleEvt \in ThreadType /\ links \subseteq BleHandles
      /\ scan \in [on : BOOLEAN, count : 0..MaxScan] /\ MaxScan \in Nat /\ NoHandle \in Handles
      /\ 1 \in Nat /\ bleCmd.i \in Nat /\ bleCmd.i + 1 \in Nat /\ {"wait", "entry", "remove", "idle", "add"} \subseteq Ats
      /\ 0 \in 0..MaxScan /\ Ble!NoHandle = NoHandle
  BY BleAssumption DEF BleTypes, ThreadType, Ats, Handles, Ble!NoHandle, NoHandle
<1>1. CASE Ble!BleStart
  <2>1. bleCmd' \in ThreadType /\ bleCmd'.at = "wait"
    BY <1>0, <1>1, ThreadIdle, ThreadAt DEF Ble!BleStart
  <2>2. table' \in [Entries -> Handles] /\ \A i \in Entries : table'[i] = NoHandle
    BY <1>0, <1>1 DEF Ble!BleStart, Ble!EmptyTable, Ble!Entries, Entries
  <2>3. scan' \in [on : BOOLEAN, count : 0..MaxScan] /\ conns' = 0
    BY <1>0, <1>1 DEF Ble!BleStart
  <2>4. QED BY <2>1, <2>2, <2>3, <1>1 DEF Ble!BleStart, BleTypes, HostAlone
<1>2. CASE Ble!BleStartEnds
  <2>1. bleCmd' \in ThreadType /\ bleCmd'.at = "idle"
    BY <1>0, <1>2, ThreadIdle DEF Ble!BleStartEnds
  <2>2. QED BY <2>1, <1>2 DEF Ble!BleStartEnds, BleTypes, HostAlone
<1>3. CASE Ble!BleStop
  <2>1. bleEvt' \in ThreadType /\ bleEvt'.at = "idle"
    BY <1>0, <1>3, ThreadIdle DEF Ble!BleStop
  <2>2. scan' \in [on : BOOLEAN, count : 0..MaxScan]
    BY <1>0, <1>3 DEF Ble!BleStop
  <2>3. QED BY <2>1, <2>2, <1>3 DEF Ble!BleStop, BleTypes, HostAlone
<1>4. CASE Ble!AdvCfg
  BY <1>4 DEF Ble!AdvCfg, Ble!Ready, BleTypes, HostAlone
<1>5. ASSUME NEW e \in BOOLEAN, Ble!AdvEnable(e) PROVE BleTypes' /\ HostAlone'
  BY <1>5 DEF Ble!AdvEnable, Ble!Ready, BleTypes, HostAlone
<1>6. CASE Ble!ScanEnable
  <2>1. scan' \in [on : BOOLEAN, count : 0..MaxScan]
    BY <1>0, <1>6 DEF Ble!ScanEnable
  <2>2. QED BY <2>1, <1>6 DEF Ble!ScanEnable, Ble!Ready, BleTypes, HostAlone
<1>7. CASE Ble!DisconnectAll
  <2>1. bleCmd' \in ThreadType /\ bleCmd'.at = "entry" /\ bleCmd'.i = 1
    BY <1>0, <1>7, ThreadIdle DEF Ble!DisconnectAll, ThreadType
  <2>2. QED BY <2>1, <1>7 DEF Ble!DisconnectAll, Ble!Ready, BleTypes, HostAlone
<1>8. CASE Ble!DisconnectEntry
  <2>1. host = "on" /\ bleCmd.i >= 1 /\ table \in [Entries -> Handles]
    BY <1>8 DEF Ble!DisconnectEntry, HostAlone, BleTypes
  <2>2. CASE bleCmd.i > MaxConns
    <3>1. bleCmd' \in ThreadType /\ bleCmd'.at = "idle"
      BY <1>0, <1>8, <2>2, ThreadIdle DEF Ble!DisconnectEntry
    <3>2. QED BY <3>1, <2>1, <2>2, <1>8 DEF Ble!DisconnectEntry, BleTypes, HostAlone
  <2>3. CASE ~(bleCmd.i > MaxConns)
    <3> DEFINE h == table[bleCmd.i]
    <3>1. h \in Handles
      BY <1>0, <2>1, <2>3, BleAssumption DEF Entries
    <3>2. bleCmd' \in ThreadType /\ bleCmd'.at \in {"entry", "remove"} /\ bleCmd'.i >= 1
      <4>1. CASE h = NoHandle
        BY <1>0, <1>8, <2>1, <2>3, <4>1 DEF Ble!DisconnectEntry, ThreadType
      <4>2. CASE h # NoHandle
        BY <1>0, <1>8, <2>1, <2>3, <3>1, <4>2 DEF Ble!DisconnectEntry, ThreadType
      <4>3. QED BY <4>1, <4>2
    <3>3. reports' \in Seq(ReportType)
      BY <1>0, <1>8, <2>3, ReportForm DEF Ble!DisconnectEntry, BleTypes
    <3>4. links' \subseteq BleHandles
      BY <1>0, <1>8, <2>3 DEF Ble!DisconnectEntry
    <3>5. overlap' \in BOOLEAN
      BY <1>8, <2>3 DEF Ble!DisconnectEntry, BleTypes
    <3>6. QED BY <3>2, <3>3, <3>4, <3>5, <2>1, <1>8 DEF Ble!DisconnectEntry, BleTypes, HostAlone
  <2>4. QED BY <2>2, <2>3
<1>9. CASE Ble!CmdWritesEntry
  <2>1. table' \in [Entries -> Handles]
    BY <1>0, <1>9, WritesForm DEF Ble!CmdWritesEntry
  <2>2. bleCmd' \in ThreadType /\ bleCmd'.at = "stored" /\ bleCmd'.i = bleCmd.i
    BY <1>0, <1>9, WrittenForm DEF Ble!CmdWritesEntry
  <2>3. QED BY <2>1, <2>2, <1>9 DEF Ble!CmdWritesEntry, BleTypes, HostAlone
<1>10. CASE Ble!CmdStoresCount
  <2>1. bleCmd' \in ThreadType /\ bleCmd'.at = "entry" /\ bleCmd'.i = bleCmd.i + 1
    BY <1>0, <1>10, ThreadIdle DEF Ble!CmdStoresCount, ThreadType
  <2>2. conns' \in Int
    BY <1>0, <1>10 DEF Ble!CmdStoresCount, ThreadType
  <2>3. QED BY <2>1, <2>2, <1>0, <1>10 DEF Ble!CmdStoresCount, BleTypes, HostAlone
<1>11. CASE Ble!HostSync
  BY <1>11 DEF Ble!HostSync, BleTypes, HostAlone
<1>12. CASE Ble!GapEvent
  <2> DEFINE x == Head(reports)
  <2>1. x \in ReportType /\ Tail(reports) \in Seq(ReportType)
    BY <1>12, HeadTailProperties, EmptySeq DEF Ble!GapEvent, BleTypes
  <2>2. x.h \in BleHandles /\ x.h \in Handles
    BY <2>1 DEF ReportType, Handles
  <2> DEFINE a == IF x.what = "connected" THEN "add" ELSE "remove"
  <2>3. a \in {"add", "remove"} /\ a \in Ats
    BY <1>0
  <2>4. bleEvt' = [Ble!Idle EXCEPT !.at = a, !.h = x.h]
    BY <1>12 DEF Ble!GapEvent
  <2>5. reports' \in Seq(ReportType) /\ overlap' \in BOOLEAN
    BY <1>12, <2>1 DEF Ble!GapEvent, BleTypes
  <2> HIDE DEF x, a
  <2>6. bleEvt' \in ThreadType /\ bleEvt'.at = a /\ bleEvt'.h = x.h
    BY <1>0, <2>2, <2>3, <2>4, ThreadIdle DEF ThreadType
  <2>7. QED BY <2>2, <2>3, <2>5, <2>6, <1>12 DEF Ble!GapEvent, BleTypes, HostAlone
<1>13. CASE Ble!EvtWritesEntry
  <2>1. table' \in [Entries -> Handles]
    BY <1>0, <1>13, WritesForm DEF Ble!EvtWritesEntry
  <2>2. bleEvt' \in ThreadType /\ bleEvt'.at = "stored"
    BY <1>0, <1>13, WrittenForm DEF Ble!EvtWritesEntry
  <2>3. QED BY <2>1, <2>2, <1>13 DEF Ble!EvtWritesEntry, BleTypes, HostAlone
<1>14. CASE Ble!EvtStoresCount
  <2>1. bleEvt' \in ThreadType /\ bleEvt'.at = "idle"
    BY <1>0, <1>14, ThreadIdle DEF Ble!EvtStoresCount
  <2>2. conns' \in Int
    BY <1>0, <1>14 DEF Ble!EvtStoresCount, ThreadType
  <2>3. QED BY <2>1, <2>2, <1>14 DEF Ble!EvtStoresCount, BleTypes, HostAlone
<1>15. CASE Ble!AdvComplete
  BY <1>15 DEF Ble!AdvComplete, BleTypes, HostAlone
<1>16. CASE Ble!ScanResult
  <2>1. scan' \in [on : BOOLEAN, count : 0..MaxScan]
    BY <1>0, <1>16 DEF Ble!ScanResult
  <2>2. QED BY <2>1, <1>16 DEF Ble!ScanResult, BleTypes, HostAlone
<1>17. CASE Ble!LinkUp
  <2>1. links' \subseteq BleHandles /\ reports' \in Seq(ReportType)
    BY <1>0, <1>17, ReportForm DEF Ble!LinkUp
  <2>2. QED BY <2>1, <1>17 DEF Ble!LinkUp, BleTypes, HostAlone
<1>18. CASE Ble!LinkDown
  <2>1. links' \subseteq BleHandles /\ reports' \in Seq(ReportType) /\ links # {}
    BY <1>0, <1>18, ReportForm DEF Ble!LinkDown
  <2>2. QED BY <2>1, <1>18 DEF Ble!LinkDown, BleTypes, HostAlone
<1>19. QED BY <1>1, <1>2, <1>3, <1>4, <1>5, <1>6, <1>7, <1>8, <1>9, <1>10, <1>11, <1>12,
              <1>13, <1>14, <1>15, <1>16, <1>17, <1>18 DEF Ble!Next

\* What a thread finds and writes, when it is alone in the table.
LEMMA RemovesEntry ==
  ASSUME BleTypes, Once(table), NEW t \in ThreadType, t.at = "remove", t.h \in BleHandles,
         Ble!Writes(t), conns = Cardinality(InTable(table))
  PROVE  /\ Once(table') /\ InTable(table') = InTable(table) \ {t.h}
         /\ Ble!Written(t).read = Cardinality(InTable(table)')
<1> DEFINE f == Ble!Found(t.at, t.h)
           u == Ble!Written(t)
<1>1. f = {i \in Entries : table[i] = t.h}
  BY DEF Ble!Found, Ble!Entries, Entries
<1>2. table \in [Entries -> Handles] /\ t.h # NoHandle
  BY BleAssumption DEF BleTypes, NoHandle
<1>3. u.read = IF f = {} THEN conns ELSE conns - 1
  BY DEF Ble!Written, ThreadType
<1>4. CASE f = {}
  <2>1. table' = table
    BY <1>4 DEF Ble!Writes
  <2>2. t.h \notin InTable(table)
    BY <1>1, <1>4 DEF InTable
  <2>3. InTable(table') = InTable(table)
    BY <2>1 DEF InTable
  <2>4. QED BY <1>3, <1>4, <2>1, <2>2, <2>3
<1>5. CASE f # {}
  <2> DEFINE i == Ble!Min(f)
  <2>1. i \in f
    BY <1>1, <1>5, FirstFound
  <2>2. i \in Entries /\ table[i] = t.h
    BY <1>1, <2>1
  <2>3. table' = [table EXCEPT ![i] = NoHandle]
    BY <1>5 DEF Ble!Writes, Ble!NoHandle, NoHandle
  <2> HIDE DEF i
  <2>4. /\ Once(table') /\ InTable(table') = InTable(table) \ {table[i]}
        /\ Cardinality(InTable(table')) = Cardinality(InTable(table)) - 1
    BY <1>2, <2>2, <2>3, TableRemove
  <2>5. QED BY <1>3, <1>5, <2>2, <2>4
<1>6. QED BY <1>4, <1>5

\* There is a free entry for a connection as long as the table fits.
LEMMA AddsEntry ==
  ASSUME BleTypes, Once(table), NEW t \in ThreadType, t.at = "add", t.h \in BleHandles,
         t.h \notin InTable(table), Ble!Writes(t), conns = Cardinality(InTable(table)),
         Cardinality(InTable(table) \cup {t.h}) <= MaxConns
  PROVE  /\ Once(table') /\ InTable(table') = InTable(table) \cup {t.h}
         /\ Ble!Written(t).read = Cardinality(InTable(table)')
<1> DEFINE f == Ble!Found(t.at, t.h)
           i == Ble!Min(f)
           n == Cardinality(InTable(table))
<1>1. f = {j \in Entries : table[j] = NoHandle}
  BY DEF Ble!Found, Ble!Entries, Entries, Ble!NoHandle, NoHandle
<1>2. table \in [Entries -> Handles]
  BY DEF BleTypes
<1>3. f # {}
  <2>1. n \in Nat /\ Cardinality(InTable(table) \cup {t.h}) = n + 1
    BY <1>2, TableSet, FS_AddElement
  <2>2. n # MaxConns
    BY <2>1, BleAssumption
  <2>3. QED BY <1>1, <1>2, <2>2, TableFull
<1>4. Ble!Written(t).read = conns + 1
  BY <1>3 DEF Ble!Written, ThreadType
<1>5. i \in Entries /\ table[i] = NoHandle
  BY <1>1, <1>3, FirstFound
<1>6. table' = [table EXCEPT ![i] = t.h]
  BY <1>3 DEF Ble!Writes
<1> HIDE DEF i, f
<1>7. QED BY <1>2, <1>4, <1>5, <1>6, TableAdd

\* Tidiness is about the table, the threads, the links and their reports.
LEMMA TidyKept ==
  ASSUME Tidy, UNCHANGED <<bleCmd, bleEvt, table, conns, links, reports>>
  PROVE  Tidy'
<1>1. InTable(table') = InTable(table)
  BY DEF InTable
<1>2. Written' = Written /\ CountKept' /\ Once(table')
  BY <1>1 DEF Written, CountKept, Tidy, Once
<1>3. Leads(reports', Written', links')
  BY <1>2 DEF Tidy
<1>4. QED BY <1>1, <1>2, <1>3 DEF Tidy, Busy

\* Each step keeps the table in order, unless both threads get into it.
LEMMA TidyStep ==
  ASSUME BleInv, BleTypes', Ble!Next, host' = "on", ~overlap'
  PROVE  Tidy'
<1>0. /\ bleCmd \in ThreadType /\ bleEvt \in ThreadType /\ reports \in Seq(ReportType)
      /\ table \in [Entries -> Handles] /\ links \subseteq BleHandles /\ BleTypes /\ HostAlone
      /\ \A s : Ble!Cardinality(s) = Cardinality(s)
  BY DEF BleInv, BleTypes, Ble!Cardinality, Cardinality
<1> DEFINE Same == /\ UNCHANGED <<table, conns, links, reports, bleEvt>>
                   /\ host = "on" /\ ~overlap
<1>1. ASSUME Same, bleCmd'.at \in {"idle", "wait", "entry"}, bleCmd.at \in {"idle", "wait", "entry"}
      PROVE  Tidy'
  <2>1. Tidy
    BY <1>1 DEF BleInv
  <2>2. InTable(table') = InTable(table) /\ Once(table')
    BY <1>1, <2>1 DEF InTable, Once, Tidy
  <2>3. Written' = Written /\ CountKept'
    BY <1>1, <2>1, <2>2 DEF Written, CountKept, Tidy
  <2>4. Leads(reports', Written', links')
    BY <1>1, <2>1, <2>3 DEF Tidy
  <2>5. QED BY <1>1, <2>1, <2>2, <2>3, <2>4 DEF Tidy, Busy
<1>2. ASSUME Same, UNCHANGED bleCmd PROVE Tidy'
  BY <1>2, TidyKept DEF BleInv
<1>3. CASE Ble!BleStart
  BY <1>3 DEF Ble!BleStart
<1>4. CASE Ble!BleStartEnds
  BY <1>0, <1>1, <1>4, ThreadIdle DEF Ble!BleStartEnds
<1>5. CASE Ble!BleStop
  BY <1>5 DEF Ble!BleStop
<1>6. CASE Ble!AdvCfg \/ (\E e \in BOOLEAN : Ble!AdvEnable(e)) \/ Ble!ScanEnable
           \/ Ble!AdvComplete \/ Ble!ScanResult
  BY <1>2, <1>6 DEF Ble!AdvCfg, Ble!AdvEnable, Ble!ScanEnable, Ble!AdvComplete, Ble!ScanResult
<1>7. CASE Ble!DisconnectAll
  <2>1. bleCmd'.at = "entry"
    BY <1>0, <1>7, ThreadIdle DEF Ble!DisconnectAll, ThreadType
  <2>2. QED BY <1>1, <1>7, <2>1 DEF Ble!DisconnectAll, Ble!Ready
<1>8. CASE Ble!HostSync
  <2>1. links = {} /\ reports = <<>> /\ bleEvt.at = "idle" /\ bleCmd.at \in {"idle", "wait"}
        /\ conns = 0 /\ \A i \in Entries : table[i] = NoHandle
    BY <1>0, <1>8 DEF Ble!HostSync, HostAlone
  <2>2. UNCHANGED <<bleCmd, bleEvt, table, conns, links, reports>>
    BY <1>8 DEF Ble!HostSync
  <2>3. InTable(table) = {}
    BY <2>1 DEF InTable
  <2>4. Cardinality({}) = 0 /\ IsFiniteSet({})
    BY FS_EmptySet
  <2>5. Leads(<<>>, {}, {})
    BY <2>4, PathOfNone, BleAssumption
  <2>6. Tidy
    BY <2>1, <2>3, <2>4, <2>5 DEF Tidy, Busy, Once, CountKept, Written
  <2>7. QED BY <2>2, <2>6, TidyKept
<1> DEFINE On == host = "on" /\ ~overlap
<1>9. ASSUME On
      PROVE  /\ ~(Busy(bleCmd) /\ Busy(bleEvt)) /\ Once(table) /\ CountKept
             /\ bleEvt.at = "add" => bleEvt.h \notin InTable(table)
             /\ bleCmd.at = "remove" => bleCmd.h \in InTable(table)
             /\ Leads(reports, Written, links)
  BY <1>9 DEF BleInv, Tidy
<1>10. CASE Ble!DisconnectEntry
  <2>1. On
    BY <1>0, <1>10 DEF Ble!DisconnectEntry, HostAlone
  <2>2. bleCmd.at = "entry" /\ bleCmd.i >= 1 /\ bleCmd.i \in Nat
    BY <1>0, <1>10 DEF Ble!DisconnectEntry, BleTypes, ThreadType
  <2>3. CASE bleCmd.i > MaxConns
    <3>1. bleCmd'.at = "idle"
      BY <1>10, <2>3, ThreadIdle DEF Ble!DisconnectEntry
    <3>2. QED BY <1>1, <1>10, <2>1, <2>2, <2>3, <3>1 DEF Ble!DisconnectEntry
  <2>4. CASE ~(bleCmd.i > MaxConns)
    <3> DEFINE h == table[bleCmd.i]
    <3>1. bleCmd.i \in Entries /\ h \in Handles
      BY <1>0, <2>2, <2>4, BleAssumption DEF Entries
    <3>2. CASE h = NoHandle
      <4>1. h \notin links
        BY <1>0, <3>2, BleAssumption DEF NoHandle
      <4>2. UNCHANGED <<links, reports, table, conns, bleEvt>>
        BY <1>10, <2>4, <4>1 DEF Ble!DisconnectEntry
      <4>3. bleCmd'.at = "entry"
        BY <1>0, <1>10, <2>2, <2>4, <3>2 DEF Ble!DisconnectEntry, ThreadType, Ble!NoHandle, NoHandle
      <4>4. QED BY <1>1, <2>1, <2>2, <4>2, <4>3
    <3>3. CASE h # NoHandle
      <4>1. h \in BleHandles /\ h \in InTable(table)
        BY <3>1, <3>3 DEF Handles, InTable
      <4>2. ~Busy(bleEvt)
        BY <1>10, <2>4, <3>3 DEF Ble!DisconnectEntry, Ble!InTable, Busy, Ble!NoHandle, NoHandle
      <4>3. bleCmd' = [bleCmd EXCEPT !.at = "remove", !.h = h]
        BY <1>10, <2>4, <3>3 DEF Ble!DisconnectEntry, Ble!NoHandle, NoHandle
      <4>4. bleCmd'.at = "remove" /\ bleCmd'.h = h
        BY <1>0, <4>3 DEF ThreadType
      <4>5. Leads(reports, InTable(table), links)
        BY <1>9, <2>1, <2>2, <4>2 DEF Written, Busy
      <4>6. Leads(reports, InTable(table) \ {h}, links \ {h})
        BY <1>0, <4>1, <4>5, PathWithout
      <4>7. links' = links \ {h}
        BY <1>10, <2>4 DEF Ble!DisconnectEntry
      <4>8. Leads(reports', InTable(table) \ {h}, links \ {h})
        <5>1. CASE h \in links
          <6>1. reports' = Append(reports, [what |-> "disconnected", h |-> h])
            BY <1>10, <2>4, <5>1 DEF Ble!DisconnectEntry, Ble!Report
          <6>2. (links \ {h}) \ {h} = links \ {h}
            OBVIOUS
          <6>3. QED BY <1>0, <4>1, <4>6, <6>1, <6>2, PathOfEnd
        <5>2. CASE h \notin links
          BY <1>10, <2>4, <4>6, <5>2 DEF Ble!DisconnectEntry
        <5>3. QED BY <5>1, <5>2
      <4>9. UNCHANGED <<table, conns, bleEvt>>
        BY <1>10 DEF Ble!DisconnectEntry
      <4>10. InTable(table') = InTable(table)
        BY <4>9 DEF InTable
      <4>11. Written' = InTable(table) \ {h}
        BY <4>4, <4>10 DEF Written
      <4>12. Leads(reports', Written', links')
        BY <4>7, <4>8, <4>11
      <4>13. CountKept'
        BY <1>9, <2>1, <2>2, <4>2, <4>4, <4>9, <4>10 DEF CountKept, Busy
      <4>14. QED BY <1>9, <2>1, <4>1, <4>2, <4>4, <4>9, <4>10, <4>12, <4>13 DEF Tidy, Busy, Once
    <3>4. QED BY <3>2, <3>3
  <2>5. QED BY <2>3, <2>4
<1>11. CASE Ble!CmdWritesEntry
  <2>1. On /\ bleCmd.at = "remove" /\ Ble!Writes(bleCmd) /\ bleCmd' = Ble!Written(bleCmd)
        /\ UNCHANGED <<bleEvt, conns, links, reports>>
    BY <1>0, <1>11 DEF Ble!CmdWritesEntry, HostAlone
  <2>2. ~Busy(bleEvt) /\ bleCmd.h \in BleHandles
    BY <1>0, <1>9, <2>1, TableSet DEF Busy
  <2>3. conns = Cardinality(InTable(table))
    BY <1>9, <2>1, <2>2 DEF CountKept, Busy
  <2>4. /\ Once(table') /\ InTable(table') = InTable(table) \ {bleCmd.h}
        /\ bleCmd'.read = Cardinality(InTable(table'))
    BY <1>0, <1>9, <2>1, <2>2, <2>3, RemovesEntry
  <2>5. bleCmd'.at = "stored"
    BY <1>0, <2>1, WrittenForm
  <2>6. CountKept'
    BY <2>4, <2>5 DEF CountKept
  <2>7. Written' = Written
    BY <2>1, <2>2, <2>4, <2>5 DEF Written, Busy
  <2>8. Leads(reports', Written', links')
    BY <1>9, <2>1, <2>7
  <2>9. QED BY <2>1, <2>2, <2>4, <2>5, <2>6, <2>8 DEF Tidy, Busy
<1>12. CASE Ble!CmdStoresCount
  <2>1. On /\ bleCmd.at = "stored" /\ conns' = bleCmd.read
        /\ UNCHANGED <<bleEvt, table, links, reports>>
    BY <1>0, <1>12 DEF Ble!CmdStoresCount, HostAlone
  <2>2. bleCmd'.at = "entry"
    BY <1>0, <1>12, ThreadIdle DEF Ble!CmdStoresCount, ThreadType
  <2>3. InTable(table') = InTable(table) /\ ~Busy(bleEvt)
    BY <1>9, <2>1 DEF InTable, Busy
  <2>4. CountKept'
    BY <1>9, <2>1, <2>2, <2>3 DEF CountKept, Busy
  <2>5. Written' = Written
    BY <2>1, <2>2, <2>3 DEF Written, Busy
  <2>6. Leads(reports', Written', links')
    BY <1>9, <2>1, <2>5
  <2>7. QED BY <1>9, <2>1, <2>2, <2>3, <2>4, <2>6 DEF Tidy, Busy, Once
<1>13. CASE Ble!GapEvent
  <2> DEFINE x == Head(reports)
             a == InTable(table)
  <2>1. On /\ bleEvt.at = "idle" /\ reports # <<>> /\ reports' = Tail(reports)
        /\ UNCHANGED <<bleCmd, table, conns, links>> /\ ~Busy(bleCmd)
    BY <1>13 DEF Ble!GapEvent, Ble!InTable, Busy
  <2>2. bleEvt' = [Ble!Idle EXCEPT !.at = IF x.what = "connected" THEN "add" ELSE "remove", !.h = x.h]
    BY <1>13 DEF Ble!GapEvent
  <2>3. bleEvt'.at = (IF x.what = "connected" THEN "add" ELSE "remove") /\ bleEvt'.h = x.h
    BY <2>2, ThreadIdle DEF ThreadType
  <2>4. Leads(reports, a, links)
    BY <1>9, <2>1 DEF Written, Busy
  <2>5. IF x.what = "connected" THEN x.h \notin a /\ Leads(Tail(reports), a \cup {x.h}, links)
        ELSE Leads(Tail(reports), a \ {x.h}, links)
    BY <1>0, <2>1, <2>4, PathAfterHead
  <2> HIDE DEF x
  <2>6. InTable(table') = a
    BY <2>1 DEF InTable
  <2>7. Written' = IF x.what = "connected" THEN a \cup {x.h} ELSE a \ {x.h}
    BY <2>1, <2>3, <2>6 DEF Written, Busy
  <2>8. Leads(reports', Written', links')
    BY <2>1, <2>5, <2>7
  <2>9. CountKept'
    BY <1>9, <2>1, <2>3, <2>6 DEF CountKept, Busy
  <2>10. QED BY <1>9, <2>1, <2>3, <2>5, <2>6, <2>8, <2>9 DEF Tidy, Busy, Once
<1>14. CASE Ble!EvtWritesEntry
  <2>1. On /\ bleEvt.at \in {"add", "remove"} /\ Ble!Writes(bleEvt) /\ bleEvt' = Ble!Written(bleEvt)
        /\ UNCHANGED <<bleCmd, conns, links, reports>>
    BY <1>0, <1>14 DEF Ble!EvtWritesEntry, HostAlone
  <2>2. ~Busy(bleCmd) /\ bleEvt.h \in BleHandles
    BY <1>0, <1>9, <2>1 DEF Busy, BleTypes
  <2>3. conns = Cardinality(InTable(table))
    BY <1>9, <2>1, <2>2 DEF CountKept, Busy
  <2>4. bleEvt'.at = "stored"
    BY <1>0, <2>1, WrittenForm
  <2>5. /\ Once(table') /\ InTable(table') = Written
        /\ bleEvt'.read = Cardinality(InTable(table'))
    <3>1. CASE bleEvt.at = "add"
      <4>1. Written = InTable(table) \cup {bleEvt.h}
        BY <2>2, <3>1 DEF Written, Busy
      <4>2. Cardinality(InTable(table) \cup {bleEvt.h}) <= MaxConns
        BY <1>0, <1>9, <2>1, <4>1, PathFits
      <4>3. QED BY <1>0, <1>9, <2>1, <2>2, <2>3, <3>1, <4>1, <4>2, AddsEntry
    <3>2. CASE bleEvt.at = "remove"
      <4>1. Written = InTable(table) \ {bleEvt.h}
        BY <2>2, <3>2 DEF Written, Busy
      <4>2. QED BY <1>0, <1>9, <2>1, <2>2, <2>3, <3>2, <4>1, RemovesEntry
    <3>3. QED BY <2>1, <3>1, <3>2
  <2>6. CountKept'
    BY <2>1, <2>2, <2>4, <2>5 DEF CountKept, Busy
  <2>7. Written' = Written
    BY <2>1, <2>2, <2>4, <2>5 DEF Written, Busy
  <2>8. Leads(reports', Written', links')
    BY <1>9, <2>1, <2>7
  <2>9. QED BY <2>1, <2>2, <2>4, <2>5, <2>6, <2>8 DEF Tidy, Busy
<1>15. CASE Ble!EvtStoresCount
  <2>1. On /\ bleEvt.at = "stored" /\ conns' = bleEvt.read
        /\ UNCHANGED <<bleCmd, table, links, reports>>
    BY <1>0, <1>15 DEF Ble!EvtStoresCount, HostAlone
  <2>2. bleEvt'.at = "idle"
    BY <1>0, <1>15, ThreadIdle DEF Ble!EvtStoresCount
  <2>3. InTable(table') = InTable(table) /\ ~Busy(bleCmd)
    BY <1>9, <2>1 DEF InTable, Busy
  <2>4. CountKept'
    BY <1>9, <2>1, <2>2, <2>3 DEF CountKept, Busy
  <2>5. Written' = Written
    BY <2>1, <2>2, <2>3 DEF Written, Busy
  <2>6. Leads(reports', Written', links')
    BY <1>9, <2>1, <2>5
  <2>7. QED BY <1>9, <2>1, <2>2, <2>3, <2>4, <2>6 DEF Tidy, Busy, Once
<1>16. CASE Ble!LinkUp
  <2>1. On /\ UNCHANGED <<bleCmd, bleEvt, table, conns>> /\ Cardinality(links) < MaxConns
    BY <1>0, <1>16 DEF Ble!LinkUp
  <2>2. PICK h \in BleHandles \ (links \cup {reports[k].h : k \in 1..Len(reports)}) :
          links' = links \cup {h} /\ reports' = Append(reports, [what |-> "connected", h |-> h])
    BY <1>16 DEF Ble!LinkUp, Ble!Report
  <2>3. Written' = Written /\ InTable(table') = InTable(table)
    BY <2>1 DEF Written, InTable
  <2>4. Leads(reports', Written', links')
    BY <1>0, <1>9, <2>1, <2>2, <2>3, PathOfLink
  <2>5. CountKept'
    BY <1>9, <2>1, <2>3 DEF CountKept
  <2>6. QED BY <1>9, <2>1, <2>3, <2>4, <2>5 DEF Tidy, Busy, Once
<1>17. CASE Ble!LinkDown
  <2>1. On /\ UNCHANGED <<bleCmd, bleEvt, table, conns>>
    BY <1>17 DEF Ble!LinkDown
  <2>2. PICK h \in links :
          links' = links \ {h} /\ reports' = Append(reports, [what |-> "disconnected", h |-> h])
    BY <1>17 DEF Ble!LinkDown, Ble!Report
  <2>3. Written' = Written /\ InTable(table') = InTable(table)
    BY <2>1 DEF Written, InTable
  <2>4. Leads(reports', Written', links')
    BY <1>0, <1>9, <2>1, <2>2, <2>3, PathOfEnd
  <2>5. CountKept'
    BY <1>9, <2>1, <2>3 DEF CountKept
  <2>6. QED BY <1>9, <2>1, <2>3, <2>4, <2>5 DEF Tidy, Busy, Once
<1>18. QED BY <1>3, <1>4, <1>5, <1>6, <1>7, <1>8, <1>10, <1>11, <1>12, <1>13, <1>14, <1>15,
              <1>16, <1>17 DEF Ble!Next

\* A quiet table that is in order is a true one.
LEMMA TidyIsTrue ==
  ASSUME BleInv
  PROVE  Ble!TableTrue /\ Ble!ScanInTable /\ Ble!SyncObjOfStart
<1>1. Ble!ScanInTable
  BY BleAssumption DEF Ble!ScanInTable, BleInv, BleTypes
<1>2. Ble!SyncObjOfStart
  BY DEF Ble!SyncObjOfStart, BleInv, BleTypes
<1>3. ASSUME Ble!QuietTable, ~overlap
      PROVE  /\ {table[i] : i \in Ble!Entries} \ {Ble!NoHandle} = links
             /\ \A i, j \in Ble!Entries : i # j /\ table[i] # Ble!NoHandle => table[i] # table[j]
             /\ conns = Ble!Cardinality(links)
  <2>1. /\ host = "on" /\ bleCmd.at = "idle" /\ bleEvt.at = "idle" /\ reports = <<>> /\ Tidy
    BY <1>3 DEF Ble!QuietTable, BleInv
  <2>2. Written = InTable(table) /\ conns = Cardinality(InTable(table))
    BY <2>1 DEF Written, Tidy, CountKept
  <2>3. InTable(table) = links
    BY <2>1, <2>2, NoneIsPath DEF Tidy
  <2>4. Ble!Entries = Entries /\ Ble!NoHandle = NoHandle
    BY DEF Ble!Entries, Entries, Ble!NoHandle, NoHandle
  <2>5. \A s : Ble!Cardinality(s) = Cardinality(s)
    BY DEF Ble!Cardinality, Cardinality
  <2>6. QED BY <2>1, <2>2, <2>3, <2>4, <2>5 DEF InTable, Tidy, Once
<1>4. QED BY <1>1, <1>2, <1>3 DEF Ble!TableTrue

\* A start of the program is in order.
LEMMA BleInit ==
  ASSUME Ble!Init
  PROVE  BleInv
<1>1. Ble!Idle \in ThreadType /\ Ble!Idle.at = "idle"
  BY ThreadIdle
<1>2. Ble!EmptyTable \in [Entries -> Handles] /\ \A i \in Entries : Ble!EmptyTable[i] = NoHandle
  BY DEF Ble!EmptyTable, Ble!Entries, Entries, Handles, Ble!NoHandle, NoHandle
<1>3. scan \in [on : BOOLEAN, count : 0..MaxScan] /\ reports \in Seq(ReportType)
  BY BleAssumption DEF Ble!Init
<1>4. bleCmd = Ble!Idle /\ bleEvt = Ble!Idle /\ table = Ble!EmptyTable
  BY DEF Ble!Init
<1>5. BleTypes
  <2>1. host = "off" /\ overlap = FALSE /\ conns = 0 /\ links = {} /\ syncObj = "none"
    BY DEF Ble!Init
  <2>2. /\ bleCmd.at = "idle" /\ bleEvt.at = "idle" /\ bleCmd \in ThreadType
        /\ bleEvt \in ThreadType /\ table \in [Entries -> Handles]
    BY <1>1, <1>2, <1>4
  <2>3. overlap \in BOOLEAN
    BY <2>1
  <2>4. host \in {"off", "starting", "on"} /\ conns \in Int /\ links \subseteq BleHandles
    BY <2>1
  <2>5. QED BY <1>3, <2>1, <2>2, <2>3, <2>4 DEF BleTypes
<1>6. HostAlone
  BY <1>1, <1>4 DEF Ble!Init, HostAlone
<1>7. QED BY <1>5, <1>6 DEF Ble!Init, BleInv

\* Whatever the order of the command's calls, the host's reports and the connections
\* that come and go, a quiet table is the set of connections there are, each once, with
\* its number; scan results stay in theirs, and a start's sync object is its own.
THEOREM TableOfLinks == MCSpec => []BleSafe
<1> DEFINE I == part = "ble" => BleInv
<1>1. MCInit => I
  BY BleInit DEF MCInit
<1>2. I /\ [MCNext]_<<part, bleVars, p2pVars, csiVars, netVars, apVars, scanVars>> => I'
  <2> SUFFICES ASSUME I, [MCNext]_<<part, bleVars, p2pVars, csiVars, netVars, apVars, scanVars>>,
                      part' = "ble"
               PROVE  BleInv'
    OBVIOUS
  <2>1. CASE UNCHANGED <<part, bleVars>>
    <3>1. BleInv
      BY <2>1
    <3>2. BleTypes' /\ HostAlone'
      BY <2>1, <3>1 DEF bleVars, BleInv, BleTypes, HostAlone
    <3>3. host' = "on" /\ ~overlap' => Tidy'
      BY <2>1, <3>1, TidyKept DEF bleVars, BleInv
    <3>4. QED BY <3>2, <3>3 DEF BleInv
  <2>2. CASE part = "ble" /\ Ble!Next
    <3>1. BleInv
      BY <2>2
    <3>2. BleTypes' /\ HostAlone'
      BY <2>2, <3>1, BleTypesStep DEF BleInv
    <3>3. QED BY <2>2, <3>1, <3>2, TidyStep DEF BleInv
  <2>3. QED BY <2>1, <2>2 DEF MCNext
<1>3. I => BleSafe
  BY TidyIsTrue DEF BleSafe
<1>4. QED BY <1>1, <1>2, <1>3, PTL DEF MCSpec

-----------------------------------------------------------------------------
(* Wi-Fi Direct: what the events that wait tell of the group the driver has.   *)

Groups == {"none", "go", "client", "left"}
Starts == {"startedGo", "startedClient"}
Ends == {"removedGo", "removedClient", "removedDevice"}
Failures == {"formationFailed", "peerNotFound"}
P2pEvents == Starts \cup Ends \cup Failures \cup {"disconnected", "scanCompleted"}
Stages == {"begin", "interface", "roleup", "signal", "bits"}

\* An event is reported of a group it can be about, and tells the next one.
Fits(x, g) ==
  CASE x \in Starts \cup Failures -> g = "none"
    [] x = "removedGo" -> g = "go"
    [] x = "removedClient" -> g \in {"client", "left"}
    [] x = "removedDevice" -> g # "none"
    [] x = "disconnected" -> g = "client"
    [] OTHER -> TRUE

After(x, g) ==
  CASE x = "startedGo" -> "go" [] x = "startedClient" -> "client" [] x \in Ends -> "none"
    [] x = "disconnected" -> "left" [] OTHER -> g

\* The events in e tell of a group a, and in the end of a group b.
Walk(s, e, a, b) ==
  /\ s \in [0..Len(e) -> Groups] /\ s[0] = a /\ s[Len(e)] = b
  /\ \A k \in 1..Len(e) : Fits(e[k], s[k - 1]) /\ s[k] = After(e[k], s[k - 1])

Tells(e, a, b) == \E s \in [0..Len(e) -> Groups] : Walk(s, e, a, b)

\* The group type, and what the interfaces are with a group, up or on the way down.
TypeOf(g) == IF g = "left" THEN "client" ELSE g
IfsOf(g, up) ==
  [i \in {"sta", "ap"} |->
     CASE i = "ap" /\ g = "go" -> [bit |-> TRUE, up |-> up]
       [] i = "sta" /\ g = "client" -> [bit |-> TRUE, up |-> up]
       [] i = "sta" /\ g = "left" -> [bit |-> TRUE, up |-> FALSE]
       [] OTHER -> [bit |-> FALSE, up |-> FALSE]]

Shows(g) ==
  /\ IF g = "none" THEN ~groupBit ELSE groupBit
  /\ groupType = TypeOf(g) /\ netIf = IfsOf(g, TRUE)

\* The event thread is on its way from a group g.
Handling(g) ==
  LET x == p2pEvt.what IN
  /\ p2pEvt = P2p!NoEvent \/ x = "scanCompleted" => Shows(g)
  /\ p2pEvt.at = "begin" => Fits(x, g) /\ Shows(g)
  /\ p2pEvt.at = "interface" =>
       x \in Starts /\ g = "none" /\ groupBit /\ groupType = "none" /\ netIf = IfsOf(g, TRUE)
  /\ p2pEvt.at = "roleup" =>
       x = "startedClient" /\ g = "none" /\ Shows("client") /\ tokens["staRoleup"]
  /\ p2pEvt.at = "signal" /\ x # "scanCompleted" =>
       x \in Starts \cup {"disconnected"} /\ Fits(x, g) /\ Shows(After(x, g))
  /\ p2pEvt.at = "bits" =>
       x \in Ends /\ Fits(x, g) /\ ~groupBit /\ groupType = TypeOf(g) /\ netIf = IfsOf(g, FALSE)

OfRadio == IF radio \in {"go", "client"} THEN radio ELSE "none"

GroupTold ==
  \E g \in Groups :
    /\ Handling(g)
    /\ Tells(events, IF p2pEvt = P2p!NoEvent THEN g ELSE After(p2pEvt.what, g), OfRadio)

P2pTypes ==
  /\ events \in Seq(P2pEvents) /\ radio \in {"idle", "joining", "go", "client"}
  /\ p2pEvt = P2p!NoEvent \/ p2pEvt \in [what : P2pEvents, at : Stages]
  /\ tokens \in [{"staRoleup", "connect", "disconnect"} -> BOOLEAN]

\* A find stop that gets its answer still waits when it comes.
FindAnswered ==
  LET signals == p2pEvt = [what |-> "scanCompleted", at |-> "signal"] IN
  ~unanswered =>
    /\ findWait \/ signals => p2pCmd = "findWait" /\ findObj = "empty"
    /\ ~(findWait /\ signals)
    /\ "deleted" \notin misused

P2pInv == P2pTypes /\ groupBit \in BOOLEAN /\ GroupTold /\ FindAnswered /\ "asserted" \notin misused

\* Nothing to tell tells nothing ...
LEMMA NothingTold ==
  /\ \A a \in Groups : Tells(<<>>, a, a)
  /\ \A a, b : Tells(<<>>, a, b) => a = b
<1>1. Len(<<>>) = 0
  OBVIOUS
<1>2. ASSUME NEW a \in Groups PROVE Tells(<<>>, a, a)
  <2> DEFINE s == [k \in 0..0 |-> a]
  <2>1. s \in [0..0 -> Groups] /\ s[0] = a
    OBVIOUS
  <2> HIDE DEF s
  <2>2. QED BY <1>1, <2>1 DEF Tells, Walk
<1>3. QED BY <1>1, <1>2 DEF Tells, Walk

\* ... one event more tells what comes after it ...
LEMMA ToldNext ==
  ASSUME NEW e \in Seq(P2pEvents), NEW a, NEW b, Tells(e, a, b), NEW x \in P2pEvents, Fits(x, b)
  PROVE  Tells(Append(e, x), a, After(x, b)) /\ Append(e, x) \in Seq(P2pEvents)
<1> DEFINE n == Len(e)
           q == Append(e, x)
           c == After(x, b)
<1>1. PICK s \in [0..Len(e) -> Groups] : Walk(s, e, a, b)
  BY DEF Tells
<1> DEFINE u == [k \in 0..(n + 1) |-> IF k = n + 1 THEN c ELSE s[k]]
<1>2. n \in Nat /\ q \in Seq(P2pEvents) /\ Len(q) = n + 1 /\ q[n + 1] = x /\ \A k \in 1..n : q[k] = e[k]
  OBVIOUS
<1>3. b \in Groups /\ s[n] = b /\ s[0] = a
  BY <1>1, <1>2 DEF Walk
<1>4. c \in Groups
  BY <1>3 DEF After, Groups
<1> HIDE DEF q, c
<1>5. u \in [0..(n + 1) -> Groups] /\ u[n + 1] = c /\ \A k \in 0..n : u[k] = s[k]
  BY <1>1, <1>2, <1>4
<1> HIDE DEF u
<1>6. ASSUME NEW k \in 1..(n + 1) PROVE Fits(q[k], u[k - 1]) /\ u[k] = After(q[k], u[k - 1])
  <2>1. CASE k = n + 1
    <3>1. q[k] = x /\ u[k] = c /\ u[k - 1] = b
      BY <1>2, <1>3, <1>5, <2>1
    <3>2. QED BY <3>1 DEF c
  <2>2. CASE k # n + 1
    <3>1. k \in 1..n /\ k \in 0..n /\ k - 1 \in 0..n
      BY <1>2, <2>2
    <3>2. q[k] = e[k] /\ u[k] = s[k] /\ u[k - 1] = s[k - 1]
      BY <1>2, <1>5, <3>1
    <3>3. QED BY <1>1, <3>1, <3>2 DEF Walk
  <2>3. QED BY <2>1, <2>2
<1>7. u[0] = a /\ u[Len(q)] = c
  BY <1>2, <1>3, <1>5
<1>8. Walk(u, q, a, c)
  BY <1>2, <1>5, <1>6, <1>7 DEF Walk
<1>9. Tells(q, a, c)
  BY <1>2, <1>5, <1>8 DEF Tells
<1>10. QED BY <1>2, <1>9 DEF q, c

\* ... and the first is told first.
LEMMA ToldFirst ==
  ASSUME NEW e \in Seq(P2pEvents), e # <<>>, NEW a, NEW b, Tells(e, a, b)
  PROVE  /\ Head(e) \in P2pEvents /\ Tail(e) \in Seq(P2pEvents)
         /\ Fits(Head(e), a) /\ Tells(Tail(e), After(Head(e), a), b)
<1> DEFINE n == Len(e)
           q == Tail(e)
<1>1. PICK s \in [0..Len(e) -> Groups] : Walk(s, e, a, b)
  BY DEF Tells
<1> DEFINE u == [k \in 0..(n - 1) |-> s[k + 1]]
<1>2. /\ n \in Nat /\ n >= 1 /\ q \in Seq(P2pEvents) /\ Len(q) = n - 1 /\ Head(e) \in P2pEvents
      /\ Head(e) = e[1] /\ \A k \in 1..(n - 1) : q[k] = e[k + 1]
  BY HeadTailProperties, EmptySeq
<1> HIDE DEF q
<1>3. u \in [0..(n - 1) -> Groups] /\ \A k \in 0..(n - 1) : u[k] = s[k + 1]
  BY <1>1, <1>2
<1> HIDE DEF u
<1>4. Fits(e[1], a) /\ s[1] = After(e[1], a)
  BY <1>1, <1>2 DEF Walk
<1>5. ASSUME NEW k \in 1..(n - 1) PROVE Fits(q[k], u[k - 1]) /\ u[k] = After(q[k], u[k - 1])
  <2>1. k \in 0..(n - 1) /\ k - 1 \in 0..(n - 1) /\ k + 1 \in 1..n /\ (k + 1) - 1 = k /\ (k - 1) + 1 = k
    BY <1>2
  <2>2. q[k] = e[k + 1] /\ u[k] = s[k + 1] /\ u[k - 1] = s[k]
    BY <1>2, <1>3, <2>1
  <2>3. QED BY <1>1, <2>1, <2>2 DEF Walk
<1>6. u[0] = s[1] /\ u[Len(q)] = b
  BY <1>1, <1>2, <1>3 DEF Walk
<1>7. Walk(u, q, s[1], b)
  BY <1>2, <1>3, <1>5, <1>6 DEF Walk
<1>8. Tells(q, s[1], b)
  BY <1>2, <1>3, <1>7 DEF Tells
<1>9. QED BY <1>2, <1>4, <1>8 DEF q

\* An event that is handled goes from stage to stage.
LEMMA StageForm ==
  ASSUME p2pEvt \in [what : P2pEvents, at : Stages], NEW t \in Stages
  PROVE  LET u == [p2pEvt EXCEPT !.at = t] IN
         u \in [what : P2pEvents, at : Stages] /\ u.what = p2pEvt.what /\ u.at = t
BY DEF Stages

\* An event is not no event.
LEMMA EventForm ==
  /\ \A x \in P2pEvents : P2p!Event(x) \in [what : P2pEvents, at : Stages]
                          /\ P2p!Event(x).what = x /\ P2p!Event(x).at = "begin"
  /\ P2p!NoEvent \notin [what : P2pEvents, at : Stages]
BY DEF P2p!Event, P2p!NoEvent, Stages

\* A change of a field that says whether an interface is up.
LEMMA UpForm ==
  ASSUME NEW x \in BOOLEAN, NEW y \in BOOLEAN, NEW z \in BOOLEAN
  PROVE  [[bit |-> x, up |-> y] EXCEPT !.up = z] = [bit |-> x, up |-> z]
<1> DEFINE r == [bit |-> x, up |-> y]
           u == [r EXCEPT !.up = z]
<1>1. r \in [bit : BOOLEAN, up : BOOLEAN] /\ r.bit = x /\ r.up = y
  OBVIOUS
<1> HIDE DEF r
<1>2. u \in [bit : BOOLEAN, up : BOOLEAN] /\ u.bit = x /\ u.up = z
  BY <1>1
<1> HIDE DEF u
<1>3. u = [bit |-> x, up |-> z]
  BY <1>2
<1>4. QED BY <1>3 DEF u, r

\* The interfaces as a group starts, is left, goes down, and is gone.
LEMMA IfsForms ==
  /\ [IfsOf("none", TRUE) EXCEPT !["ap"] = [bit |-> TRUE, up |-> TRUE]] = IfsOf("go", TRUE)
  /\ [IfsOf("none", TRUE) EXCEPT !["sta"] = [bit |-> TRUE, up |-> TRUE]] = IfsOf("client", TRUE)
  /\ [IfsOf("client", TRUE) EXCEPT !["sta"].up = FALSE] = IfsOf("left", TRUE)
  /\ ~IfsOf("none", TRUE)["sta"].up
<1>1. [IfsOf("none", TRUE) EXCEPT !["ap"] = [bit |-> TRUE, up |-> TRUE]] = IfsOf("go", TRUE)
  BY DEF IfsOf
<1>2. [IfsOf("none", TRUE) EXCEPT !["sta"] = [bit |-> TRUE, up |-> TRUE]] = IfsOf("client", TRUE)
  BY DEF IfsOf
<1>3. [IfsOf("client", TRUE) EXCEPT !["sta"].up = FALSE] = IfsOf("left", TRUE)
  <2>1. /\ IfsOf("client", TRUE) = [i \in {"sta", "ap"} |-> IF i = "sta" THEN [bit |-> TRUE, up |-> TRUE]
                                                            ELSE [bit |-> FALSE, up |-> FALSE]]
        /\ IfsOf("left", TRUE) = [i \in {"sta", "ap"} |-> IF i = "sta" THEN [bit |-> TRUE, up |-> FALSE]
                                                          ELSE [bit |-> FALSE, up |-> FALSE]]
    BY DEF IfsOf
  <2>2. [[bit |-> TRUE, up |-> TRUE] EXCEPT !.up = FALSE] = [bit |-> TRUE, up |-> FALSE]
    BY UpForm
  <2>3. QED BY <2>1, <2>2
<1>4. ~IfsOf("none", TRUE)["sta"].up
  BY DEF IfsOf
<1>5. QED BY <1>1, <1>2, <1>3, <1>4

\* The interface that a removal takes down is that of the group it is about.
LEMMA RemovedForms ==
  ASSUME NEW g \in Groups, p2pEvt.what \in Ends, Fits(p2pEvt.what, g), groupType = TypeOf(g)
  PROVE  /\ P2p!RemovedIf = IF g = "go" THEN {"ap"} ELSE {"sta"}
         /\ netIf = IfsOf(g, TRUE) =>
              [i \in DOMAIN netIf |-> IF i \in P2p!RemovedIf THEN [netIf[i] EXCEPT !.up = FALSE] ELSE netIf[i]]
                = IfsOf(g, FALSE)
         /\ netIf = IfsOf(g, FALSE) =>
              [i \in DOMAIN netIf |-> IF i \in P2p!RemovedIf THEN P2p!Down ELSE netIf[i]]
                = IfsOf("none", TRUE)
<1>1. P2p!RemovedIf = IF g = "go" THEN {"ap"} ELSE {"sta"}
  BY DEF P2p!RemovedIf, Ends, Fits, Groups, TypeOf, Starts, Failures
<1>2. g \in {"go", "client", "left"}
  BY DEF Ends, Fits, Groups, Starts, Failures
<1> DEFINE On == [bit |-> TRUE, up |-> TRUE]
           Off == [bit |-> TRUE, up |-> FALSE]
           No == [bit |-> FALSE, up |-> FALSE]
<1>3. [On EXCEPT !.up = FALSE] = Off /\ [Off EXCEPT !.up = FALSE] = Off /\ P2p!Down = No
  BY UpForm DEF P2p!Down
<1>4. /\ DOMAIN IfsOf(g, TRUE) = {"sta", "ap"} /\ DOMAIN IfsOf(g, FALSE) = {"sta", "ap"}
      /\ IfsOf(g, TRUE)["ap"] = (IF g = "go" THEN On ELSE No)
      /\ IfsOf(g, TRUE)["sta"] = (IF g = "client" THEN On ELSE IF g = "left" THEN Off ELSE No)
      /\ IfsOf(g, FALSE)["ap"] = (IF g = "go" THEN Off ELSE No)
      /\ IfsOf(g, FALSE)["sta"] = (IF g \in {"client", "left"} THEN Off ELSE No)
      /\ IfsOf("none", TRUE)["ap"] = No /\ IfsOf("none", TRUE)["sta"] = No
  BY <1>2 DEF IfsOf
<1>5. \A h, up : IfsOf(h, up) = [i \in {"sta", "ap"} |-> IfsOf(h, up)[i]]
  BY DEF IfsOf
<1> HIDE DEF On, Off, No
<1>6. ASSUME netIf = IfsOf(g, TRUE), NEW i \in {"sta", "ap"}
      PROVE  (IF i \in P2p!RemovedIf THEN [netIf[i] EXCEPT !.up = FALSE] ELSE netIf[i])
               = IfsOf(g, FALSE)[i]
  BY <1>1, <1>2, <1>3, <1>4, <1>6
<1>7. ASSUME netIf = IfsOf(g, FALSE), NEW i \in {"sta", "ap"}
      PROVE  (IF i \in P2p!RemovedIf THEN P2p!Down ELSE netIf[i]) = IfsOf("none", TRUE)[i]
  BY <1>1, <1>2, <1>3, <1>4, <1>7
<1>8. ASSUME netIf = IfsOf(g, TRUE)
      PROVE  [i \in DOMAIN netIf |-> IF i \in P2p!RemovedIf THEN [netIf[i] EXCEPT !.up = FALSE] ELSE netIf[i]]
               = IfsOf(g, FALSE)
  <2>1. DOMAIN netIf = {"sta", "ap"}
    BY <1>4, <1>8
  <2>2. [i \in {"sta", "ap"} |-> IF i \in P2p!RemovedIf THEN [netIf[i] EXCEPT !.up = FALSE] ELSE netIf[i]]
          = [i \in {"sta", "ap"} |-> IfsOf(g, FALSE)[i]]
    BY <1>6, <1>8
  <2>3. QED BY <1>5, <2>1, <2>2
<1>9. ASSUME netIf = IfsOf(g, FALSE)
      PROVE  [i \in DOMAIN netIf |-> IF i \in P2p!RemovedIf THEN P2p!Down ELSE netIf[i]]
               = IfsOf("none", TRUE)
  <2>1. DOMAIN netIf = {"sta", "ap"}
    BY <1>4, <1>9
  <2>2. [i \in {"sta", "ap"} |-> IF i \in P2p!RemovedIf THEN P2p!Down ELSE netIf[i]]
          = [i \in {"sta", "ap"} |-> IfsOf("none", TRUE)[i]]
    BY <1>7, <1>9
  <2>3. QED BY <1>5, <2>1, <2>2
<1>10. QED BY <1>1, <1>8, <1>9

\* Each step keeps the types.
LEMMA P2pTypesStep ==
  ASSUME P2pTypes, P2p!Next
  PROVE  P2pTypes'
<1> USE DEF P2pTypes
<1>1. \A x \in P2pEvents : Append(events, x) \in Seq(P2pEvents)
  OBVIOUS
<1>2. {"removedGo", "removedClient", "removedDevice", "startedGo", "startedClient", "formationFailed",
       "peerNotFound", "disconnected", "scanCompleted"} \subseteq P2pEvents
  BY DEF P2pEvents, Starts, Ends, Failures
<1>3. ASSUME P2p!GroupGone
      PROVE  events' \in Seq(P2pEvents) /\ radio' = "idle"
  BY <1>1, <1>2, <1>3 DEF P2p!GroupGone, P2p!Removals
<1>4. \A s \in {"staRoleup", "connect", "disconnect"}, v \in BOOLEAN :
        [tokens EXCEPT ![s] = v] \in [{"staRoleup", "connect", "disconnect"} -> BOOLEAN]
  OBVIOUS
<1>5. CASE P2p!RoleUpP2P
  BY <1>5 DEF P2p!RoleUpP2P, P2p!counters
<1>6. CASE P2p!RoleDownP2P \/ P2p!GrpRemove \/ P2p!ConnectTimesOut \/ P2p!PeerLeaves
  BY <1>3, <1>6 DEF P2p!RoleDownP2P, P2p!GrpRemove, P2p!ConnectTimesOut, P2p!PeerLeaves
<1>7. CASE P2p!ConnectBegin
  <2>1. tokens' \in [{"staRoleup", "connect", "disconnect"} -> BOOLEAN]
    BY <1>4, <1>7 DEF P2p!ConnectBegin
  <2>2. \A r \in P2p!Removals : events \o <<"disconnected", r>> \in Seq(P2pEvents)
    BY <1>2 DEF P2p!Removals
  <2>3. QED BY <1>7, <2>1, <2>2 DEF P2p!ConnectBegin
<1>8. CASE P2p!ConnectLeft \/ P2p!ConnectCall \/ P2p!ConnectAnswered
  <2>1. tokens' \in [{"staRoleup", "connect", "disconnect"} -> BOOLEAN]
    BY <1>4, <1>8 DEF P2p!ConnectLeft, P2p!ConnectCall, P2p!ConnectAnswered
  <2>2. UNCHANGED <<events, p2pEvt>> /\ radio' \in {radio, "joining"}
    BY <1>8 DEF P2p!ConnectLeft, P2p!ConnectCall, P2p!ConnectAnswered
  <2>3. QED BY <2>1, <2>2
<1>9. CASE P2p!Find \/ P2p!FindStopWaited \/ P2p!FindStopDeletes \/ P2p!FindStopClears
  BY <1>9 DEF P2p!Find, P2p!FindStopWaited, P2p!FindStopDeletes, P2p!FindStopClears
<1>10. CASE P2p!FindStop \/ P2p!ScanEnds
  BY <1>1, <1>2, <1>10 DEF P2p!FindStop, P2p!ScanEnds
<1>11. CASE P2p!JoinEnds
  <2>1. PICK x \in P2pEvents : events' = Append(events, x)
    BY <1>2, <1>11 DEF P2p!JoinEnds
  <2>2. radio' \in {"idle", "go", "client"} /\ UNCHANGED <<p2pEvt, tokens>>
    BY <1>11 DEF P2p!JoinEnds
  <2>3. QED BY <1>1, <2>1, <2>2
<1>12. CASE P2p!TakeEvent
  <2>1. Head(events) \in P2pEvents /\ Tail(events) \in Seq(P2pEvents)
    BY <1>12, HeadTailProperties, EmptySeq DEF P2p!TakeEvent
  <2>2. QED BY <1>12, <2>1, EventForm DEF P2p!TakeEvent
<1>13. CASE P2p!EventStep /\ ~P2p!TakeEvent
  <2>1. p2pEvt' = P2p!NoEvent \/ \E t \in Stages : p2pEvt' = [p2pEvt EXCEPT !.at = t]
    BY <1>13 DEF P2p!EventStep, P2p!ScanCompleted, P2p!ScanSignals, P2p!GroupStarted,
       P2p!StartedInterface, P2p!StartedWaits, P2p!JoinEnded, P2p!GroupRemoved, P2p!RemovedBits,
       P2p!Disconnected, P2p!DisconnectSignals, Stages
  <2>2. p2pEvt # P2p!NoEvent
    BY <1>13, <1>2, EventForm DEF P2p!EventStep, P2p!ScanCompleted, P2p!ScanSignals, P2p!GroupStarted,
       P2p!StartedInterface, P2p!StartedWaits, P2p!JoinEnded, P2p!GroupRemoved, P2p!RemovedBits,
       P2p!Disconnected, P2p!DisconnectSignals, P2p!NoEvent
  <2>3. p2pEvt' = P2p!NoEvent \/ p2pEvt' \in [what : P2pEvents, at : Stages]
    BY <2>1, <2>2, StageForm
  <2>4. UNCHANGED <<events, radio>>
    BY <1>13 DEF P2p!EventStep, P2p!ScanCompleted, P2p!ScanSignals, P2p!GroupStarted,
       P2p!StartedInterface, P2p!StartedWaits, P2p!JoinEnded, P2p!GroupRemoved, P2p!RemovedBits,
       P2p!Disconnected, P2p!DisconnectSignals
  <2>5. tokens' = tokens \/ \E n \in {"staRoleup", "connect", "disconnect"}, v \in BOOLEAN :
          tokens' = [tokens EXCEPT ![n] = v]
    BY <1>13 DEF P2p!EventStep, P2p!ScanCompleted, P2p!ScanSignals, P2p!GroupStarted,
       P2p!StartedInterface, P2p!StartedWaits, P2p!JoinEnded, P2p!GroupRemoved, P2p!RemovedBits,
       P2p!Disconnected, P2p!DisconnectSignals, P2p!stateOfGroup
  <2>6. QED BY <1>4, <2>3, <2>4, <2>5
<1>14. QED BY <1>5, <1>6, <1>7, <1>8, <1>9, <1>10, <1>11, <1>12, <1>13 DEF P2p!Next

\* The find stop's object is there as long as its answer may come.
LEMMA FindAnsweredStep ==
  ASSUME P2pTypes, FindAnswered, P2p!Next
  PROVE  FindAnswered'
<1> DEFINE vars == <<findObj, findWait, p2pCmd, p2pEvt, unanswered, misused>>
           Sig == [what |-> "scanCompleted", at |-> "signal"]
<1>1. CASE P2p!RoleUpP2P \/ P2p!RoleDownP2P \/ P2p!GrpRemove \/ P2p!Find \/ P2p!JoinEnds
           \/ P2p!PeerLeaves \/ P2p!ScanEnds
  <2>1. UNCHANGED vars
    BY <1>1 DEF P2p!RoleUpP2P, P2p!RoleDownP2P, P2p!GrpRemove, P2p!Find, P2p!JoinEnds,
                P2p!PeerLeaves, P2p!ScanEnds, P2p!counters
  <2>2. QED BY <2>1 DEF FindAnswered
<1>2. CASE P2p!ConnectBegin \/ P2p!ConnectLeft \/ P2p!ConnectCall \/ P2p!ConnectAnswered
           \/ P2p!ConnectTimesOut
  <2>1. UNCHANGED <<findObj, findWait, p2pEvt, unanswered, misused>> /\ p2pCmd # "findWait"
    BY <1>2 DEF P2p!ConnectBegin, P2p!ConnectLeft, P2p!ConnectCall, P2p!ConnectAnswered,
                P2p!ConnectTimesOut, P2p!counters
  <2>2. QED BY <2>1 DEF FindAnswered
<1>3. CASE P2p!FindStop
  <2>1. UNCHANGED <<p2pEvt, misused>> /\ p2pCmd = "idle" /\ findObj' = "empty" /\ findWait'
    BY <1>3 DEF P2p!FindStop
  <2>2. (p2pCmd' = "findWait" /\ UNCHANGED unanswered) \/ unanswered' = TRUE
    BY <1>3 DEF P2p!FindStop
  <2>3. QED BY <2>1, <2>2 DEF FindAnswered
<1>4. CASE P2p!FindStopWaited
  BY <1>4 DEF P2p!FindStopWaited, FindAnswered
<1>5. CASE P2p!FindStopDeletes
  BY <1>5 DEF P2p!FindStopDeletes, FindAnswered, P2p!counters
<1>6. CASE P2p!FindStopClears
  BY <1>6 DEF P2p!FindStopClears, FindAnswered, P2p!counters
<1>7. CASE P2p!TakeEvent
  <2>1. p2pEvt'.at = "begin" /\ UNCHANGED <<findObj, findWait, p2pCmd, unanswered, misused>>
    BY <1>7 DEF P2p!TakeEvent, P2p!Event, P2p!counters
  <2>2. p2pEvt' # Sig
    BY <2>1
  <2>3. QED BY <2>1, <2>2 DEF FindAnswered
<1>8. CASE P2p!ScanCompleted
  <2>1. UNCHANGED <<findObj, p2pCmd, unanswered, misused>> /\ ~findWait' /\ (~findWait => p2pEvt' = P2p!NoEvent)
    BY <1>8 DEF P2p!ScanCompleted, P2p!counters
  <2>2. P2p!NoEvent # Sig
    BY DEF P2p!NoEvent
  <2>3. QED BY <2>1, <2>2 DEF FindAnswered
<1>9. CASE P2p!ScanSignals
  <2>1. UNCHANGED <<findWait, p2pCmd, unanswered>> /\ p2pEvt = Sig /\ p2pEvt' = P2p!NoEvent
        /\ (findObj # "none" => misused' = misused)
    BY <1>9 DEF P2p!ScanSignals, P2p!counters
  <2>2. P2p!NoEvent # Sig
    BY DEF P2p!NoEvent
  <2>3. QED BY <2>1, <2>2 DEF FindAnswered
<1>10. CASE P2p!GroupStarted \/ P2p!StartedInterface \/ P2p!StartedWaits \/ P2p!JoinEnded
            \/ P2p!GroupRemoved \/ P2p!RemovedBits \/ P2p!Disconnected \/ P2p!DisconnectSignals
  <2>1. UNCHANGED <<findObj, findWait, p2pCmd, unanswered>>
        /\ ("deleted" \notin misused => "deleted" \notin misused')
    BY <1>10 DEF P2p!GroupStarted, P2p!StartedInterface, P2p!StartedWaits, P2p!JoinEnded,
       P2p!GroupRemoved, P2p!RemovedBits, P2p!Disconnected, P2p!DisconnectSignals, P2p!counters
  <2>2. p2pEvt' = P2p!NoEvent \/ p2pEvt'.what # "scanCompleted"
    <3>1. CASE P2p!JoinEnded \/ P2p!RemovedBits \/ P2p!DisconnectSignals
      BY <3>1 DEF P2p!JoinEnded, P2p!RemovedBits, P2p!DisconnectSignals
    <3>2. CASE ~(P2p!JoinEnded \/ P2p!RemovedBits \/ P2p!DisconnectSignals)
      <4>1. p2pEvt.what # "scanCompleted" /\ p2pEvt # P2p!NoEvent
            /\ \E t \in Stages : p2pEvt' = [p2pEvt EXCEPT !.at = t]
        BY <1>10, <3>2 DEF P2p!GroupStarted, P2p!StartedInterface, P2p!StartedWaits, P2p!GroupRemoved,
           P2p!Disconnected, P2p!Started, P2p!Removed, P2p!Event, P2p!NoEvent, Stages
      <4>2. QED BY <4>1, StageForm DEF P2pTypes
    <3>3. QED BY <3>1, <3>2
  <2>3. p2pEvt' # Sig
    BY <2>2 DEF P2p!NoEvent
  <2>4. QED BY <2>1, <2>3 DEF FindAnswered
<1>11. QED BY <1>1, <1>2, <1>3, <1>4, <1>5, <1>6, <1>7, <1>8, <1>9, <1>10 DEF P2p!Next, P2p!EventStep

\* The group bit is set or not.
LEMMA GroupBitStep ==
  ASSUME groupBit \in BOOLEAN, P2p!Next
  PROVE  groupBit' \in BOOLEAN
<1>1. groupBit' = groupBit \/ groupBit' = TRUE \/ groupBit' = FALSE
  BY DEF P2p!Next, P2p!RoleUpP2P, P2p!RoleDownP2P, P2p!GrpRemove, P2p!ConnectBegin, P2p!ConnectLeft,
     P2p!ConnectCall, P2p!ConnectAnswered, P2p!ConnectTimesOut, P2p!Find, P2p!FindStop,
     P2p!FindStopWaited, P2p!FindStopDeletes, P2p!FindStopClears, P2p!JoinEnds, P2p!PeerLeaves,
     P2p!ScanEnds, P2p!EventStep, P2p!TakeEvent, P2p!ScanCompleted, P2p!ScanSignals, P2p!GroupStarted,
     P2p!StartedInterface, P2p!StartedWaits, P2p!JoinEnded, P2p!GroupRemoved, P2p!RemovedBits,
     P2p!Disconnected, P2p!DisconnectSignals, P2p!stateOfGroup
<1>2. QED BY <1>1

\* What the event thread is at does not depend on the commands.
LEMMA HandlingKept ==
  ASSUME NEW g, Handling(g), UNCHANGED <<groupBit, groupType, netIf, p2pEvt>>,
         tokens'["staRoleup"] = tokens["staRoleup"]
  PROVE  Handling(g)'
BY DEF Handling, Shows

\* Each step of a command, the driver or a peer is told of in order.
LEMMA ToldByOthers ==
  ASSUME P2pTypes, GroupTold, P2p!Next, ~P2p!EventStep
  PROVE  GroupTold'
<1> DEFINE From(g) == IF p2pEvt = P2p!NoEvent THEN g ELSE After(p2pEvt.what, g)
<1>1. PICK g \in Groups : Handling(g) /\ Tells(events, From(g), OfRadio)
  BY DEF GroupTold
<1>2. SUFFICES ASSUME UNCHANGED <<groupBit, groupType, netIf, p2pEvt>>,
                      tokens'["staRoleup"] = tokens["staRoleup"]
               PROVE  Tells(events', From(g), OfRadio')
  <2>1. UNCHANGED <<groupBit, groupType, netIf, p2pEvt>>
    BY DEF P2p!Next, P2p!RoleUpP2P, P2p!RoleDownP2P, P2p!GrpRemove, P2p!ConnectBegin, P2p!ConnectLeft,
       P2p!ConnectCall, P2p!ConnectAnswered, P2p!ConnectTimesOut, P2p!Find, P2p!FindStop,
       P2p!FindStopWaited, P2p!FindStopDeletes, P2p!FindStopClears, P2p!JoinEnds, P2p!PeerLeaves,
       P2p!ScanEnds, P2p!stateOfGroup
  <2>2. tokens' = tokens \/ \E n \in {"connect", "disconnect"} : tokens' = [tokens EXCEPT ![n] = FALSE]
    BY DEF P2p!Next, P2p!RoleUpP2P, P2p!RoleDownP2P, P2p!GrpRemove, P2p!ConnectBegin, P2p!ConnectLeft,
       P2p!ConnectCall, P2p!ConnectAnswered, P2p!ConnectTimesOut, P2p!Find, P2p!FindStop,
       P2p!FindStopWaited, P2p!FindStopDeletes, P2p!FindStopClears, P2p!JoinEnds, P2p!PeerLeaves,
       P2p!ScanEnds
  <2>3. tokens'["staRoleup"] = tokens["staRoleup"]
    BY <2>2 DEF P2pTypes
  <2>4. Handling(g)'
    BY <1>1, <2>1, <2>3, HandlingKept
  <2>5. ASSUME Tells(events', From(g), OfRadio') PROVE GroupTold'
    BY <2>1, <2>4, <2>5 DEF GroupTold
  <2>6. QED BY <2>1, <2>3, <2>5
<1> HIDE DEF From
<1>3. events \in Seq(P2pEvents) /\ radio \in {"idle", "joining", "go", "client"}
  BY DEF P2pTypes
<1>4. ASSUME UNCHANGED <<events, radio>> PROVE Tells(events', From(g), OfRadio')
  BY <1>1, <1>4 DEF OfRadio
<1>5. ASSUME P2p!GroupGone PROVE Tells(events', From(g), OfRadio')
  <2>1. CASE radio \in {"go", "client"}
    <3>1. PICK r \in P2p!Removals : events' = Append(events, r)
      BY <1>5, <2>1 DEF P2p!GroupGone
    <3>2. r \in P2pEvents /\ Fits(r, OfRadio) /\ After(r, OfRadio) = "none"
      BY <2>1, <3>1 DEF P2p!Removals, P2pEvents, Ends, Starts, Failures, Fits, After, OfRadio
    <3>3. OfRadio' = "none"
      BY <1>5 DEF P2p!GroupGone, OfRadio
    <3>4. QED BY <1>1, <1>3, <3>1, <3>2, <3>3, ToldNext
  <2>2. CASE radio \notin {"go", "client"}
    <3>1. events' = events /\ OfRadio' = OfRadio
      BY <1>5, <2>2 DEF P2p!GroupGone, OfRadio
    <3>2. QED BY <1>1, <3>1
  <2>3. QED BY <2>1, <2>2
<1>6. ASSUME UNCHANGED radio, events' = Append(events, "scanCompleted")
      PROVE  Tells(events', From(g), OfRadio')
  <2>1. "scanCompleted" \in P2pEvents /\ Fits("scanCompleted", OfRadio)
        /\ After("scanCompleted", OfRadio) = OfRadio
    BY DEF P2pEvents, Ends, Starts, Failures, Fits, After
  <2>2. OfRadio' = OfRadio
    BY <1>6 DEF OfRadio
  <2>3. QED BY <1>1, <1>3, <1>6, <2>1, <2>2, ToldNext
<1>7. CASE P2p!RoleUpP2P \/ P2p!ConnectLeft \/ P2p!ConnectAnswered \/ P2p!Find \/ P2p!FindStopWaited
           \/ P2p!FindStopDeletes \/ P2p!FindStopClears
  BY <1>4, <1>7 DEF P2p!RoleUpP2P, P2p!ConnectLeft, P2p!ConnectAnswered, P2p!Find, P2p!FindStopWaited,
     P2p!FindStopDeletes, P2p!FindStopClears
<1>8. CASE P2p!RoleDownP2P \/ P2p!GrpRemove \/ P2p!ConnectTimesOut \/ P2p!PeerLeaves
  BY <1>5, <1>8 DEF P2p!RoleDownP2P, P2p!GrpRemove, P2p!ConnectTimesOut, P2p!PeerLeaves
<1>9. CASE P2p!ConnectBegin
  <2>1. CASE UNCHANGED <<radio, events>>
    BY <1>4, <2>1
  <2>2. CASE radio = "client" /\ radio' = "idle"
             /\ \E r \in P2p!Removals : events' = events \o <<"disconnected", r>>
    <3>1. PICK r \in P2p!Removals : events' = events \o <<"disconnected", r>>
      BY <2>2
    <3>2. OfRadio = "client" /\ OfRadio' = "none"
      BY <2>2 DEF OfRadio
    <3>3. "disconnected" \in P2pEvents /\ Fits("disconnected", "client") /\ After("disconnected", "client") = "left"
      BY DEF P2pEvents, Ends, Starts, Failures, Fits, After
    <3>4. r \in P2pEvents /\ Fits(r, "left") /\ After(r, "left") = "none"
      BY <2>2, <3>1 DEF P2p!Removals, P2pEvents, Ends, Starts, Failures, Fits, After
    <3> DEFINE e == Append(events, "disconnected")
    <3>5. e \in Seq(P2pEvents) /\ Tells(e, From(g), "left")
      BY <1>1, <1>3, <3>2, <3>3, ToldNext
    <3>6. events' = Append(e, r)
      BY <1>3, <3>1, <3>3, <3>4
    <3> HIDE DEF e
    <3>7. QED BY <3>2, <3>4, <3>5, <3>6, ToldNext
  <2>3. QED BY <1>9, <2>1, <2>2 DEF P2p!ConnectBegin
<1>10. CASE P2p!ConnectCall
  <2>1. events' = events /\ OfRadio' = OfRadio
    BY <1>10 DEF P2p!ConnectCall, OfRadio
  <2>2. QED BY <1>1, <2>1
<1>11. CASE P2p!FindStop
  <2>1. UNCHANGED radio /\ (events' = events \/ events' = Append(events, "scanCompleted"))
    BY <1>11 DEF P2p!FindStop
  <2>2. QED BY <1>4, <1>6, <2>1
<1>12. CASE P2p!ScanEnds
  BY <1>6, <1>12 DEF P2p!ScanEnds
<1>13. CASE P2p!JoinEnds
  <2>1. PICK x \in Starts \cup Failures : events' = Append(events, x) /\ OfRadio' = After(x, "none")
    BY <1>13 DEF P2p!JoinEnds, Starts, Failures, Ends, After, OfRadio
  <2>2. OfRadio = "none"
    BY <1>13 DEF P2p!JoinEnds, OfRadio
  <2>3. x \in P2pEvents /\ Fits(x, "none")
    BY DEF P2pEvents, Fits, Starts, Failures, Ends
  <2>4. QED BY <1>1, <1>3, <2>1, <2>2, <2>3, ToldNext
<1>14. QED BY <1>7, <1>8, <1>9, <1>10, <1>11, <1>12, <1>13 DEF P2p!Next

\* Each step of the event thread does what it was told, and the assertion never fires.
LEMMA ToldByEvents ==
  ASSUME P2pTypes, P2pTypes', GroupTold, P2p!EventStep, "asserted" \notin misused
  PROVE  GroupTold' /\ "asserted" \notin misused'
<1> DEFINE From(g) == IF p2pEvt = P2p!NoEvent THEN g ELSE After(p2pEvt.what, g)
           x == p2pEvt.what
           Events == [what : P2pEvents, at : Stages]
<1>1. PICK g \in Groups : Handling(g) /\ Tells(events, From(g), OfRadio)
  BY DEF GroupTold
<1>2. P2p!NoEvent \notin Events /\ P2p!NoEvent.what = "none"
  BY EventForm DEF P2p!NoEvent
<1>3. ASSUME UNCHANGED <<events, radio>>, NEW h \in Groups, Handling(h)',
             From(g) = IF p2pEvt' = P2p!NoEvent THEN h ELSE After(p2pEvt'.what, h)
      PROVE  GroupTold'
  <2>1. Tells(events', From(g), OfRadio')
    BY <1>1, <1>3 DEF OfRadio
  <2>2. QED BY <1>3, <2>1 DEF GroupTold
<1>4. ASSUME p2pEvt \in Events, UNCHANGED <<events, radio>>, NEW t \in Stages, p2pEvt' = [p2pEvt EXCEPT !.at = t],
             Handling(g)'
      PROVE  GroupTold'
  <2>1. p2pEvt'.what = x /\ p2pEvt' \in Events
    BY <1>4, StageForm
  <2>2. QED BY <1>1, <1>2, <1>3, <1>4, <2>1
<1>5. ASSUME p2pEvt \in Events, UNCHANGED <<events, radio>>, p2pEvt' = P2p!NoEvent, NEW h \in Groups,
             h = After(x, g), Shows(h)'
      PROVE  GroupTold'
  <2>1. Handling(h)'
    BY <1>5 DEF Handling, P2p!NoEvent
  <2>2. QED BY <1>2, <1>3, <1>5, <2>1
<1>6. p2pEvt = P2p!NoEvent \/ p2pEvt \in Events
  BY DEF P2pTypes
<1>7. CASE P2p!TakeEvent
  <2> DEFINE y == Head(events)
  <2>1. p2pEvt = P2p!NoEvent /\ events # <<>> /\ p2pEvt' = P2p!Event(y) /\ events' = Tail(events)
        /\ UNCHANGED <<groupBit, groupType, netIf, tokens, radio, misused>>
    BY <1>7 DEF P2p!TakeEvent, P2p!stateOfGroup
  <2>2. Shows(g) /\ Tells(events, g, OfRadio)
    BY <1>1, <2>1 DEF Handling
  <2>3. y \in P2pEvents /\ Fits(y, g) /\ Tells(Tail(events), After(y, g), OfRadio)
    BY <2>1, <2>2, ToldFirst DEF P2pTypes
  <2>4. p2pEvt'.what = y /\ p2pEvt'.at = "begin" /\ p2pEvt' # P2p!NoEvent
    BY <2>1, <2>3, EventForm
  <2>5. Handling(g)'
    BY <2>1, <2>2, <2>3, <2>4 DEF Handling, Shows
  <2>6. OfRadio' = OfRadio
    BY <2>1 DEF OfRadio
  <2>7. GroupTold'
    BY <2>1, <2>3, <2>4, <2>5, <2>6 DEF GroupTold
  <2>8. QED BY <2>1, <2>7
<1>8. CASE P2p!ScanCompleted
  <2>1. p2pEvt = P2p!Event("scanCompleted") /\ UNCHANGED <<groupBit, groupType, netIf, tokens, radio, events, misused>>
        /\ p2pEvt' \in {P2p!NoEvent, [p2pEvt EXCEPT !.at = "signal"]}
    BY <1>8 DEF P2p!ScanCompleted, P2p!stateOfGroup
  <2>2. p2pEvt \in Events /\ x = "scanCompleted" /\ p2pEvt.at = "begin"
    BY <2>1, EventForm DEF P2pEvents
  <2>3. Shows(g)' /\ After(x, g) = g
    BY <1>1, <1>2, <2>1, <2>2 DEF Handling, Shows, After, Ends
  <2>4. CASE p2pEvt' = P2p!NoEvent
    BY <1>5, <2>1, <2>2, <2>3, <2>4
  <2>5. CASE p2pEvt' = [p2pEvt EXCEPT !.at = "signal"]
    <3>1. p2pEvt'.what = "scanCompleted" /\ p2pEvt'.at = "signal" /\ p2pEvt' # P2p!NoEvent /\ "signal" \in Stages
      BY <1>2, <2>2, <2>5, StageForm DEF Stages
    <3>2. Handling(g)'
      BY <2>3, <3>1 DEF Handling
    <3>3. QED BY <1>4, <2>1, <2>2, <2>5, <3>1, <3>2
  <2>6. QED BY <2>1, <2>4, <2>5
<1>9. CASE P2p!ScanSignals
  <2>1. x = "scanCompleted" /\ p2pEvt.at = "signal" /\ p2pEvt \in Events /\ p2pEvt' = P2p!NoEvent
        /\ UNCHANGED <<groupBit, groupType, netIf, radio, events>> /\ "asserted" \notin misused'
    BY <1>2, <1>6, <1>9 DEF P2p!ScanSignals, P2p!stateOfGroup, P2p!NoEvent
  <2>2. Shows(g)' /\ After(x, g) = g
    BY <1>1, <1>2, <2>1 DEF Handling, Shows, After, Ends
  <2>3. QED BY <1>5, <2>1, <2>2
<1>10. CASE P2p!GroupStarted
  <2>1. x \in Starts /\ p2pEvt.at = "begin" /\ p2pEvt \in Events /\ groupBit' = TRUE
        /\ p2pEvt' = [p2pEvt EXCEPT !.at = "interface"]
        /\ UNCHANGED <<groupType, netIf, tokens, radio, events, misused>>
    BY <1>2, <1>6, <1>10 DEF P2p!GroupStarted, P2p!Started, Starts
  <2>2. g = "none" /\ Shows(g)
    BY <1>1, <1>2, <2>1 DEF Handling, Fits, Starts, Failures
  <2>3. p2pEvt'.what = x /\ p2pEvt'.at = "interface" /\ p2pEvt' # P2p!NoEvent /\ "interface" \in Stages
    BY <1>2, <2>1, StageForm DEF Stages
  <2>4. Handling(g)'
    BY <2>1, <2>2, <2>3 DEF Handling, Shows, TypeOf, Starts
  <2>5. QED BY <1>4, <2>1, <2>3, <2>4
<1>11. CASE P2p!StartedInterface
  <2>1. x \in Starts /\ p2pEvt.at = "interface" /\ p2pEvt \in Events
        /\ UNCHANGED <<groupBit, radio, events, misused>>
    BY <1>2, <1>6, <1>11 DEF P2p!StartedInterface, P2p!Started, Starts
  <2>2. g = "none" /\ groupBit /\ groupType = "none" /\ netIf = IfsOf("none", TRUE)
    BY <1>1, <1>2, <2>1 DEF Handling, Starts
  <2>3. CASE x = "startedGo"
    <3>1. netIf' = IfsOf("go", TRUE) /\ groupType' = "go" /\ p2pEvt' = [p2pEvt EXCEPT !.at = "signal"]
      BY <1>11, <2>2, <2>3, IfsForms DEF P2p!StartedInterface
    <3>2. p2pEvt'.what = x /\ p2pEvt'.at = "signal" /\ p2pEvt' # P2p!NoEvent /\ "signal" \in Stages
      BY <1>2, <2>1, <3>1, StageForm DEF Stages
    <3>3. Shows("go")' /\ After(x, g) = "go" /\ Fits(x, g)
      BY <2>1, <2>2, <2>3, <3>1 DEF Shows, TypeOf, After, Fits, Starts, Ends, Failures
    <3>4. Handling(g)'
      BY <2>1, <2>3, <3>2, <3>3 DEF Handling, Starts
    <3>5. QED BY <1>4, <2>1, <3>1, <3>2, <3>4
  <2>4. CASE x = "startedClient"
    <3>1. netIf' = IfsOf("client", TRUE) /\ groupType' = "client" /\ p2pEvt' = [p2pEvt EXCEPT !.at = "roleup"]
      BY <1>11, <2>2, <2>4, IfsForms DEF P2p!StartedInterface
    <3>2. tokens' = [tokens EXCEPT !["staRoleup"] = TRUE]
      BY <1>11, <2>2, <2>4, IfsForms DEF P2p!StartedInterface
    <3>3. tokens'["staRoleup"]
      BY <3>2 DEF P2pTypes
    <3>4. p2pEvt'.what = x /\ p2pEvt'.at = "roleup" /\ p2pEvt' # P2p!NoEvent /\ "roleup" \in Stages
      BY <1>2, <2>1, <3>1, StageForm DEF Stages
    <3>5. Shows("client")'
      BY <2>1, <2>2, <3>1 DEF Shows, TypeOf
    <3>6. Handling(g)'
      BY <2>2, <2>4, <3>3, <3>4, <3>5 DEF Handling
    <3>7. QED BY <1>4, <2>1, <3>1, <3>4, <3>6
  <2>5. QED BY <2>1, <2>3, <2>4 DEF Starts
<1>12. CASE P2p!StartedWaits
  <2>1. x \in Starts /\ p2pEvt.at = "roleup" /\ p2pEvt \in Events /\ p2pEvt' = [p2pEvt EXCEPT !.at = "signal"]
        /\ UNCHANGED <<groupBit, groupType, netIf, radio, events>>
    BY <1>2, <1>6, <1>12 DEF P2p!StartedWaits, P2p!Started, P2p!stateOfGroup, Starts
  <2>2. x = "startedClient" /\ g = "none" /\ Shows("client") /\ tokens["staRoleup"]
    BY <1>1, <1>2, <2>1 DEF Handling, Starts
  <2>3. misused' = misused
    BY <1>12, <2>2 DEF P2p!StartedWaits
  <2>4. p2pEvt'.what = x /\ p2pEvt'.at = "signal" /\ p2pEvt' # P2p!NoEvent /\ "signal" \in Stages
    BY <1>2, <2>1, StageForm DEF Stages
  <2>5. Shows("client")' /\ After(x, g) = "client" /\ Fits(x, g)
    BY <2>1, <2>2 DEF Shows, After, Fits, Starts, Ends, Failures
  <2>6. Handling(g)'
    BY <2>1, <2>2, <2>4, <2>5 DEF Handling, Starts
  <2>7. QED BY <1>4, <2>1, <2>3, <2>4, <2>6
<1>13. CASE P2p!JoinEnded
  <2>1. p2pEvt' = P2p!NoEvent /\ UNCHANGED <<netIf, radio, events, misused>>
    BY <1>13 DEF P2p!JoinEnded
  <2>2. CASE x \in Starts /\ p2pEvt.at = "signal" /\ UNCHANGED <<groupBit, groupType>>
    <3>1. p2pEvt \in Events /\ x # "scanCompleted"
      BY <1>2, <1>6, <2>2 DEF Starts
    <3>2. Shows(After(x, g)) /\ After(x, g) \in Groups
      BY <1>1, <1>2, <2>2, <3>1 DEF Handling, After, Groups, Starts
    <3>3. PICK h \in Groups : h = After(x, g)
      BY <3>2
    <3>4. Shows(h)'
      BY <2>1, <2>2, <3>2, <3>3 DEF Shows
    <3>5. QED BY <1>5, <2>1, <3>1, <3>3, <3>4
  <2>3. CASE p2pEvt \in {P2p!Event("formationFailed"), P2p!Event("peerNotFound")} /\ groupBit' = FALSE
             /\ groupType' \in {groupType, "none"}
    <3>1. p2pEvt \in Events /\ x \in Failures /\ p2pEvt.at = "begin"
      BY <2>3, EventForm DEF P2pEvents, Failures
    <3>2. g = "none" /\ Shows("none")
      BY <1>1, <1>2, <3>1 DEF Handling, Fits, Starts, Failures
    <3>3. Shows("none")' /\ After(x, g) = g
      BY <2>1, <2>3, <3>1, <3>2 DEF Shows, After, TypeOf, Failures, Ends
    <3>4. QED BY <1>5, <2>1, <3>1, <3>2, <3>3
  <2>4. QED BY <1>13, <2>2, <2>3 DEF P2p!JoinEnded, P2p!Started, Starts
<1>14. CASE P2p!GroupRemoved
  <2>1. x \in Ends /\ p2pEvt.at = "begin" /\ p2pEvt \in Events /\ groupBit' = FALSE
        /\ p2pEvt' = [p2pEvt EXCEPT !.at = "bits"]
        /\ UNCHANGED <<groupType, tokens, radio, events, misused>>
    BY <1>2, <1>6, <1>14 DEF P2p!GroupRemoved, P2p!Removed, Ends
  <2>2. Fits(x, g) /\ Shows(g)
    BY <1>1, <1>2, <2>1 DEF Handling
  <2>3. netIf' = IfsOf(g, FALSE) /\ groupType = TypeOf(g)
    BY <1>14, <2>1, <2>2, RemovedForms DEF P2p!GroupRemoved, Shows
  <2>4. p2pEvt'.what = x /\ p2pEvt'.at = "bits" /\ p2pEvt' # P2p!NoEvent /\ "bits" \in Stages
    BY <1>2, <2>1, StageForm DEF Stages
  <2>5. Handling(g)'
    BY <2>1, <2>2, <2>3, <2>4 DEF Handling, Ends
  <2>6. QED BY <1>4, <2>1, <2>4, <2>5
<1>15. CASE P2p!RemovedBits
  <2>1. x \in Ends /\ p2pEvt.at = "bits" /\ p2pEvt \in Events /\ groupType' = "none" /\ p2pEvt' = P2p!NoEvent
        /\ UNCHANGED <<groupBit, radio, events, misused>>
    BY <1>2, <1>6, <1>15 DEF P2p!RemovedBits, P2p!Removed, Ends
  <2>2. Fits(x, g) /\ ~groupBit /\ groupType = TypeOf(g) /\ netIf = IfsOf(g, FALSE)
    BY <1>1, <1>2, <2>1 DEF Handling, Ends
  <2>3. netIf' = IfsOf("none", TRUE)
    BY <1>15, <2>1, <2>2, RemovedForms DEF P2p!RemovedBits
  <2>4. Shows("none")' /\ After(x, g) = "none" /\ "none" \in Groups
    BY <2>1, <2>2, <2>3 DEF Shows, TypeOf, After, Ends, Groups
  <2>5. QED BY <1>5, <2>1, <2>4
<1>16. CASE P2p!Disconnected
  <2>1. p2pEvt = P2p!Event("disconnected") /\ UNCHANGED <<groupBit, groupType, radio, events, misused>>
        /\ p2pEvt' = [p2pEvt EXCEPT !.at = "signal"] /\ netIf' = [netIf EXCEPT !["sta"].up = FALSE]
    BY <1>16 DEF P2p!Disconnected
  <2>2. p2pEvt \in Events /\ x = "disconnected" /\ p2pEvt.at = "begin"
    BY <2>1, EventForm DEF P2pEvents
  <2>3. g = "client" /\ Shows(g) /\ Fits(x, g)
    BY <1>1, <1>2, <2>2 DEF Handling, Fits, Starts, Failures
  <2>4. netIf' = IfsOf("left", TRUE) /\ After(x, g) = "left"
    BY <2>1, <2>2, <2>3, IfsForms DEF Shows, After, Ends
  <2>5. Shows("left")'
    BY <2>1, <2>3, <2>4 DEF Shows, TypeOf
  <2>6. p2pEvt'.what = x /\ p2pEvt'.at = "signal" /\ p2pEvt' # P2p!NoEvent /\ "signal" \in Stages
    BY <1>2, <2>1, <2>2, StageForm DEF Stages
  <2>7. Handling(g)'
    BY <2>2, <2>3, <2>4, <2>5, <2>6 DEF Handling
  <2>8. QED BY <1>4, <2>1, <2>2, <2>6, <2>7
<1>17. CASE P2p!DisconnectSignals
  <2>1. x = "disconnected" /\ p2pEvt.at = "signal" /\ p2pEvt \in Events /\ p2pEvt' = P2p!NoEvent
        /\ UNCHANGED <<groupBit, groupType, netIf, radio, events, misused>>
    BY <1>2, <1>6, <1>17 DEF P2p!DisconnectSignals, P2p!stateOfGroup, P2p!NoEvent
  <2>2. Shows(After(x, g)) /\ After(x, g) \in Groups
    BY <1>1, <1>2, <2>1 DEF Handling, After, Groups, Starts, Ends
  <2>3. PICK h \in Groups : h = After(x, g)
    BY <2>2
  <2>4. Shows(h)'
    BY <2>1, <2>2, <2>3 DEF Shows
  <2>5. QED BY <1>5, <2>1, <2>3, <2>4
<1>18. QED BY <1>7, <1>8, <1>9, <1>10, <1>11, <1>12, <1>13, <1>14, <1>15, <1>16, <1>17 DEF P2p!EventStep

\* A start of the program has no group.
LEMMA P2pInit ==
  ASSUME P2p!Init
  PROVE  P2pInv
<1>1. netIf = IfsOf("none", TRUE)
  BY DEF P2p!Init, P2p!Down, IfsOf
<1>2. Handling("none") /\ OfRadio = "none" /\ "none" \in Groups
  <2>1. p2pEvt = P2p!NoEvent /\ ~groupBit /\ groupType = "none" /\ radio = "idle"
    BY DEF P2p!Init
  <2>2. Shows("none")
    BY <1>1, <2>1 DEF Shows, TypeOf
  <2>3. Handling("none")
    BY <2>1, <2>2 DEF Handling, P2p!NoEvent
  <2>4. QED BY <2>1, <2>3 DEF OfRadio, Groups
<1>3. GroupTold
  BY <1>2, NothingTold DEF P2p!Init, GroupTold
<1>4. P2pTypes
  BY DEF P2p!Init, P2p!Sync, P2pTypes
<1>5. FindAnswered /\ groupBit \in BOOLEAN
  BY DEF P2p!Init, FindAnswered, P2p!NoEvent
<1>6. QED BY <1>3, <1>4, <1>5 DEF P2p!Init, P2pInv

\* A group that was told of to the end is the driver's.
LEMMA ToldIsTrue ==
  ASSUME P2pInv
  PROVE  P2p!GroupStateAgrees /\ P2p!GroupStartNeverAsserts /\ P2p!FindStopLeavesNothing
<1>1. P2p!GroupStartNeverAsserts /\ P2p!FindStopLeavesNothing
  BY DEF P2pInv, FindAnswered, P2p!GroupStartNeverAsserts, P2p!FindStopLeavesNothing
<1>2. ASSUME p2pEvt = P2p!NoEvent, events = <<>>
      PROVE  /\ groupType = (IF radio \in {"go", "client"} THEN radio ELSE "none")
             /\ groupBit = (radio \in {"go", "client"})
             /\ netIf["ap"] = [bit |-> radio = "go", up |-> radio = "go"]
             /\ netIf["sta"] = [bit |-> radio = "client", up |-> radio = "client"]
  <2>1. PICK g \in Groups : Shows(g) /\ Tells(<<>>, g, OfRadio)
    BY <1>2 DEF P2pInv, GroupTold, Handling
  <2>2. Shows(OfRadio)
    BY <2>1, NothingTold
  <2>3. groupType = OfRadio
    BY <2>2 DEF Shows, TypeOf, OfRadio
  <2>4. groupBit \in BOOLEAN /\ (groupBit <=> OfRadio # "none")
    BY <2>2 DEF P2pInv, Shows
  <2>5. groupBit = (radio \in {"go", "client"})
    BY <2>4 DEF OfRadio
  <2>6. netIf = IfsOf(OfRadio, TRUE)
    BY <2>2 DEF Shows
  <2>7. /\ netIf["ap"] = (IF radio = "go" THEN [bit |-> TRUE, up |-> TRUE] ELSE [bit |-> FALSE, up |-> FALSE])
        /\ netIf["sta"] = (IF radio = "client" THEN [bit |-> TRUE, up |-> TRUE]
                           ELSE [bit |-> FALSE, up |-> FALSE])
    BY <2>6 DEF OfRadio, IfsOf
  <2>8. \A b : (b = TRUE => [bit |-> b, up |-> b] = [bit |-> TRUE, up |-> TRUE])
              /\ (b = FALSE => [bit |-> b, up |-> b] = [bit |-> FALSE, up |-> FALSE])
    OBVIOUS
  <2>9. /\ \A r : radio = r => (radio = r) = TRUE
        /\ \A r : radio # r => (radio = r) = FALSE
    OBVIOUS
  <2>10. /\ netIf["ap"] = [bit |-> radio = "go", up |-> radio = "go"]
         /\ netIf["sta"] = [bit |-> radio = "client", up |-> radio = "client"]
    BY <2>7, <2>8, <2>9, Zenon
  <2>11. QED BY <2>3, <2>5, <2>10 DEF OfRadio
<1>3. QED BY <1>1, <1>2 DEF P2p!GroupStateAgrees

\* However many groups are formed, left, removed and lost, with whichever role the end of
\* one is reported and whenever a command gives up, the group type, the bits and the
\* interfaces are the driver's once its events are handled; the start of a group never
\* asserts, and a find stop that was answered leaves no deleted object to be signalled.
THEOREM GroupOfDriver == MCSpec => []P2pSafe
<1> DEFINE I == part = "p2p" => P2pInv
<1>1. MCInit => I
  BY P2pInit DEF MCInit
<1>2. I /\ [MCNext]_<<part, bleVars, p2pVars, csiVars, netVars, apVars, scanVars>> => I'
  <2> SUFFICES ASSUME I, [MCNext]_<<part, bleVars, p2pVars, csiVars, netVars, apVars, scanVars>>,
                      part' = "p2p"
               PROVE  P2pInv'
    OBVIOUS
  <2>1. CASE UNCHANGED <<part, p2pVars>>
    <3>1. P2pTypes' /\ FindAnswered' /\ "asserted" \notin misused'
      BY <2>1 DEF p2pVars, P2pInv, P2pTypes, FindAnswered
    <3>2. GroupTold'
      <4>1. PICK g \in Groups : /\ Handling(g)
              /\ Tells(events, IF p2pEvt = P2p!NoEvent THEN g ELSE After(p2pEvt.what, g), OfRadio)
        BY <2>1 DEF P2pInv, GroupTold
      <4>2. Handling(g)'
        BY <2>1, <4>1, HandlingKept DEF p2pVars
      <4>3. UNCHANGED <<events, p2pEvt>> /\ OfRadio' = OfRadio
        BY <2>1 DEF p2pVars, OfRadio
      <4>4. QED BY <4>1, <4>2, <4>3 DEF GroupTold
    <3>3. groupBit' \in BOOLEAN
      BY <2>1 DEF p2pVars, P2pInv
    <3>4. QED BY <3>1, <3>2, <3>3 DEF P2pInv
  <2>2. CASE part = "p2p" /\ P2p!Next
    <3>1. P2pInv
      BY <2>2
    <3>2. P2pTypes' /\ FindAnswered' /\ groupBit' \in BOOLEAN
      BY <2>2, <3>1, P2pTypesStep, FindAnsweredStep, GroupBitStep DEF P2pInv
    <3>3. CASE P2p!EventStep
      BY <3>1, <3>2, <3>3, ToldByEvents DEF P2pInv
    <3>4. CASE ~P2p!EventStep
      <4>1. misused' = misused
        BY <2>2, <3>4 DEF P2p!Next, P2p!RoleUpP2P, P2p!RoleDownP2P, P2p!GrpRemove, P2p!ConnectBegin,
           P2p!ConnectLeft, P2p!ConnectCall, P2p!ConnectAnswered, P2p!ConnectTimesOut, P2p!Find,
           P2p!FindStop, P2p!FindStopWaited, P2p!FindStopDeletes, P2p!FindStopClears, P2p!JoinEnds,
           P2p!PeerLeaves, P2p!ScanEnds
      <4>2. QED BY <2>2, <3>1, <3>2, <3>4, <4>1, ToldByOthers DEF P2pInv
    <3>5. QED BY <3>3, <3>4
  <2>3. QED BY <2>1, <2>2 DEF MCNext
<1>3. I => P2pSafe
  BY ToldIsTrue DEF P2pSafe
<1>4. QED BY <1>1, <1>2, <1>3, PTL DEF MCSpec
=============================================================================
