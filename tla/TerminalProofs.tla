---------------------------- MODULE TerminalProofs ----------------------------
(***************************************************************************)
(* Proofs about what the terminal's commands keep: the leases of the DHCP  *)
(* server, the vendor elements, the command line and the files.            *)
(***************************************************************************)
EXTENDS MCTerminal, SequenceTheorems, FiniteSetTheorems, WellFoundedInduction, TLAPS

-----------------------------------------------------------------------------
(* The DHCP server.  A lease is in order when it is one of the range and the list is     *)
(* strictly sorted: what a foreign address, a restart or a race brings in is not.        *)

LeaseRecord == [mac : DhcpClients, ip : Nat]

DhcpTypes ==
  /\ leases \in Seq(LeaseRecord)
  /\ range \in [enable : BOOLEAN, lo : Nat, hi : Int]
  /\ pcb \in {"none", "bound", "unbound"} /\ orphan \in BOOLEAN /\ apLink \in BOOLEAN
  /\ apAddr \in [netif : ApAddrs, server : ApAddrs \cup {Dhcp!ANY}, info : ApAddrs \cup {Dhcp!ANY}]
  /\ setCmd \in {"idle", "stopped", "set"}
  /\ clients \in [DhcpClients -> [st : {"none", "offered", "bound"}, ip : Nat]]
  /\ taint \in SUBSET {"foreign", "restart", "static", "race"}

\* The nodes are sorted, and no client has two.
Ordered(list) == \A i, j \in DOMAIN list : i < j => list[i].ip <= list[j].ip /\ list[i].mac # list[j].mac

\* What is in a list; that no address is in it twice; that every address is the range's.
In(list) == {list[i] : i \in DOMAIN list}
Apart(list) == \A i, j \in DOMAIN list : i < j => list[i].ip < list[j].ip
OnRange(a, r) == a <= r.hi /\ \E k \in Nat : a = r.lo + 10 * k
InRange(list, r) == Apart(list) /\ \A i \in DOMAIN list : OnRange(list[i].ip, r)

\* A client that was given an address has it in the list.
Lease(c, a) == [mac |-> c, ip |-> a]
BoundLeased ==
  \A c \in DhcpClients : clients[c].st = "bound" => Lease(c, clients[c].ip) \in In(leases)

Raced == "race" \in taint
Undisturbed == taint \cap {"foreign", "restart", "race"} = {}

\* The range in force is one of addresses.
RangeSet == range.enable \/ Dhcp!Listening => range.lo > 0

\* Without a race one pcb listens, exactly while the link is up and the set command is not
\* in between; the list is empty while none does.
OneServer ==
  ~Raced => /\ ~orphan
            /\ pcb = "bound" <=> apLink /\ setCmd = "idle"
            /\ setCmd # "idle" => apLink
            /\ pcb # "bound" => leases = <<>>

\* The access point's own address is outside the range it serves.
OwnOutside == taint = {} /\ pcb = "bound" => apAddr.netif \notin range.lo..range.hi

DhcpInv ==
  /\ DhcpTypes /\ Ordered(leases) /\ RangeSet /\ OneServer /\ OwnOutside
  /\ Undisturbed => InRange(leases, range) /\ BoundLeased

\* A set of numbers that is not empty has a least one.
LEMMA LeastOne ==
  ASSUME NEW T, T \subseteq Nat, T # {}
  PROVE  \E x \in T : \A y \in T : x <= y
<1>1. PICK x \in T : \A y \in T : ~(<<y, x>> \in OpToRel(<, Nat))
  BY WFMin, NatLessThanWellFounded
<1>2. x \in T /\ \A y \in T : ~(y < x)
  BY <1>1 DEF OpToRel
<1>3. QED BY <1>2

\* The least of a set of numbers is in it, with none below it.
LEMMA MinIs ==
  ASSUME NEW T, T \subseteq Nat, T # {}
  PROVE  Dhcp!Min(T) \in T /\ \A y \in T : Dhcp!Min(T) <= y
BY LeastOne DEF Dhcp!Min

\* The greatest of a set of numbers that has a bound is in it, with none above it.
LEMMA MaxIs ==
  ASSUME NEW n \in Nat, NEW T, T \subseteq 0..n, T # {}
  PROVE  Dhcp!Max(T) \in T /\ \A y \in T : y <= Dhcp!Max(T)
<1> DEFINE D == {n - y : y \in T}
<1>1. D \subseteq Nat /\ D # {}
  <2>1. \A y \in T : n - y \in Nat
    OBVIOUS
  <2>2. PICK y \in T : TRUE
    OBVIOUS
  <2>3. n - y \in D
    OBVIOUS
  <2>4. QED BY <2>1, <2>3
<1> HIDE DEF D
<1>2. PICK x \in D : \A y \in D : x <= y
  BY <1>1, LeastOne
<1>3. PICK m \in T : \A y \in T : y <= m
  <2>1. PICK m \in T : x = n - m
    BY DEF D
  <2>2. \A y \in T : n - y \in D
    BY DEF D
  <2>3. \A y \in T : y \in 0..n /\ x <= n - y
    BY <1>2, <2>2
  <2>4. QED BY <2>1, <2>3
<1>4. \E z \in T : \A y \in T : z >= y
  BY <1>3
<1>5. QED BY <1>4 DEF Dhcp!Max

-----------------------------------------------------------------------------
(* The list of leases. *)

\* A sequence with an element put in at a place.
LEMMA InsertForm ==
  ASSUME NEW L \in Seq(LeaseRecord), NEW p \in 1..(Len(L) + 1), NEW x \in LeaseRecord
  PROVE  LET R == Dhcp!InsertAt(L, p, x) IN
         /\ R \in Seq(LeaseRecord) /\ Len(R) = Len(L) + 1 /\ R[p] = x
         /\ \A j \in 1..(p - 1) : R[j] = L[j]
         /\ \A j \in p..Len(L) : R[j + 1] = L[j]
<1> DEFINE A == SubSeq(L, 1, p - 1)
           B == SubSeq(L, p, Len(L))
           C == A \o <<x>>
<1>1. /\ A \in Seq(LeaseRecord) /\ Len(A) = p - 1 /\ \A j \in 1..(p - 1) : A[j] = L[j]
      /\ B \in Seq(LeaseRecord) /\ Len(B) = Len(L) + 1 - p /\ \A j \in 1..(Len(L) + 1 - p) : B[j] = L[p + j - 1]
  <2>1. \A i \in 1..Len(L) : L[i] \in LeaseRecord
    OBVIOUS
  <2>2. A \in Seq(LeaseRecord) /\ Len(A) = p - 1 /\ \A j \in 1..(p - 1) : A[j] = L[j]
    BY <2>1, SubSeqProperties
  <2>3. /\ B \in Seq(LeaseRecord) /\ Len(B) = IF p <= Len(L) THEN Len(L) - p + 1 ELSE 0
        /\ \A j \in 1..(Len(L) - p + 1) : B[j] = L[p + j - 1]
    BY <2>1, SubSeqProperties
  <2>4. QED BY <2>2, <2>3
<1> HIDE DEF A, B
<1>2. /\ C \in Seq(LeaseRecord) /\ Len(C) = p /\ C[p] = x /\ \A j \in 1..(p - 1) : C[j] = L[j]
  <2>1. <<x>> \in Seq(LeaseRecord) /\ Len(<<x>>) = 1 /\ <<x>>[1] = x
    OBVIOUS
  <2>2. C \in Seq(LeaseRecord) /\ Len(C) = Len(A) + 1 /\ \A i \in 1..(Len(A) + 1) : C[i] = IF i <= Len(A) THEN A[i] ELSE <<x>>[i - Len(A)]
    BY <1>1, <2>1, ConcatProperties
  <2>3. p \in 1..(Len(A) + 1) /\ ~(p <= Len(A)) /\ p - Len(A) = 1
    BY <1>1
  <2>4. C[p] = x
    BY <2>1, <2>2, <2>3
  <2>5. ASSUME NEW j \in 1..(p - 1) PROVE C[j] = L[j]
    <3>1. j \in 1..(Len(A) + 1) /\ j <= Len(A)
      BY <1>1
    <3>2. QED BY <1>1, <2>2, <3>1
  <2> HIDE DEF C
  <2>6. QED BY <1>1, <2>2, <2>4, <2>5
<1> HIDE DEF C
<1>3. /\ C \o B \in Seq(LeaseRecord) /\ Len(C \o B) = Len(C) + Len(B)
      /\ \A i \in 1..(Len(C) + Len(B)) : (C \o B)[i] = IF i <= Len(C) THEN C[i] ELSE B[i - Len(C)]
  BY <1>1, <1>2, ConcatProperties
<1>4. Dhcp!InsertAt(L, p, x) = C \o B
  BY DEF Dhcp!InsertAt, A, B, C
<1> DEFINE R == C \o B
<1>5. R \in Seq(LeaseRecord) /\ Len(R) = Len(L) + 1
  BY <1>1, <1>2, <1>3
<1>6. R[p] = x /\ \A j \in 1..(p - 1) : R[j] = L[j]
  BY <1>1, <1>2, <1>3
<1>7. ASSUME NEW j \in p..Len(L) PROVE R[j + 1] = L[j]
  <2>1. j + 1 - p \in 1..(Len(L) + 1 - p) /\ p + (j + 1 - p) - 1 = j
    OBVIOUS
  <2>2. R[j + 1] = B[j + 1 - p]
    BY <1>1, <1>2, <1>3
  <2>3. B[j + 1 - p] = L[p + (j + 1 - p) - 1]
    BY <1>1, <2>1
  <2>4. QED BY <2>1, <2>2, <2>3
<1> HIDE DEF R
<1>8. QED BY <1>4, <1>5, <1>6, <1>7 DEF R

\* A sequence without the element at a place.
LEMMA RemoveForm ==
  ASSUME NEW S, NEW L \in Seq(S), NEW p \in 1..Len(L)
  PROVE  LET R == Dhcp!NodeRemove(L, p) IN
         /\ R \in Seq(S) /\ Len(R) = Len(L) - 1
         /\ \A j \in 1..(p - 1) : R[j] = L[j]
         /\ \A j \in p..(Len(L) - 1) : R[j] = L[j + 1]
<1> DEFINE A == SubSeq(L, 1, p - 1)
           B == SubSeq(L, p + 1, Len(L))
<1>1. /\ A \in Seq(S) /\ Len(A) = p - 1 /\ \A j \in 1..(p - 1) : A[j] = L[j]
      /\ B \in Seq(S) /\ Len(B) = Len(L) - p /\ \A j \in 1..(Len(L) - p) : B[j] = L[p + j]
  <2>1. \A i \in 1..Len(L) : L[i] \in S
    OBVIOUS
  <2>2. A \in Seq(S) /\ Len(A) = p - 1 /\ \A j \in 1..(p - 1) : A[j] = L[j]
    BY <2>1, SubSeqProperties
  <2>3. /\ B \in Seq(S) /\ Len(B) = IF p + 1 <= Len(L) THEN Len(L) - (p + 1) + 1 ELSE 0
        /\ \A j \in 1..(Len(L) - (p + 1) + 1) : B[j] = L[(p + 1) + j - 1]
    BY <2>1, SubSeqProperties
  <2>4. QED BY <2>2, <2>3
<1> HIDE DEF A, B
<1>2. /\ A \o B \in Seq(S) /\ Len(A \o B) = Len(A) + Len(B)
      /\ \A i \in 1..(Len(A) + Len(B)) : (A \o B)[i] = IF i <= Len(A) THEN A[i] ELSE B[i - Len(A)]
  BY <1>1, ConcatProperties
<1>3. Dhcp!NodeRemove(L, p) = A \o B
  BY DEF Dhcp!NodeRemove, Dhcp!RemoveAt, A, B
<1> DEFINE R == A \o B
<1>4. R \in Seq(S) /\ Len(R) = Len(L) - 1 /\ \A j \in 1..(p - 1) : R[j] = L[j]
  BY <1>1, <1>2
<1>5. ASSUME NEW j \in p..(Len(L) - 1) PROVE R[j] = L[j + 1]
  <2>1. j - (p - 1) \in 1..(Len(L) - p) /\ p + (j - (p - 1)) = j + 1
    OBVIOUS
  <2>2. R[j] = B[j - (p - 1)]
    BY <1>1, <1>2
  <2>3. B[j - (p - 1)] = L[p + (j - (p - 1))]
    BY <1>1, <2>1
  <2>4. QED BY <2>1, <2>2, <2>3
<1> HIDE DEF R
<1>6. QED BY <1>3, <1>4, <1>5 DEF R

\* A new node goes to its place.
LEMMA InsertKeeps ==
  ASSUME NEW L \in Seq(LeaseRecord), Ordered(L), NEW x \in LeaseRecord,
         \A i \in DOMAIN L : L[i].mac # x.mac
  PROVE  LET R == Dhcp!NodeInsert(L, x) IN
         /\ R \in Seq(LeaseRecord) /\ Ordered(R) /\ In(R) = In(L) \cup {x}
         /\ Apart(L) /\ (\A i \in DOMAIN L : L[i].ip # x.ip) => Apart(R)
<1> DEFINE R == Dhcp!NodeInsert(L, x)
           n == Len(L)
           later == {i \in DOMAIN L : x.ip < L[i].ip}
<1> HIDE DEF R
<1>1. n \in Nat /\ DOMAIN L = 1..n /\ x.ip \in Nat /\ \A i \in 1..n : L[i] \in LeaseRecord /\ L[i].ip \in Nat
  <2>1. n \in Nat /\ DOMAIN L = 1..n /\ \A i \in 1..n : L[i] \in LeaseRecord
    OBVIOUS
  <2>2. \A r \in LeaseRecord : r.ip \in Nat
    BY DEF LeaseRecord
  <2>3. QED BY <2>1, <2>2
<1>2. \E p \in 1..(n + 1) :
        /\ R \in Seq(LeaseRecord) /\ Len(R) = n + 1 /\ R[p] = x
        /\ \A j \in 1..(p - 1) : R[j] = L[j] /\ L[j].ip <= x.ip
        /\ \A j \in p..n : R[j + 1] = L[j] /\ x.ip < L[j].ip
  <2>1. CASE later = {}
    <3>1. R = Append(L, x)
      BY <2>1 DEF R, Dhcp!NodeInsert
    <3>2. R \in Seq(LeaseRecord) /\ Len(R) = n + 1 /\ R[n + 1] = x /\ \A j \in 1..n : R[j] = L[j]
      BY <3>1
    <3>3. \A j \in 1..n : L[j].ip <= x.ip
      BY <1>1, <2>1
    <3>4. n + 1 \in 1..(n + 1) /\ (n + 1) - 1 = n /\ (n + 1)..n = {}
      BY <1>1
    <3>5. QED BY <3>2, <3>3, <3>4
  <2>2. CASE later # {}
    <3> DEFINE p == Dhcp!Min(later)
    <3>1. p \in later /\ \A y \in later : p <= y
      <4>1. later \subseteq Nat
        BY <1>1
      <4> HIDE DEF later
      <4>2. QED BY <2>2, <4>1, MinIs
    <3>2. R = Dhcp!InsertAt(L, p, x)
      BY <2>2 DEF R, Dhcp!NodeInsert
    <3> HIDE DEF p
    <3>3. p \in 1..n /\ x.ip < L[p].ip
      BY <1>1, <3>1
    <3>4. /\ R \in Seq(LeaseRecord) /\ Len(R) = n + 1 /\ R[p] = x
          /\ \A j \in 1..(p - 1) : R[j] = L[j]
          /\ \A j \in p..n : R[j + 1] = L[j]
      <4>1. p \in 1..(Len(L) + 1) /\ Len(L) = n
        BY <1>1, <3>3
      <4> DEFINE I == Dhcp!InsertAt(L, p, x)
      <4>2. /\ I \in Seq(LeaseRecord) /\ Len(I) = Len(L) + 1 /\ I[p] = x
            /\ \A j \in 1..(p - 1) : I[j] = L[j]
            /\ \A j \in p..Len(L) : I[j + 1] = L[j]
        BY <4>1, InsertForm
      <4> HIDE DEF I, later
      <4>3. R = I
        BY <3>2 DEF I
      <4>4. QED BY <4>1, <4>2, <4>3
    <3>5. \A j \in 1..(p - 1) : L[j].ip <= x.ip
      <4> SUFFICES ASSUME NEW j \in 1..(p - 1) PROVE L[j].ip <= x.ip
        OBVIOUS
      <4>1. j \in DOMAIN L /\ ~(p <= j)
        BY <1>1, <3>3
      <4>2. ~(x.ip < L[j].ip)
        BY <3>1, <4>1
      <4>3. QED BY <1>1, <4>1, <4>2
    <3>6. \A j \in p..n : x.ip < L[j].ip
      <4> SUFFICES ASSUME NEW j \in p..n PROVE x.ip < L[j].ip
        OBVIOUS
      <4>1. j = p \/ L[p].ip <= L[j].ip
        BY <1>1, <3>3 DEF Ordered
      <4>2. QED BY <1>1, <3>3, <4>1
    <3>7. p \in 1..(n + 1)
      BY <1>1, <3>3
    <3> HIDE DEF later, n
    <3>8. QED BY <3>4, <3>5, <3>6, <3>7
  <2>3. QED BY <2>1, <2>2
<1>3. PICK p \in 1..(n + 1) :
        /\ R \in Seq(LeaseRecord) /\ Len(R) = n + 1 /\ R[p] = x
        /\ \A j \in 1..(p - 1) : R[j] = L[j] /\ L[j].ip <= x.ip
        /\ \A j \in p..n : R[j + 1] = L[j] /\ x.ip < L[j].ip
  BY <1>2
<1> HIDE DEF later
<1>4. DOMAIN R = 1..(n + 1)
  BY <1>1, <1>3
<1>5. \A k \in 1..(n + 1) : \/ k < p /\ k \in 1..n /\ R[k] = L[k] /\ L[k].ip <= x.ip
                            \/ k = p /\ R[k] = x
                            \/ k > p /\ k - 1 \in 1..n /\ R[k] = L[k - 1] /\ x.ip < L[k - 1].ip
  <2> SUFFICES ASSUME NEW k \in 1..(n + 1), k # p
               PROVE  \/ k < p /\ k \in 1..n /\ R[k] = L[k] /\ L[k].ip <= x.ip
                      \/ k > p /\ k - 1 \in 1..n /\ R[k] = L[k - 1] /\ x.ip < L[k - 1].ip
    BY <1>3
  <2>1. CASE k < p
    BY <1>1, <1>3, <2>1
  <2>2. CASE k > p
    <3>1. k - 1 \in p..n /\ k - 1 \in 1..n /\ (k - 1) + 1 = k
      BY <1>1, <2>2
    <3>2. QED BY <1>3, <2>2, <3>1
  <2>3. QED BY <1>1, <2>1, <2>2
<1>6. Ordered(R)
  <2> SUFFICES ASSUME NEW i \in 1..(n + 1), NEW j \in 1..(n + 1), i < j
               PROVE  R[i].ip <= R[j].ip /\ R[i].mac # R[j].mac
    BY <1>4 DEF Ordered
  <2>1. \A k, l \in 1..n : k < l => L[k].ip <= L[l].ip /\ L[k].mac # L[l].mac
    BY <1>1 DEF Ordered
  <2>2. \A k \in 1..n : L[k].mac # x.mac
    BY <1>1
  <2>3. \A k \in 1..n : L[k].ip \in Nat
    BY <1>1
  <2> HIDE DEF n
  <2>4. CASE i < p /\ i \in 1..n /\ R[i] = L[i] /\ L[i].ip <= x.ip
    BY <1>1, <1>5, <2>1, <2>2, <2>3, <2>4
  <2>5. CASE i = p /\ R[i] = x
    BY <1>1, <1>5, <2>1, <2>2, <2>3, <2>5
  <2>6. CASE i > p /\ i - 1 \in 1..n /\ R[i] = L[i - 1] /\ x.ip < L[i - 1].ip
    <3>1. j > p /\ j - 1 \in 1..n /\ R[j] = L[j - 1] /\ i - 1 < j - 1
      BY <1>1, <1>5, <2>6
    <3>2. QED BY <2>1, <2>6, <3>1
  <2>7. QED BY <1>5, <2>4, <2>5, <2>6
<1>7. In(R) = In(L) \cup {x}
  <2>1. \A k \in 1..n : \E l \in 1..(n + 1) : R[l] = L[k]
    <3> SUFFICES ASSUME NEW k \in 1..n PROVE \E l \in 1..(n + 1) : R[l] = L[k]
      OBVIOUS
    <3>1. CASE k < p
      BY <1>1, <1>3, <3>1
    <3>2. CASE k >= p
      BY <1>1, <1>3, <3>2
    <3>3. QED BY <1>1, <3>1, <3>2
  <2>2. \A k \in 1..(n + 1) : R[k] = x \/ \E l \in 1..n : R[k] = L[l]
    BY <1>5
  <2>3. In(L) = {L[k] : k \in 1..n} /\ In(R) = {R[k] : k \in 1..(n + 1)} /\ R[p] = x
    BY <1>1, <1>3, <1>4 DEF In
  <2> HIDE DEF n
  <2>4. QED BY <2>1, <2>2, <2>3
<1>8. ASSUME Apart(L), \A i \in DOMAIN L : L[i].ip # x.ip PROVE Apart(R)
  <2> SUFFICES ASSUME NEW i \in 1..(n + 1), NEW j \in 1..(n + 1), i < j
               PROVE  R[i].ip < R[j].ip
    BY <1>4 DEF Apart
  <2>1. \A k, l \in 1..n : k < l => L[k].ip < L[l].ip
    BY <1>1, <1>8 DEF Apart
  <2>2. \A k \in 1..n : L[k].ip # x.ip
    BY <1>1, <1>8
  <2>3. \A k \in 1..n : L[k].ip \in Nat
    BY <1>1
  <2> HIDE DEF n
  <2>4. CASE i < p /\ i \in 1..n /\ R[i] = L[i] /\ L[i].ip <= x.ip
    BY <1>1, <1>5, <2>1, <2>2, <2>3, <2>4
  <2>5. CASE i = p /\ R[i] = x
    BY <1>1, <1>5, <2>1, <2>2, <2>3, <2>5
  <2>6. CASE i > p /\ i - 1 \in 1..n /\ R[i] = L[i - 1] /\ x.ip < L[i - 1].ip
    <3>1. j > p /\ j - 1 \in 1..n /\ R[j] = L[j - 1] /\ i - 1 < j - 1
      BY <1>1, <1>5, <2>6
    <3>2. QED BY <2>1, <2>6, <3>1
  <2>7. QED BY <1>5, <2>4, <2>5, <2>6
<1>9. QED BY <1>3, <1>6, <1>7, <1>8 DEF R

\* A node is taken out.
LEMMA RemoveKeeps ==
  ASSUME NEW L \in Seq(LeaseRecord), Ordered(L), NEW p \in DOMAIN L
  PROVE  LET R == Dhcp!NodeRemove(L, p) IN
         /\ R \in Seq(LeaseRecord) /\ Ordered(R) /\ In(R) = In(L) \ {L[p]}
         /\ Apart(L) => Apart(R)
<1> DEFINE R == Dhcp!NodeRemove(L, p)
           n == Len(L)
<1> HIDE DEF R
<1>1. n \in Nat /\ DOMAIN L = 1..n /\ p \in 1..n
  OBVIOUS
<1>2. /\ R \in Seq(LeaseRecord) /\ Len(R) = n - 1
      /\ \A j \in 1..(p - 1) : R[j] = L[j]
      /\ \A j \in p..(n - 1) : R[j] = L[j + 1]
  BY <1>1, RemoveForm DEF R
<1>3. DOMAIN R = 1..(n - 1)
  BY <1>1, <1>2
<1>4. \A k \in 1..(n - 1) : \/ k < p /\ k \in 1..n /\ R[k] = L[k]
                            \/ k >= p /\ k + 1 \in 1..n /\ R[k] = L[k + 1]
  BY <1>1, <1>2
<1>5. \A k, l \in 1..n : k < l => L[k].ip <= L[l].ip /\ L[k].mac # L[l].mac
  BY <1>1 DEF Ordered
<1>6. Ordered(R)
  <2> SUFFICES ASSUME NEW i \in 1..(n - 1), NEW j \in 1..(n - 1), i < j
               PROVE  R[i].ip <= R[j].ip /\ R[i].mac # R[j].mac
    BY <1>3 DEF Ordered
  <2>1. QED BY <1>1, <1>4, <1>5
<1>7. In(R) = In(L) \ {L[p]}
  <2>1. ASSUME NEW k \in 1..n, k # p
        PROVE  L[k] # L[p] /\ \E l \in 1..(n - 1) : R[l] = L[k]
    <3>1. CASE k < p
      BY <1>1, <1>2, <1>5, <2>1, <3>1
    <3>2. CASE k > p
      <4>1. k - 1 \in p..(n - 1) /\ k - 1 \in 1..(n - 1) /\ (k - 1) + 1 = k
        BY <1>1, <3>2
      <4>2. QED BY <1>1, <1>2, <1>5, <3>2, <4>1
    <3>3. QED BY <1>1, <2>1, <3>1, <3>2
  <2>2. ASSUME NEW k \in 1..(n - 1) PROVE \E l \in 1..n : l # p /\ R[k] = L[l]
    <3>1. CASE k < p
      <4>1. k \in 1..n /\ k # p /\ R[k] = L[k]
        BY <1>1, <1>4, <3>1
      <4>2. QED BY <4>1
    <3>2. CASE k >= p
      <4>1. k + 1 \in 1..n /\ k + 1 # p /\ R[k] = L[k + 1]
        BY <1>1, <1>4, <3>2
      <4>2. QED BY <4>1
    <3>3. QED BY <1>1, <3>1, <3>2
  <2>3. \A k \in 1..(n - 1) : R[k] # L[p]
    BY <2>1, <2>2
  <2> HIDE DEF n
  <2>4. In(L) = {L[k] : k \in 1..n} /\ In(R) = {R[k] : k \in 1..(n - 1)}
    BY <1>1, <1>3 DEF In
  <2>5. In(R) \subseteq In(L) \ {L[p]}
    BY <2>2, <2>3, <2>4
  <2>6. In(L) \ {L[p]} \subseteq In(R)
    BY <2>1, <2>4
  <2>7. QED BY <2>5, <2>6
<1>8. ASSUME Apart(L) PROVE Apart(R)
  <2> SUFFICES ASSUME NEW i \in 1..(n - 1), NEW j \in 1..(n - 1), i < j
               PROVE  R[i].ip < R[j].ip
    BY <1>3 DEF Apart
  <2>1. \A k, l \in 1..n : k < l => L[k].ip < L[l].ip
    BY <1>1, <1>8 DEF Apart
  <2>2. QED BY <1>1, <1>4, <2>1
<1>9. QED BY <1>2, <1>6, <1>7, <1>8 DEF R

\* Where the walk of client_update stops: b is the number of nodes it may pass.
LEMMA GapIs ==
  ASSUME DhcpTypes, NEW c \in DhcpClients
  PROVE  \E b \in 0..Len(leases) : \E m \in 0..b :
           /\ Dhcp!FirstGap(c) = range.lo + 10 * m
           /\ Dhcp!InOrder(m)
           /\ m < b => ~Dhcp!InOrder(m + 1)
           /\ IF Dhcp!NodesOf(c) = {} THEN b = Len(leases) ELSE b + 1 \in Dhcp!NodesOf(c)
<1> DEFINE N == Dhcp!NodesOf(c)
           b == IF N = {} THEN Len(leases) ELSE Dhcp!Min(N) - 1
           K == {k \in 0..b : Dhcp!InOrder(k)}
           m == Dhcp!Max(K)
<1>1. Len(leases) \in Nat /\ DOMAIN leases = 1..Len(leases)
  BY DEF DhcpTypes
<1>2. N \subseteq 1..Len(leases)
  BY <1>1 DEF Dhcp!NodesOf
<1> HIDE DEF N
<1>3. b \in 0..Len(leases) /\ (IF N = {} THEN b = Len(leases) ELSE b + 1 \in N)
  <2>1. CASE N = {}
    BY <1>1, <2>1
  <2>2. CASE N # {}
    <3>1. N \subseteq Nat
      BY <1>2
    <3>2. Dhcp!Min(N) \in N
      BY <2>2, <3>1, MinIs
    <3>3. b = Dhcp!Min(N) - 1
      BY <2>2
    <3>4. Dhcp!Min(N) \in 1..Len(leases)
      BY <1>2, <3>2
    <3> HIDE DEF b
    <3>5. QED BY <1>1, <2>2, <3>2, <3>3, <3>4
  <2>3. QED BY <2>1, <2>2
<1> HIDE DEF b
<1>4. Dhcp!InOrder(0)
  BY DEF Dhcp!InOrder
<1>5. K \subseteq 0..b /\ K # {} /\ b \in Nat
  <2>0. b \in Nat /\ 0 \in 0..b
    <3>1. b \in 0..Len(leases)
      BY <1>3
    <3> HIDE DEF K
    <3>2. QED BY <1>1, <3>1
  <2>1. 0 \in K
    BY <1>4, <2>0
  <2>2. QED BY <2>0, <2>1
<1> HIDE DEF K
<1>6. m \in K /\ \A y \in K : y <= m
  BY <1>5, MaxIs
<1> HIDE DEF m
<1>7. m \in 0..b /\ Dhcp!InOrder(m)
  BY <1>6 DEF K
<1>8. m < b => ~Dhcp!InOrder(m + 1)
  <2> SUFFICES ASSUME m < b, Dhcp!InOrder(m + 1) PROVE FALSE
    OBVIOUS
  <2>1. m + 1 \in K
    BY <1>5, <1>7 DEF K
  <2>2. QED BY <1>6, <1>7, <2>1
<1>9. Dhcp!FirstGap(c) = range.lo + 10 * m
  BY DEF Dhcp!FirstGap, m, K, b, N
<1>10. QED BY <1>3, <1>7, <1>8, <1>9 DEF N

\* The address a list in order offers is not another client's, and for a client that has
\* one it is in the range.
LEMMA GapFree ==
  ASSUME DhcpTypes, Ordered(leases), InRange(leases, range), NEW c \in DhcpClients
  PROVE  LET g == Dhcp!FirstGap(c) IN
         /\ \A j \in DOMAIN leases : leases[j].mac # c => leases[j].ip # g
         /\ Dhcp!NodesOf(c) # {} => g <= range.hi
         /\ \E k \in Nat : g = range.lo + 10 * k
<1> DEFINE N == Dhcp!NodesOf(c)
           n == Len(leases)
<1>0. PICK b \in 0..n : \E m \in 0..b :
           /\ Dhcp!FirstGap(c) = range.lo + 10 * m
           /\ Dhcp!InOrder(m)
           /\ m < b => ~Dhcp!InOrder(m + 1)
           /\ IF N = {} THEN b = n ELSE b + 1 \in N
  BY GapIs
<1>1. PICK m \in 0..b :
           /\ Dhcp!FirstGap(c) = range.lo + 10 * m
           /\ Dhcp!InOrder(m)
           /\ m < b => ~Dhcp!InOrder(m + 1)
           /\ IF N = {} THEN b = n ELSE b + 1 \in N
  BY <1>0
<1> HIDE DEF N
<1>2. n \in Nat /\ DOMAIN leases = 1..n /\ range.lo \in Nat /\ range.hi \in Int
  BY DEF DhcpTypes
<1>3. \A i \in 1..n : leases[i].ip \in Nat
  <2>1. \A i \in 1..n : leases[i] \in LeaseRecord
    BY DEF DhcpTypes
  <2>2. \A r \in LeaseRecord : r.ip \in Nat
    BY DEF LeaseRecord
  <2>3. QED BY <2>1, <2>2
<1>a. m \in Nat /\ b \in Nat /\ m <= b /\ b <= n
  BY <1>2
<1> HIDE DEF n
<1>4. \A i, j \in 1..n : i < j => leases[i].ip < leases[j].ip /\ leases[i].mac # leases[j].mac
  BY <1>2 DEF InRange, Apart, Ordered
<1>5. \A i \in 1..n : leases[i].ip <= range.hi /\ \E k \in Nat : leases[i].ip = range.lo + 10 * k
  BY <1>2 DEF InRange, OnRange
<1>6. \A j \in 1..m : leases[j].ip = range.lo + 10 * (j - 1)
  BY <1>1 DEF Dhcp!InOrder
<1>7. m < n => leases[m + 1].ip >= range.lo + 10 * m
  <2> SUFFICES ASSUME m < n PROVE leases[m + 1].ip >= range.lo + 10 * m
    OBVIOUS
  <2>1. m + 1 \in 1..n /\ m \in Nat
    BY <1>2, <1>a
  <2>2. PICK k \in Nat : leases[m + 1].ip = range.lo + 10 * k
    BY <1>5, <2>1
  <2>3. CASE m = 0
    BY <1>2, <2>2, <2>3
  <2>4. CASE m > 0
    <3>1. m \in 1..m /\ m \in 1..n /\ m < m + 1
      BY <1>2, <1>a, <2>1, <2>4
    <3>2. leases[m].ip < leases[m + 1].ip
      BY <1>4, <2>1, <3>1
    <3>3. leases[m].ip = range.lo + 10 * (m - 1)
      BY <1>6, <3>1
    <3>4. range.lo + 10 * (m - 1) < range.lo + 10 * k
      BY <2>2, <3>2, <3>3
    <3>5. k >= m
      BY <1>2, <2>1, <3>4
    <3>6. QED BY <1>2, <2>1, <2>2, <3>5
  <2>5. QED BY <2>1, <2>3, <2>4
<1>8. m < b => leases[m + 1].ip > range.lo + 10 * m
  <2> SUFFICES ASSUME m < b PROVE leases[m + 1].ip > range.lo + 10 * m
    OBVIOUS
  <2>1. m + 1 \in 1..n /\ m \in Nat /\ leases[m + 1].ip \in Nat
    BY <1>2, <1>3, <1>a
  <2>2. leases[m + 1].ip # range.lo + 10 * m
    <3> SUFFICES ASSUME leases[m + 1].ip = range.lo + 10 * m PROVE FALSE
      OBVIOUS
    <3>1. \A j \in 1..(m + 1) : j \in 1..m \/ j = m + 1
      BY <2>1
    <3>2. (m + 1) - 1 = m
      BY <2>1
    <3>3. Dhcp!InOrder(m + 1)
      BY <1>6, <3>1, <3>2 DEF Dhcp!InOrder
    <3>4. QED BY <1>1, <3>3
  <2>3. QED BY <1>2, <1>7, <1>a, <2>1, <2>2
<1>9. ASSUME NEW j \in 1..n, leases[j].mac # c, leases[j].ip = range.lo + 10 * m PROVE FALSE
  <2>1. CASE j <= m
    BY <1>2, <1>6, <1>9, <2>1
  <2>2. CASE j > m + 1
    <3>1. m + 1 \in 1..n /\ m < n /\ m + 1 < j
      BY <1>2, <1>a, <2>2
    <3>2. leases[m + 1].ip < leases[j].ip
      BY <1>4, <3>1
    <3>3. QED BY <1>2, <1>3, <1>7, <1>9, <1>a, <3>1, <3>2
  <2>3. CASE j = m + 1
    <3>1. ~(m < b)
      BY <1>2, <1>8, <1>9, <2>3
    <3>2. b + 1 = j /\ b # n
      BY <1>2, <1>a, <2>3, <3>1
    <3>3. b + 1 \in N
      BY <1>1, <3>2
    <3>4. QED BY <1>9, <3>2, <3>3 DEF N, Dhcp!NodesOf
  <2>4. QED BY <1>2, <1>a, <2>1, <2>2, <2>3
<1>10. ASSUME N # {} PROVE range.lo + 10 * m <= range.hi
  <2>1. b + 1 \in N /\ b + 1 \in 1..n
    BY <1>1, <1>2, <1>10 DEF N, Dhcp!NodesOf
  <2>2. m < n /\ m + 1 \in 1..n
    BY <1>2, <1>a, <2>1
  <2>3. leases[m + 1].ip <= range.hi /\ leases[m + 1].ip \in Nat
    BY <1>3, <1>5, <2>2
  <2>4. QED BY <1>2, <1>7, <1>a, <2>2, <2>3
<1>11. \A j \in DOMAIN leases : leases[j].mac # c => leases[j].ip # range.lo + 10 * m
  BY <1>2, <1>9
<1>12. QED BY <1>1, <1>10, <1>11, <1>a DEF N

\* What wifi_softap_dhcps_client_update does: refuse, renew, or put a node in its place.
LEMMA UpdateForm ==
  ASSUME DhcpTypes, NEW c \in DhcpClients, NEW a \in Nat
  PROVE  LET u == Dhcp!ClientUpdate(c, a)
             ip == IF a = Dhcp!ANY THEN Dhcp!FirstGap(c) ELSE a IN
         \/ /\ u = Dhcp!Refused
            /\ a = Dhcp!ANY => Dhcp!NodesOf(c) = {} /\ (Dhcp!Full(c) \/ Dhcp!FirstGap(c) > range.hi)
         \/ /\ u.list = leases /\ u.ip = ip /\ a # Dhcp!ANY
            /\ Lease(c, a) \in In(leases)
         \/ /\ u.ip = ip /\ (a # Dhcp!ANY => Dhcp!NodesAt(a) = {})
            /\ \/ /\ u.list = Dhcp!NodeInsert(leases, Lease(c, ip))
                  /\ Dhcp!NodesOf(c) = {} /\ ~(ip > range.hi)
               \/ \E p \in Dhcp!NodesOf(c) :
                     u.list = Dhcp!NodeInsert(Dhcp!NodeRemove(leases, p), Lease(c, ip))
<1> DEFINE u == Dhcp!ClientUpdate(c, a)
           ip == IF a = Dhcp!ANY THEN Dhcp!FirstGap(c) ELSE a
           mine == Dhcp!NodesOf(c)
           owner == IF a = Dhcp!ANY THEN {} ELSE Dhcp!NodesAt(a)
           put(list) == [list |-> Dhcp!NodeInsert(list, Lease(c, ip)), ip |-> ip, renew |-> FALSE]
<1>1. u = IF a = Dhcp!ANY /\ Dhcp!Full(c) THEN Dhcp!Refused
          ELSE IF owner # {}
               THEN IF Dhcp!Max(owner) \in mine
                    THEN [list |-> leases, ip |-> ip, renew |-> TRUE]
                    ELSE Dhcp!Refused
               ELSE IF mine # {}
                    THEN put(Dhcp!NodeRemove(leases, Dhcp!Max(mine)))
                    ELSE IF ip > range.hi THEN Dhcp!Refused ELSE put(leases)
  BY DEF Dhcp!ClientUpdate, Dhcp!ClientUpdateOr, Lease
<1>2. Len(leases) \in Nat /\ DOMAIN leases = 1..Len(leases) /\ mine \subseteq 0..Len(leases) /\ owner \subseteq 0..Len(leases)
  BY DEF DhcpTypes, Dhcp!NodesOf, Dhcp!NodesAt
<1>3. mine # {} => Dhcp!Max(mine) \in mine
  <2> HIDE DEF mine
  <2>1. QED BY <1>2, MaxIs
<1>4. owner # {} => Dhcp!Max(owner) \in owner
  <2> HIDE DEF owner
  <2>1. QED BY <1>2, MaxIs
<1> HIDE DEF u
<1>5. CASE a = Dhcp!ANY /\ Dhcp!Full(c)
  <2>1. u = Dhcp!Refused /\ Dhcp!NodesOf(c) = {}
    BY <1>1, <1>5 DEF Dhcp!Full
  <2>2. QED BY <1>5, <2>1 DEF u
<1>6. CASE ~(a = Dhcp!ANY /\ Dhcp!Full(c)) /\ owner # {} /\ Dhcp!Max(owner) \in mine
  <2>1. u = [list |-> leases, ip |-> ip, renew |-> TRUE] /\ a # Dhcp!ANY
    BY <1>1, <1>6
  <2>2. PICK i \in DOMAIN leases : leases[i].mac = c /\ leases[i].ip = a
    BY <1>4, <1>6, <2>1 DEF Dhcp!NodesOf, Dhcp!NodesAt
  <2>3. leases[i] = Lease(c, a)
    <3>1. leases[i] \in LeaseRecord
      BY DEF DhcpTypes
    <3>2. leases[i] = [mac |-> leases[i].mac, ip |-> leases[i].ip]
      BY <3>1 DEF LeaseRecord
    <3>3. QED BY <2>2, <3>2 DEF Lease
  <2>4. Lease(c, a) \in In(leases)
    BY <2>2, <2>3 DEF In
  <2>5. u.list = leases /\ u.ip = ip
    BY <2>1
  <2>6. QED BY <2>1, <2>4, <2>5 DEF u
<1>7. CASE ~(a = Dhcp!ANY /\ Dhcp!Full(c)) /\ owner # {} /\ Dhcp!Max(owner) \notin mine
  BY <1>1, <1>7 DEF u
<1>8. CASE ~(a = Dhcp!ANY /\ Dhcp!Full(c)) /\ owner = {} /\ mine # {}
  <2>1. u = put(Dhcp!NodeRemove(leases, Dhcp!Max(mine)))
    BY <1>1, <1>8
  <2>2. u.ip = ip /\ u.list = Dhcp!NodeInsert(Dhcp!NodeRemove(leases, Dhcp!Max(mine)), Lease(c, ip))
    BY <2>1
  <2>3. a # Dhcp!ANY => Dhcp!NodesAt(a) = {}
    BY <1>8
  <2>4. QED BY <1>3, <1>8, <2>2, <2>3 DEF u
<1>9. CASE ~(a = Dhcp!ANY /\ Dhcp!Full(c)) /\ owner = {} /\ mine = {} /\ ip > range.hi
  <2>1. u = Dhcp!Refused
    BY <1>1, <1>9
  <2>2. QED BY <1>9, <2>1 DEF u
<1>10. CASE ~(a = Dhcp!ANY /\ Dhcp!Full(c)) /\ owner = {} /\ mine = {} /\ ~(ip > range.hi)
  <2>1. u = put(leases)
    BY <1>1, <1>10
  <2>2. u.ip = ip /\ u.list = Dhcp!NodeInsert(leases, Lease(c, ip))
    BY <2>1
  <2>3. a # Dhcp!ANY => Dhcp!NodesAt(a) = {}
    BY <1>10
  <2>4. QED BY <1>10, <2>2, <2>3 DEF u
<1>11. QED BY <1>5, <1>6, <1>7, <1>8, <1>9, <1>10

\* The node in the list under that address is another's or none: the new list.
LEMMA PutKeeps ==
  ASSUME DhcpTypes, Ordered(leases), NEW c \in DhcpClients, NEW ip \in Nat, NEW L,
         \/ /\ L = Dhcp!NodeInsert(leases, Lease(c, ip)) /\ Dhcp!NodesOf(c) = {}
         \/ \E p \in Dhcp!NodesOf(c) :
               L = Dhcp!NodeInsert(Dhcp!NodeRemove(leases, p), Lease(c, ip))
  PROVE  /\ L \in Seq(LeaseRecord) /\ Ordered(L)
         /\ \A r \in LeaseRecord : r.mac # c => (r \in In(L) <=> r \in In(leases))
         /\ Lease(c, ip) \in In(L)
         /\ \A r \in In(L) : r = Lease(c, ip) \/ r \in In(leases)
         /\ Apart(leases) /\ (\A j \in DOMAIN leases : leases[j].mac # c => leases[j].ip # ip) => Apart(L)
<1> DEFINE x == Lease(c, ip)
<1>1. x \in LeaseRecord /\ x.mac = c /\ x.ip = ip
  BY DEF Lease, LeaseRecord
<1>2. leases \in Seq(LeaseRecord)
  BY DEF DhcpTypes
<1>3. PICK base :
        /\ L = Dhcp!NodeInsert(base, x) /\ base \in Seq(LeaseRecord) /\ Ordered(base)
        /\ \A i \in DOMAIN base : base[i].mac # c
        /\ In(base) \subseteq In(leases)
        /\ \A r \in In(leases) : r.mac # c => r \in In(base)
        /\ Apart(leases) => Apart(base)
  <2>1. CASE L = Dhcp!NodeInsert(leases, x) /\ Dhcp!NodesOf(c) = {}
    BY <1>2, <2>1 DEF Dhcp!NodesOf
  <2>2. ASSUME NEW p \in Dhcp!NodesOf(c), L = Dhcp!NodeInsert(Dhcp!NodeRemove(leases, p), x)
        PROVE  \E base :
                 /\ L = Dhcp!NodeInsert(base, x) /\ base \in Seq(LeaseRecord) /\ Ordered(base)
                 /\ \A i \in DOMAIN base : base[i].mac # c
                 /\ In(base) \subseteq In(leases)
                 /\ \A r \in In(leases) : r.mac # c => r \in In(base)
                 /\ Apart(leases) => Apart(base)
    <3> DEFINE B == Dhcp!NodeRemove(leases, p)
    <3>1. p \in DOMAIN leases /\ leases[p].mac = c
      BY DEF Dhcp!NodesOf
    <3>2. B \in Seq(LeaseRecord) /\ Ordered(B) /\ In(B) = In(leases) \ {leases[p]} /\ (Apart(leases) => Apart(B))
      BY <1>2, <3>1, RemoveKeeps
    <3> HIDE DEF B
    <3>3. \A i \in DOMAIN B : B[i] \in In(B)
      BY DEF In
    <3>4. \A r \in In(leases) : r.mac = c => r = leases[p]
      <4> SUFFICES ASSUME NEW i \in DOMAIN leases, leases[i].mac = c PROVE leases[i] = leases[p]
        BY DEF In
      <4>1. DOMAIN leases \subseteq Nat
        BY <1>2
      <4>2. ~(i < p) /\ ~(p < i)
        BY <3>1 DEF Ordered
      <4>3. i = p
        BY <3>1, <4>1, <4>2
      <4>4. QED BY <4>3
    <3>5. \A i \in DOMAIN B : B[i].mac # c
      BY <3>2, <3>3, <3>4
    <3>6. \A r \in In(leases) : r.mac # c => r \in In(B)
      BY <3>1, <3>2
    <3>7. L = Dhcp!NodeInsert(B, x)
      BY <2>2 DEF B
    <3>8. QED BY <3>2, <3>5, <3>6, <3>7
  <2>3. QED BY <2>1, <2>2
<1> HIDE DEF x
<1>4. L \in Seq(LeaseRecord) /\ Ordered(L) /\ In(L) = In(base) \cup {x}
  BY <1>1, <1>3, InsertKeeps
<1>5. \A r \in LeaseRecord : r.mac # c => (r \in In(L) <=> r \in In(leases))
  BY <1>1, <1>3, <1>4
<1>6. ASSUME Apart(leases), \A j \in DOMAIN leases : leases[j].mac # c => leases[j].ip # ip
      PROVE  Apart(L)
  <2>1. \A i \in DOMAIN base : base[i].ip # x.ip
    <3> SUFFICES ASSUME NEW i \in DOMAIN base PROVE base[i].ip # ip
      BY <1>1
    <3>1. base[i] \in In(leases) /\ base[i].mac # c
      BY <1>3 DEF In
    <3>2. QED BY <1>6, <3>1 DEF In
  <2>2. Apart(base)
    BY <1>3, <1>6
  <2>3. QED BY <1>1, <1>3, <2>1, <2>2, InsertKeeps
<1>7. QED BY <1>3, <1>4, <1>5, <1>6 DEF x

\* What an update of one client leaves in the list.
LEMMA UpdateKeeps ==
  ASSUME DhcpTypes, Ordered(leases), NEW c \in DhcpClients, NEW a \in Nat
  PROVE  LET u == Dhcp!ClientUpdate(c, a) IN
         /\ u.list \in Seq(LeaseRecord) /\ Ordered(u.list) /\ u.ip \in Nat
         /\ \A r \in LeaseRecord : r.mac # c => (r \in In(u.list) <=> r \in In(leases))
         /\ u.ip # Dhcp!ANY => Lease(c, u.ip) \in In(u.list)
         /\ InRange(leases, range) /\ (a = Dhcp!ANY \/ Lease(c, a) \in In(leases))
              => InRange(u.list, range)
<1> DEFINE u == Dhcp!ClientUpdate(c, a)
           ip == IF a = Dhcp!ANY THEN Dhcp!FirstGap(c) ELSE a
<1>1. leases \in Seq(LeaseRecord) /\ range.lo \in Nat
  BY DEF DhcpTypes
<1>2. ip \in Nat
  BY <1>1, GapIs
<1>3. \/ u = Dhcp!Refused
      \/ /\ u.list = leases /\ u.ip = ip /\ a # Dhcp!ANY
         /\ Lease(c, a) \in In(leases)
      \/ /\ u.ip = ip /\ (a # Dhcp!ANY => Dhcp!NodesAt(a) = {})
         /\ \/ /\ u.list = Dhcp!NodeInsert(leases, Lease(c, ip))
               /\ Dhcp!NodesOf(c) = {} /\ ~(ip > range.hi)
            \/ \E p \in Dhcp!NodesOf(c) :
                  u.list = Dhcp!NodeInsert(Dhcp!NodeRemove(leases, p), Lease(c, ip))
  BY UpdateForm
<1> HIDE DEF u
<1>4. CASE u = Dhcp!Refused
  <2>1. u.list = leases /\ u.ip = Dhcp!ANY /\ Dhcp!ANY \in Nat
    BY <1>4 DEF Dhcp!Refused, Dhcp!ANY
  <2>2. QED BY <1>1, <2>1 DEF u
<1>5. CASE u.list = leases /\ u.ip = ip /\ a # Dhcp!ANY /\ Lease(c, a) \in In(leases)
  BY <1>1, <1>5 DEF u
<1>6. CASE /\ u.ip = ip /\ (a # Dhcp!ANY => Dhcp!NodesAt(a) = {})
           /\ \/ /\ u.list = Dhcp!NodeInsert(leases, Lease(c, ip))
                 /\ Dhcp!NodesOf(c) = {} /\ ~(ip > range.hi)
              \/ \E p \in Dhcp!NodesOf(c) :
                    u.list = Dhcp!NodeInsert(Dhcp!NodeRemove(leases, p), Lease(c, ip))
  <2> DEFINE L == u.list
  <2>1. /\ L \in Seq(LeaseRecord) /\ Ordered(L)
        /\ \A r \in LeaseRecord : r.mac # c => (r \in In(L) <=> r \in In(leases))
        /\ Lease(c, ip) \in In(L)
        /\ \A r \in In(L) : r = Lease(c, ip) \/ r \in In(leases)
        /\ Apart(leases) /\ (\A j \in DOMAIN leases : leases[j].mac # c => leases[j].ip # ip) => Apart(L)
    <3> HIDE DEF ip
    <3>1. QED BY <1>2, <1>6, PutKeeps
  <2>2. ASSUME InRange(leases, range), a = Dhcp!ANY \/ Lease(c, a) \in In(leases)
        PROVE  InRange(L, range)
    <3>1. a = Dhcp!ANY
      <4> SUFFICES ASSUME a # Dhcp!ANY PROVE FALSE
        OBVIOUS
      <4>1. PICK i \in DOMAIN leases : leases[i] = Lease(c, a)
        BY <2>2 DEF In
      <4>2. i \in Dhcp!NodesAt(a)
        BY <4>1 DEF Dhcp!NodesAt, Lease
      <4>3. QED BY <1>6, <4>2
    <3>2. /\ \A j \in DOMAIN leases : leases[j].mac # c => leases[j].ip # ip
          /\ Dhcp!NodesOf(c) # {} => ip <= range.hi
          /\ \E k \in Nat : ip = range.lo + 10 * k
      BY <2>2, <3>1, GapFree
    <3>3. range.hi \in Int
      BY DEF DhcpTypes
    <3> HIDE DEF ip, L
    <3>4. ip <= range.hi
      BY <1>2, <1>6, <3>2, <3>3
    <3>5. OnRange(ip, range)
      BY <3>2, <3>4 DEF OnRange
    <3>6. Apart(L)
      BY <2>1, <2>2, <3>2 DEF InRange
    <3>7. \A r \in In(L) : OnRange(r.ip, range)
      <4>1. \A r \in In(leases) : OnRange(r.ip, range)
        BY <2>2 DEF InRange, In
      <4>2. Lease(c, ip).ip = ip
        BY DEF Lease
      <4>3. QED BY <2>1, <3>5, <4>1, <4>2
    <3>8. \A i \in DOMAIN L : L[i] \in In(L)
      BY DEF In
    <3>9. QED BY <3>6, <3>7, <3>8 DEF InRange
  <2> HIDE DEF ip
  <2>3. QED BY <1>2, <1>6, <2>1, <2>2 DEF u
<1>7. QED BY <1>3, <1>4, <1>5, <1>6

\* The list after a message: a release also takes the client's node out.
AfterMessage(c, a, ret) ==
  LET list == Dhcp!ClientUpdate(c, a).list IN
  IF ret = "release" THEN Dhcp!ClientLeave(list, c, a) ELSE list

\* What a message of one client leaves in the list.
LEMMA MessageKeeps ==
  ASSUME DhcpTypes, Ordered(leases), NEW c \in DhcpClients, NEW a \in Nat, NEW ret
  PROVE  LET L == AfterMessage(c, a, ret) IN
         /\ L \in Seq(LeaseRecord) /\ Ordered(L)
         /\ \A r \in LeaseRecord : r.mac # c => (r \in In(L) <=> r \in In(leases))
         /\ InRange(leases, range) /\ (a = Dhcp!ANY \/ Lease(c, a) \in In(leases)) => InRange(L, range)
<1> DEFINE u == Dhcp!ClientUpdate(c, a)
           L == AfterMessage(c, a, ret)
<1>0. L = u.list \/ L = Dhcp!ClientLeave(u.list, c, a)
  BY DEF AfterMessage
<1>1. /\ u.list \in Seq(LeaseRecord) /\ Ordered(u.list)
      /\ \A r \in LeaseRecord : r.mac # c => (r \in In(u.list) <=> r \in In(leases))
      /\ InRange(leases, range) /\ (a = Dhcp!ANY \/ Lease(c, a) \in In(leases)) => InRange(u.list, range)
  BY UpdateKeeps
<1> HIDE DEF u
<1> DEFINE U == u.list
           node == {i \in DOMAIN U : U[i].mac = c /\ U[i].ip = a}
<1>2. CASE L = U
  BY <1>1, <1>2
<1>3. CASE L = Dhcp!ClientLeave(U, c, a) /\ node # {}
  <2>1. DOMAIN U \subseteq Nat
    BY <1>1
  <2>2. node \subseteq Nat
    BY <2>1
  <2> DEFINE p == Dhcp!Min(node)
  <2>3. p \in node
    <3> HIDE DEF node
    <3>1. QED BY <1>3, <2>2, MinIs
  <2>4. L = Dhcp!NodeRemove(U, p)
    BY <1>3 DEF Dhcp!ClientLeave
  <2>5. p \in DOMAIN U /\ U[p].mac = c
    BY <2>3
  <2> HIDE DEF p, node, U
  <2>6. /\ L \in Seq(LeaseRecord) /\ Ordered(L) /\ In(L) = In(U) \ {U[p]} /\ (Apart(U) => Apart(L))
    BY <1>1, <2>4, <2>5, RemoveKeeps DEF U
  <2>7. \A r \in LeaseRecord : r.mac # c => (r \in In(L) <=> r \in In(leases))
    BY <1>1, <2>5, <2>6 DEF U
  <2>8. ASSUME InRange(U, range) PROVE InRange(L, range)
    <3>1. \A r \in In(U) : OnRange(r.ip, range)
      BY <2>8 DEF InRange, In
    <3>2. \A i \in DOMAIN L : L[i] \in In(L)
      BY DEF In
    <3>3. QED BY <2>6, <2>8, <3>1, <3>2 DEF InRange
  <2>9. QED BY <1>1, <2>6, <2>7, <2>8 DEF U
<1>4. CASE L = Dhcp!ClientLeave(U, c, a) /\ node = {}
  <2>1. L = U
    BY <1>4 DEF Dhcp!ClientLeave
  <2>2. QED BY <1>2, <2>1
<1>5. QED BY <1>0, <1>2, <1>3, <1>4 DEF u

-----------------------------------------------------------------------------
(* The messages. *)

Believed == [st : {"none", "offered", "bound"}, ip : Nat]

\* A message keeps the invariant if it renews what its client has or comes with a foreign
\* address, and if its client is left with what is in the list.
LEMMA MessageInv ==
  ASSUME DhcpInv, NEW c \in DhcpClients, NEW a \in Nat, NEW ret, Dhcp!Listening,
         leases' = AfterMessage(c, a, ret),
         UNCHANGED <<range, pcb, orphan, apAddr, apLink, setCmd>>,
         taint' = taint \/ taint' = taint \cup {"foreign"},
         Undisturbed /\ Undisturbed' => a = Dhcp!ANY \/ Lease(c, a) \in In(leases),
         NEW b \in Believed, clients' = [clients EXCEPT ![c] = b],
         Undisturbed /\ b.st = "bound" => Lease(c, b.ip) \in In(leases')
  PROVE  DhcpInv'
<1>1. /\ leases' \in Seq(LeaseRecord) /\ Ordered(leases')
      /\ \A r \in LeaseRecord : r.mac # c => (r \in In(leases') <=> r \in In(leases))
      /\ InRange(leases, range) /\ (a = Dhcp!ANY \/ Lease(c, a) \in In(leases)) => InRange(leases', range)
  BY MessageKeeps DEF DhcpInv
<1>2. /\ clients \in [DhcpClients -> Believed] /\ clients' \in [DhcpClients -> Believed]
      /\ clients'[c] = b /\ \A d \in DhcpClients \ {c} : clients'[d] = clients[d]
  BY DEF DhcpInv, DhcpTypes, Believed
<1>3. taint' \in SUBSET {"foreign", "restart", "static", "race"} /\ taint \subseteq taint'
      /\ (taint' = taint \/ ~Undisturbed')
  BY DEF DhcpInv, DhcpTypes, Undisturbed
<1>4. DhcpTypes'
  BY <1>1, <1>2, <1>3 DEF DhcpInv, DhcpTypes, Believed
<1>5. RangeSet'
  BY DEF DhcpInv, RangeSet, Dhcp!Listening
<1>6. OneServer'
  BY <1>3 DEF DhcpInv, OneServer, Raced, Dhcp!Listening
<1>7. OwnOutside'
  BY <1>3 DEF DhcpInv, OwnOutside
<1>8. ASSUME Undisturbed' PROVE InRange(leases, range)' /\ BoundLeased'
  <2>1. Undisturbed
    BY <1>3, <1>8 DEF Undisturbed
  <2>2. InRange(leases, range)'
    BY <1>1, <1>8, <2>1 DEF DhcpInv
  <2>3. ASSUME NEW d \in DhcpClients, clients'[d].st = "bound"
        PROVE  Lease(d, clients'[d].ip) \in In(leases')
    <3>1. CASE d = c
      BY <1>2, <2>1, <2>3, <3>1
    <3>2. CASE d # c
      <4>1. Lease(d, clients[d].ip) \in In(leases)
        BY <1>2, <2>1, <2>3, <3>2 DEF DhcpInv, BoundLeased
      <4>2. clients[d].ip \in Nat
        BY <1>2 DEF Believed
      <4>3. Lease(d, clients[d].ip) \in LeaseRecord /\ Lease(d, clients[d].ip).mac # c
        BY <3>2, <4>2 DEF Lease, LeaseRecord
      <4>4. QED BY <1>1, <1>2, <3>2, <4>1, <4>3
    <3>3. QED BY <3>1, <3>2
  <2>4. QED BY <2>2, <2>3 DEF BoundLeased
<1>9. Ordered(leases)'
  BY <1>1
<1>10. QED BY <1>4, <1>5, <1>6, <1>7, <1>8, <1>9 DEF DhcpInv

\* A message with the address the client has changes nothing in a list in order.
LEMMA RenewsIts ==
  ASSUME DhcpTypes, NEW c \in DhcpClients, NEW a \in Nat, a # Dhcp!ANY, Lease(c, a) \in In(leases)
  PROVE  Dhcp!ClientUpdate(c, a).list = leases
<1> DEFINE u == Dhcp!ClientUpdate(c, a)
<1>1. PICK i \in DOMAIN leases : leases[i] = Lease(c, a)
  BY DEF In
<1>2. i \in Dhcp!NodesAt(a)
  BY <1>1 DEF Dhcp!NodesAt, Lease
<1>3. u = Dhcp!Refused \/ u.list = leases
  BY <1>2, UpdateForm
<1>4. QED BY <1>3 DEF Dhcp!Refused

\* What a bound client has in a list in order is an address.
LEMMA BoundHas ==
  ASSUME DhcpInv, Dhcp!Listening, Undisturbed, NEW c \in DhcpClients, clients[c].st = "bound"
  PROVE  Lease(c, clients[c].ip) \in In(leases) /\ clients[c].ip # Dhcp!ANY
<1>1. Lease(c, clients[c].ip) \in In(leases)
  BY DEF DhcpInv, BoundLeased
<1>2. PICK i \in DOMAIN leases : leases[i] = Lease(c, clients[c].ip)
  BY <1>1 DEF In
<1>3. leases[i].ip = clients[c].ip
  BY <1>2 DEF Lease
<1>4. PICK k \in Nat : leases[i].ip = range.lo + 10 * k
  BY DEF DhcpInv, InRange, OnRange
<1>5. range.lo \in Nat /\ range.lo > 0
  BY DEF DhcpInv, RangeSet, DhcpTypes
<1>6. QED BY <1>1, <1>3, <1>4, <1>5 DEF Dhcp!ANY

\* The messages, one by one.
LEMMA DiscoverKeeps ==
  ASSUME DhcpInv, NEW c \in DhcpClients, Dhcp!Discover(c)
  PROVE  DhcpInv'
<1> DEFINE u == Dhcp!ClientUpdate(c, Dhcp!ANY)
<1>1. /\ Dhcp!Listening /\ leases' = u.list
      /\ UNCHANGED <<range, pcb, orphan, apAddr, apLink, setCmd>>
      /\ UNCHANGED taint
  BY DEF Dhcp!Discover, Dhcp!HandleDhcp, Dhcp!ParseMsg, Dhcp!ParseOptions, Dhcp!Msg, Dhcp!ANY
<1>2. \/ clients' = [clients EXCEPT ![c] = [st |-> "none", ip |-> Dhcp!ANY]]
      \/ clients' = [clients EXCEPT ![c] = [st |-> "offered", ip |-> u.ip]]
  BY DEF Dhcp!Discover, Dhcp!HandleDhcp, Dhcp!ParseMsg, Dhcp!ParseOptions, Dhcp!Msg, Dhcp!ANY,
         Dhcp!Believes, Dhcp!SendOffer, Dhcp!NoReply, Dhcp!CreateMsg
<1>3. u.ip \in Nat /\ Dhcp!ANY \in Nat
  BY UpdateKeeps DEF DhcpInv, Dhcp!ANY
<1> HIDE DEF u
<1>4. PICK b \in Believed : clients' = [clients EXCEPT ![c] = b] /\ b.st # "bound"
  <2>1. [st |-> "none", ip |-> Dhcp!ANY] \in Believed /\ [st |-> "offered", ip |-> u.ip] \in Believed
    BY <1>3 DEF Believed
  <2>2. QED BY <1>2, <2>1
<1>5. QED BY <1>1, <1>3, <1>4, MessageInv DEF AfterMessage, u

\* A client asks for what it was offered.
LEMMA RequestKeeps ==
  ASSUME DhcpInv, NEW c \in DhcpClients, Dhcp!Request(c)
  PROVE  DhcpInv'
<1> DEFINE u == Dhcp!ClientUpdate(c, Dhcp!ANY)
<1>1. /\ Dhcp!Listening /\ leases' = u.list /\ clients[c].st = "offered"
      /\ UNCHANGED <<range, pcb, orphan, apAddr, apLink, setCmd>>
      /\ UNCHANGED taint
  BY DEF Dhcp!Request, Dhcp!HandleDhcp, Dhcp!ParseMsg, Dhcp!ParseOptions, Dhcp!Msg, Dhcp!ANY
<1>2. /\ u.ip \in Nat /\ Dhcp!ANY \in Nat
      /\ u.ip # Dhcp!ANY => Lease(c, u.ip) \in In(u.list)
      /\ clients \in [DhcpClients -> Believed]
  BY UpdateKeeps DEF DhcpInv, Dhcp!ANY, DhcpTypes, Believed
<1>3. \/ clients' = clients
      \/ clients' = [clients EXCEPT ![c] = [st |-> "none", ip |-> Dhcp!ANY]]
      \/ clients' = [clients EXCEPT ![c] = [st |-> "bound", ip |-> u.ip]] /\ u.ip # Dhcp!ANY
  <2> DEFINE m == Dhcp!Msg("request", Dhcp!ANY, clients[c].ip)
             ret == Dhcp!ParseOptions(m, u)
  <2>1. ret \in {"ack", "nak"} /\ (ret = "ack" => u.ip # Dhcp!ANY \/ u.renew)
    BY DEF Dhcp!ParseOptions, Dhcp!Msg
  <2>2. ~u.renew
    BY DEF Dhcp!ClientUpdate, Dhcp!ClientUpdateOr, Dhcp!Refused
  <2>3. \E reply \in CASE ret = "offer" -> Dhcp!SendOffer(u.ip)
                         [] ret = "ack"   -> Dhcp!SendAck(u.ip)
                         [] ret = "nak"   -> Dhcp!SendNak(u.ip)
                         [] OTHER         -> {Dhcp!NoReply} :
          CASE reply.type = "ack" -> Dhcp!Believes(c, "bound", reply.yiaddr)
            [] reply.type = "nak" -> Dhcp!Believes(c, "none", Dhcp!ANY)
            [] OTHER              -> UNCHANGED clients
    BY DEF Dhcp!Request, Dhcp!HandleDhcp, Dhcp!Msg, Dhcp!ANY
  <2> HIDE DEF ret, u
  <2>4. CASE ret = "ack"
    <3>1. \E reply \in Dhcp!SendAck(u.ip) :
          CASE reply.type = "ack" -> Dhcp!Believes(c, "bound", reply.yiaddr)
            [] reply.type = "nak" -> Dhcp!Believes(c, "none", Dhcp!ANY)
            [] OTHER              -> UNCHANGED clients
      BY <2>3, <2>4
    <3>2. QED BY <2>1, <2>2, <2>4, <3>1 DEF Dhcp!SendAck, Dhcp!NoReply, Dhcp!CreateMsg, Dhcp!Believes
  <2>5. CASE ret = "nak"
    <3>1. \E reply \in Dhcp!SendNak(u.ip) :
          CASE reply.type = "ack" -> Dhcp!Believes(c, "bound", reply.yiaddr)
            [] reply.type = "nak" -> Dhcp!Believes(c, "none", Dhcp!ANY)
            [] OTHER              -> UNCHANGED clients
      BY <2>3, <2>5
    <3>2. QED BY <3>1 DEF Dhcp!SendNak, Dhcp!NoReply, Dhcp!CreateMsg, Dhcp!Believes
  <2>6. QED BY <2>1, <2>4, <2>5
<1> HIDE DEF u
<1>4. PICK b \in Believed : /\ clients' = [clients EXCEPT ![c] = b]
                            /\ b.st = "bound" => Lease(c, b.ip) \in In(leases')
  <2>1. CASE clients' = clients
    <3>1. clients[c] \in Believed /\ clients[c].st # "bound" /\ clients' = [clients EXCEPT ![c] = clients[c]]
      BY <1>1, <1>2, <2>1
    <3>2. QED BY <3>1
  <2>2. CASE clients' = [clients EXCEPT ![c] = [st |-> "none", ip |-> Dhcp!ANY]]
    <3>1. [st |-> "none", ip |-> Dhcp!ANY] \in Believed /\ [st |-> "none", ip |-> Dhcp!ANY].st # "bound"
      BY <1>2 DEF Believed
    <3>2. QED BY <2>2, <3>1
  <2>3. CASE clients' = [clients EXCEPT ![c] = [st |-> "bound", ip |-> u.ip]] /\ u.ip # Dhcp!ANY
    <3>1. [st |-> "bound", ip |-> u.ip] \in Believed /\ [st |-> "bound", ip |-> u.ip].ip = u.ip
      BY <1>2 DEF Believed
    <3>2. Lease(c, u.ip) \in In(leases')
      BY <1>1, <1>2, <2>3
    <3>3. QED BY <2>3, <3>1, <3>2
  <2>4. QED BY <1>3, <2>1, <2>2, <2>3
<1>5. QED BY <1>1, <1>2, <1>4, MessageInv DEF AfterMessage, u

\* A client asks again for the address it uses.
LEMMA RenewKeeps ==
  ASSUME DhcpInv, NEW c \in DhcpClients, Dhcp!Renew(c)
  PROVE  DhcpInv'
<1> DEFINE a == clients[c].ip
           u == Dhcp!ClientUpdate(c, a)
<1>1. /\ Dhcp!Listening /\ leases' = u.list /\ clients[c].st = "bound"
      /\ UNCHANGED <<range, pcb, orphan, apAddr, apLink, setCmd>>
      /\ UNCHANGED taint
  BY DEF Dhcp!Renew, Dhcp!HandleDhcp, Dhcp!ParseMsg, Dhcp!ParseOptions, Dhcp!Msg, Dhcp!ANY
<1>2. /\ clients \in [DhcpClients -> Believed] /\ a \in Nat /\ Dhcp!ANY \in Nat
  BY DEF DhcpInv, Dhcp!ANY, DhcpTypes, Believed
<1>3. \/ clients' = clients
      \/ clients' = [clients EXCEPT ![c] = [st |-> "none", ip |-> Dhcp!ANY]]
  BY DEF Dhcp!Renew, Dhcp!HandleDhcp, Dhcp!Believes
<1>4. Undisturbed => Lease(c, a) \in In(leases) /\ Lease(c, a) \in In(leases')
  <2> SUFFICES ASSUME Undisturbed PROVE Lease(c, a) \in In(leases) /\ Lease(c, a) \in In(leases')
    OBVIOUS
  <2>1. Lease(c, a) \in In(leases) /\ a # Dhcp!ANY
    BY <1>1, BoundHas
  <2> HIDE DEF a
  <2>2. u.list = leases
    BY <1>2, <2>1, RenewsIts DEF DhcpInv
  <2>3. QED BY <1>1, <2>1, <2>2
<1> HIDE DEF u
<1>5. PICK b \in Believed : /\ clients' = [clients EXCEPT ![c] = b]
                            /\ b.st = "bound" => b.ip = a
  <2>1. CASE clients' = clients
    <3>1. clients[c] \in Believed /\ clients' = [clients EXCEPT ![c] = clients[c]]
      BY <1>2, <2>1
    <3>2. QED BY <3>1
  <2>2. CASE clients' = [clients EXCEPT ![c] = [st |-> "none", ip |-> Dhcp!ANY]]
    <3>1. [st |-> "none", ip |-> Dhcp!ANY] \in Believed /\ [st |-> "none", ip |-> Dhcp!ANY].st # "bound"
      BY <1>2 DEF Believed
    <3>2. QED BY <2>2, <3>1
  <2>3. QED BY <1>3, <2>1, <2>2
<1>6. Undisturbed /\ b.st = "bound" => Lease(c, b.ip) \in In(leases')
  BY <1>4, <1>5
<1> HIDE DEF a
<1>7. QED BY <1>1, <1>2, <1>4, <1>5, <1>6, MessageInv DEF AfterMessage, u

\* A client gives its address back.
LEMMA ReleaseKeeps ==
  ASSUME DhcpInv, NEW c \in DhcpClients, Dhcp!Release(c)
  PROVE  DhcpInv'
<1> DEFINE a == clients[c].ip
           u == Dhcp!ClientUpdate(c, a)
<1>1. /\ Dhcp!Listening /\ leases' = Dhcp!ClientLeave(u.list, c, a) /\ clients[c].st = "bound"
      /\ UNCHANGED <<range, pcb, orphan, apAddr, apLink, setCmd>>
      /\ UNCHANGED taint
  BY DEF Dhcp!Release, Dhcp!HandleDhcp, Dhcp!ParseMsg, Dhcp!ParseOptions, Dhcp!Msg, Dhcp!ANY
<1>2. /\ clients \in [DhcpClients -> Believed] /\ a \in Nat /\ Dhcp!ANY \in Nat
  BY DEF DhcpInv, Dhcp!ANY, DhcpTypes, Believed
<1>3. clients' = [clients EXCEPT ![c] = [st |-> "none", ip |-> Dhcp!ANY]]
  BY DEF Dhcp!Release, Dhcp!HandleDhcp, Dhcp!Believes
<1>4. Undisturbed => Lease(c, a) \in In(leases)
  BY <1>1, BoundHas
<1> DEFINE b == [st |-> "none", ip |-> Dhcp!ANY]
<1>5. b \in Believed /\ b.st # "bound"
  BY <1>2 DEF Believed
<1> HIDE DEF a, u, b
<1>6. leases' = IF "release" = "release" THEN Dhcp!ClientLeave(u.list, c, a) ELSE u.list
  BY <1>1
<1>7. QED BY <1>1, <1>2, <1>3, <1>4, <1>5, <1>6, MessageInv DEF AfterMessage, u, b

\* A client refuses what it was offered.
LEMMA DeclineKeeps ==
  ASSUME DhcpInv, NEW c \in DhcpClients, Dhcp!Decline(c)
  PROVE  DhcpInv'
<1> DEFINE u == Dhcp!ClientUpdate(c, Dhcp!ANY)
           b == [st |-> "none", ip |-> Dhcp!ANY]
<1>1. /\ Dhcp!Listening /\ leases' = u.list
      /\ UNCHANGED <<range, pcb, orphan, apAddr, apLink, setCmd>>
      /\ UNCHANGED taint
  BY DEF Dhcp!Decline, Dhcp!HandleDhcp, Dhcp!ParseMsg, Dhcp!ParseOptions, Dhcp!Msg, Dhcp!ANY
<1>2. clients' = [clients EXCEPT ![c] = b]
  BY DEF Dhcp!Decline, Dhcp!HandleDhcp, Dhcp!Believes
<1>3. Dhcp!ANY \in Nat /\ b \in Believed /\ b.st # "bound"
  BY DEF Believed, Dhcp!ANY
<1> HIDE DEF u, b
<1>4. QED BY <1>1, <1>2, <1>3, MessageInv DEF AfterMessage, u

\* A client comes with an address of its own.
LEMMA InformKeeps ==
  ASSUME DhcpInv, NEW c \in DhcpClients, NEW a \in Foreign, Dhcp!Inform(c, a)
  PROVE  DhcpInv'
<1> DEFINE u == Dhcp!ClientUpdate(c, a)
<1>1. /\ Dhcp!Listening /\ leases' = u.list /\ clients' = clients /\ clients[c].st = "none"
      /\ UNCHANGED <<range, pcb, orphan, apAddr, apLink, setCmd>>
      /\ taint' = taint \cup {"foreign"}
  BY DEF Dhcp!Inform, Dhcp!HandleDhcp, Dhcp!ParseMsg, Dhcp!ParseOptions, Dhcp!Msg, Dhcp!ANY
<1>2. ~Undisturbed' /\ a \in Nat
  BY <1>1, TerminalAssumption DEF Undisturbed
<1>3. PICK b \in Believed : clients' = [clients EXCEPT ![c] = b] /\ b.st # "bound"
  <2>1. clients \in [DhcpClients -> Believed]
    BY DEF DhcpInv, DhcpTypes, Believed
  <2>2. clients[c] \in Believed /\ clients' = [clients EXCEPT ![c] = clients[c]]
    BY <1>1, <2>1
  <2>3. QED BY <1>1, <2>2
<1> HIDE DEF u
<1>4. QED BY <1>1, <1>2, <1>3, MessageInv DEF AfterMessage, u

-----------------------------------------------------------------------------
(* Starting and stopping. *)

RangeRecord == [enable : BOOLEAN, lo : Nat, hi : Int]

\* A larger number is not a smaller ten.
LEMMA Tens ==
  ASSUME NEW m \in Nat, NEW n \in Nat, m <= n
  PROVE  m \div 10 <= n \div 10 /\ m \div 10 \in Int /\ m % 10 \in Int
OBVIOUS

\* The range a server starts with is one of addresses, and its own is not among them.
LEMMA StartRange ==
  ASSUME DhcpInv, NEW a \in ApAddrs
  PROVE  /\ Dhcp!DefaultRange(a) \in RangeRecord /\ Dhcp!DefaultRange(a).lo > 0
         /\ a \notin Dhcp!DefaultRange(a).lo..Dhcp!DefaultRange(a).hi
         /\ LET r == [Dhcp!InitLease(a) EXCEPT !.enable = TRUE] IN
            r \in RangeRecord /\ r.lo > 0 /\ a \notin r.lo..r.hi
<1> DEFINE d == Dhcp!DefaultRange(a)
           r == [Dhcp!InitLease(a) EXCEPT !.enable = TRUE]
<1>1. a \in Nat /\ MaxLease \in Nat /\ HalfHosts \in Nat /\ MaxLease < HalfHosts
  BY TerminalAssumption
<1>2. d \in RangeRecord /\ d.lo > 0 /\ a \notin d.lo..d.hi
  <2> DEFINE first == IF a \div 10 >= HalfHosts THEN a - 10 * MaxLease ELSE a + 10
  <2>1. first \in Nat /\ first > 0
    <3>1. a = 10 * (a \div 10) + (a % 10) /\ a \div 10 \in Int /\ a % 10 \in 0..9
      BY <1>1
    <3>2. QED BY <1>1, <3>1
  <2>2. d = [enable |-> TRUE, lo |-> first, hi |-> first + 10 * (MaxLease - 1)]
    BY DEF Dhcp!DefaultRange
  <2>3. first = a - 10 * MaxLease \/ first = a + 10
    OBVIOUS
  <2> HIDE DEF first, d
  <2>4. d.lo = first /\ d.hi = first + 10 * (MaxLease - 1) /\ d.enable = TRUE /\ d.hi \in Int
    BY <1>1, <2>1, <2>2
  <2>5. d \in RangeRecord
    BY <1>1, <2>1, <2>2 DEF RangeRecord
  <2>6. a \notin first..(first + 10 * (MaxLease - 1))
    BY <1>1, <2>1, <2>3
  <2>7. QED BY <2>1, <2>4, <2>5, <2>6
<1>3. CASE Dhcp!InitLease(a) = d
  <2>1. d.lo = r.lo /\ d.hi = r.hi /\ r \in RangeRecord
    <3> HIDE DEF d
    <3>1. QED BY <1>2, <1>3 DEF RangeRecord
  <2>2. QED BY <1>2, <2>1
<1>4. CASE Dhcp!InitLease(a) = range /\ range.enable /\ Dhcp!RangeOK(range.lo, range.hi, a)
  <2>1. range \in RangeRecord /\ range.lo > 0
    BY <1>4 DEF DhcpInv, DhcpTypes, RangeRecord, RangeSet
  <2>2. r.lo = range.lo /\ r.hi = range.hi /\ r \in RangeRecord
    BY <1>4, <2>1 DEF RangeRecord
  <2>3. a \notin range.lo..range.hi
    <3> SUFFICES ASSUME a \in range.lo..range.hi PROVE FALSE
      OBVIOUS
    <3> DEFINE lo == range.lo
               hi == range.hi
    <3>1. lo \in Nat /\ hi \in Nat /\ lo <= a /\ a <= hi
      BY <1>1, <2>1 DEF RangeRecord
    <3>2. lo % 10 = a % 10 /\ hi % 10 = a % 10
      BY <1>4 DEF Dhcp!RangeOK, Dhcp!Net
    <3>3. ~(100 * (lo % 10) + lo \div 10 <= 100 * (a % 10) + a \div 10
            /\ 100 * (a % 10) + a \div 10 <= 100 * (hi % 10) + hi \div 10)
      BY <1>4 DEF Dhcp!RangeOK, Dhcp!HostOrder, Dhcp!Net
    <3> HIDE DEF lo, hi
    <3>4. lo \div 10 <= a \div 10 /\ a \div 10 <= hi \div 10
      BY <1>1, <3>1, Tens
    <3>5. lo \div 10 \in Int /\ a \div 10 \in Int /\ hi \div 10 \in Int /\ a % 10 \in Int
      BY <1>1, <3>1
    <3>6. QED BY <3>2, <3>3, <3>4, <3>5
  <2>4. QED BY <1>2, <2>1, <2>2, <2>3
<1>5. QED BY <1>3, <1>4 DEF Dhcp!InitLease

\* With an empty list nothing is out of order, and none is bound.
LEMMA EmptyList ==
  ASSUME leases' = <<>>
  PROVE  Ordered(leases)' /\ InRange(leases, range)' /\ In(leases') = {} /\ leases' \in Seq(LeaseRecord)
BY DEF Ordered, InRange, Apart, In

\* While no pcb listens nobody is bound, unless there was a disturbance.
LEMMA NobodyBound ==
  ASSUME DhcpInv, Undisturbed, pcb # "bound", NEW c \in DhcpClients
  PROVE  clients[c].st # "bound"
<1>1. leases = <<>>
  BY DEF DhcpInv, OneServer, Undisturbed, Raced
<1>2. In(leases) = {}
  BY <1>1 DEF In
<1>3. QED BY <1>2 DEF DhcpInv, BoundLeased

\* A client leaves or restarts.
LEMMA VanishKeeps ==
  ASSUME DhcpInv, NEW c \in DhcpClients, Dhcp!Vanish(c)
  PROVE  DhcpInv'
<1>1. /\ UNCHANGED <<leases, range, pcb, orphan, apAddr, apLink, setCmd, taint>>
      /\ \/ clients' = [clients EXCEPT ![c] = [st |-> "none", ip |-> Dhcp!ANY]]
         \/ clients' = [clients EXCEPT ![c] = [st |-> "offered", ip |-> clients[c].ip]]
  BY DEF Dhcp!Vanish, Dhcp!Believes
<1>2. clients \in [DhcpClients -> Believed] /\ Dhcp!ANY \in Nat
  BY DEF DhcpInv, DhcpTypes, Believed, Dhcp!ANY
<1>3. PICK b \in Believed : clients' = [clients EXCEPT ![c] = b] /\ b.st # "bound"
  <2>1. clients[c].ip \in Nat
    BY <1>2 DEF Believed
  <2>2. [st |-> "none", ip |-> Dhcp!ANY] \in Believed /\ [st |-> "offered", ip |-> clients[c].ip] \in Believed
    BY <1>2, <2>1 DEF Believed
  <2>3. QED BY <1>1, <2>2
<1>4. /\ clients' \in [DhcpClients -> Believed]
      /\ \A d \in DhcpClients : clients'[d].st = "bound" => clients'[d] = clients[d]
  BY <1>2, <1>3
<1>5. DhcpTypes'
  BY <1>1, <1>4 DEF DhcpInv, DhcpTypes, Believed
<1>6. Undisturbed' => BoundLeased'
  BY <1>1, <1>4 DEF DhcpInv, BoundLeased, Undisturbed
<1>7. (Ordered(leases) /\ RangeSet /\ OneServer /\ OwnOutside)' /\ (Undisturbed' => InRange(leases, range)')
  BY <1>1 DEF DhcpInv, RangeSet, OneServer, OwnOutside, Undisturbed, Raced, Dhcp!Listening
<1>8. QED BY <1>5, <1>6, <1>7 DEF DhcpInv

\* The link comes up.
LEMMA LinkUpKeeps ==
  ASSUME DhcpInv, Dhcp!LinkUp
  PROVE  DhcpInv'
<1> DEFINE a == apAddr.netif
           r == [Dhcp!InitLease(a) EXCEPT !.enable = TRUE]
<1>1. /\ ~apLink /\ apLink' = TRUE
      /\ pcb' = IF Dhcp!Listening THEN "unbound" ELSE "bound"
      /\ orphan' = (orphan \/ pcb = "bound")
      /\ range' = r /\ apAddr' = [netif |-> a, server |-> a, info |-> a]
      /\ taint' = (IF setCmd = "idle" THEN taint ELSE taint \cup {"race"})
      /\ UNCHANGED <<leases, setCmd, clients>>
  BY DEF Dhcp!LinkUp, Dhcp!DhcpsStart
<1>2. a \in ApAddrs
  BY DEF DhcpInv, DhcpTypes
<1> HIDE DEF a, r
<1>3. r \in RangeRecord /\ r.lo > 0 /\ a \notin r.lo..r.hi
  BY <1>2, StartRange DEF r
<1>4. DhcpTypes'
  <2>1. apAddr' \in [netif : ApAddrs, server : ApAddrs \cup {Dhcp!ANY}, info : ApAddrs \cup {Dhcp!ANY}]
    BY <1>1, <1>2
  <2>2. QED BY <1>1, <1>3, <2>1 DEF DhcpInv, DhcpTypes, RangeRecord
<1>5. RangeSet'
  BY <1>1, <1>3 DEF RangeSet
<1>6. ~Raced' => setCmd = "idle" /\ ~Raced /\ ~orphan /\ pcb # "bound" /\ leases = <<>>
  BY <1>1 DEF DhcpInv, OneServer, Raced
<1>7. OneServer'
  BY <1>1, <1>6 DEF OneServer, Dhcp!Listening
<1>8. OwnOutside'
  BY <1>1, <1>3 DEF OwnOutside
<1>9. ASSUME Undisturbed' PROVE InRange(leases, range)' /\ BoundLeased'
  <2>1. ~Raced' /\ Undisturbed
    BY <1>1, <1>9 DEF Undisturbed, Raced
  <2>2. leases' = <<>> /\ pcb # "bound"
    BY <1>1, <1>6, <2>1
  <2>3. \A c \in DhcpClients : clients'[c].st # "bound"
    BY <1>1, <2>1, <2>2, NobodyBound
  <2>4. QED BY <2>2, <2>3, EmptyList DEF BoundLeased
<1>10. Ordered(leases)'
  BY <1>1 DEF DhcpInv
<1>11. QED BY <1>4, <1>5, <1>7, <1>8, <1>9, <1>10 DEF DhcpInv

\* The link goes down.
LEMMA LinkDownKeeps ==
  ASSUME DhcpInv, Dhcp!LinkDown
  PROVE  DhcpInv'
<1>1. /\ apLink /\ apLink' = FALSE
      /\ pcb' = "none" /\ leases' = <<>> /\ range' = [range EXCEPT !.enable = FALSE]
      /\ clients' = [c \in DhcpClients |-> Dhcp!NoAddr]
      /\ taint' = (IF setCmd = "idle" THEN taint \ {"foreign", "restart"} ELSE taint \cup {"race"})
      /\ UNCHANGED <<orphan, apAddr, setCmd>>
  BY DEF Dhcp!LinkDown, Dhcp!DhcpsStop
<1>2. /\ range \in RangeRecord /\ range' \in RangeRecord
      /\ range'.lo = range.lo /\ range'.enable = FALSE
  BY <1>1 DEF DhcpInv, DhcpTypes, RangeRecord
<1>3. clients' \in [DhcpClients -> Believed] /\ \A c \in DhcpClients : clients'[c].st # "bound"
  BY <1>1 DEF Dhcp!NoAddr, Dhcp!ANY, Believed
<1>4. DhcpTypes'
  BY <1>1, <1>2, <1>3, EmptyList DEF DhcpInv, DhcpTypes, RangeRecord, Believed
<1>5. RangeSet'
  BY <1>1, <1>2 DEF DhcpInv, RangeSet, Dhcp!Listening
<1>6. OneServer'
  BY <1>1 DEF DhcpInv, OneServer, Raced
<1>7. OwnOutside'
  BY <1>1 DEF OwnOutside
<1>8. BoundLeased'
  BY <1>3 DEF BoundLeased
<1>9. QED BY <1>1, <1>4, <1>5, <1>6, <1>7, <1>8, EmptyList DEF DhcpInv

\* The three steps of the set command.
LEMMA SetServerKeeps ==
  ASSUME DhcpInv,
         \/ Dhcp!SetServerStop \/ Dhcp!SetServerStart
         \/ \E r \in Ranges : Dhcp!SetServerLease(r[1], r[2])
  PROVE  DhcpInv'
<1>1. CASE Dhcp!SetServerStop
  <2>1. /\ setCmd = "idle" /\ apLink /\ setCmd' = "stopped"
        /\ pcb' = "none" /\ leases' = <<>> /\ range' = [range EXCEPT !.enable = FALSE]
        /\ taint' = (IF \E c \in DhcpClients : clients[c].st # "none"
                     THEN taint \cup {"restart"} ELSE taint)
        /\ UNCHANGED <<orphan, apAddr, apLink, clients>>
    BY <1>1 DEF Dhcp!SetServerStop, Dhcp!DhcpsStop
  <2>2. /\ range \in RangeRecord /\ range' \in RangeRecord
        /\ range'.lo = range.lo /\ range'.enable = FALSE
    BY <2>1 DEF DhcpInv, DhcpTypes, RangeRecord
  <2>3. DhcpTypes'
    BY <2>1, <2>2, EmptyList DEF DhcpInv, DhcpTypes, RangeRecord
  <2>4. RangeSet'
    BY <2>1, <2>2 DEF DhcpInv, RangeSet, Dhcp!Listening
  <2>5. OneServer'
    BY <2>1 DEF DhcpInv, OneServer, Raced
  <2>6. OwnOutside'
    BY <2>1 DEF OwnOutside
  <2>7. Undisturbed' => BoundLeased'
    BY <2>1 DEF BoundLeased, Undisturbed
  <2>8. QED BY <2>1, <2>3, <2>4, <2>5, <2>6, <2>7, EmptyList DEF DhcpInv
<1>2. ASSUME NEW q \in Ranges, Dhcp!SetServerLease(q[1], q[2]) PROVE DhcpInv'
  <2>1. /\ setCmd = "stopped" /\ setCmd' = "set"
        /\ (range' = range \/ range' = [enable |-> TRUE, lo |-> q[1], hi |-> q[2]])
        /\ UNCHANGED <<leases, pcb, orphan, apAddr, apLink, clients, taint>>
    BY <1>2 DEF Dhcp!SetServerLease
  <2>2. q[1] \in Nat /\ q[1] > 0 /\ q[2] \in Int
    BY TerminalAssumption
  <2> DEFINE new == [enable |-> TRUE, lo |-> q[1], hi |-> q[2]]
  <2>n. new \in RangeRecord /\ new.lo > 0
    BY <2>2 DEF RangeRecord
  <2>o. range \in RangeRecord
    BY DEF DhcpInv, DhcpTypes, RangeRecord
  <2>p. range' = range \/ range' = new
    BY <2>1
  <2> HIDE DEF new
  <2>3. /\ range \in RangeRecord /\ range' \in RangeRecord
        /\ (range' = range \/ range'.lo > 0)
    BY <2>n, <2>o, <2>p
  <2>4. DhcpTypes'
    BY <2>1, <2>3 DEF DhcpInv, DhcpTypes, RangeRecord
  <2>5. RangeSet'
    BY <2>1, <2>3 DEF DhcpInv, RangeSet, Dhcp!Listening
  <2>6. OneServer'
    BY <2>1 DEF DhcpInv, OneServer, Raced
  <2>7. ~Raced => pcb # "bound" /\ leases = <<>>
    BY <2>1 DEF DhcpInv, OneServer
  <2>8. OwnOutside'
    BY <2>1, <2>7 DEF OwnOutside, Raced
  <2>9. ASSUME Undisturbed' PROVE InRange(leases, range)' /\ BoundLeased'
    <3>1. ~Raced /\ Undisturbed
      BY <2>1, <2>9 DEF Undisturbed, Raced
    <3>2. leases' = <<>> /\ pcb # "bound"
      BY <2>1, <2>7, <3>1
    <3>3. \A c \in DhcpClients : clients'[c].st # "bound"
      BY <2>1, <3>1, <3>2, NobodyBound
    <3>4. QED BY <3>2, <3>3, EmptyList DEF BoundLeased
  <2>10. Ordered(leases)'
    BY <2>1 DEF DhcpInv
  <2>11. QED BY <2>4, <2>5, <2>6, <2>8, <2>9, <2>10 DEF DhcpInv
<1>3. CASE Dhcp!SetServerStart
  <2> DEFINE a == apAddr.netif
             r == [Dhcp!InitLease(a) EXCEPT !.enable = TRUE]
  <2>1. /\ setCmd = "set" /\ setCmd' = "idle"
        /\ pcb' = IF Dhcp!Listening THEN "unbound" ELSE "bound"
        /\ orphan' = (orphan \/ pcb = "bound")
        /\ range' = r /\ apAddr' = [netif |-> a, server |-> a, info |-> a]
        /\ UNCHANGED <<leases, apLink, clients, taint>>
    BY <1>3 DEF Dhcp!SetServerStart, Dhcp!DhcpsStart
  <2>2. a \in ApAddrs
    BY DEF DhcpInv, DhcpTypes
  <2> HIDE DEF a, r
  <2>3. r \in RangeRecord /\ r.lo > 0 /\ a \notin r.lo..r.hi
    BY <2>2, StartRange DEF r
  <2>4. DhcpTypes'
    <3>1. apAddr' \in [netif : ApAddrs, server : ApAddrs \cup {Dhcp!ANY}, info : ApAddrs \cup {Dhcp!ANY}]
      BY <2>1, <2>2
    <3>2. QED BY <2>1, <2>3, <3>1 DEF DhcpInv, DhcpTypes, RangeRecord
  <2>5. RangeSet'
    BY <2>1, <2>3 DEF RangeSet
  <2>6. ~Raced => apLink /\ ~orphan /\ pcb # "bound" /\ leases = <<>>
    BY <2>1 DEF DhcpInv, OneServer
  <2>7. OneServer'
    BY <2>1, <2>6 DEF OneServer, Raced, Dhcp!Listening
  <2>8. OwnOutside'
    BY <2>1, <2>3 DEF OwnOutside
  <2>9. ASSUME Undisturbed' PROVE InRange(leases, range)' /\ BoundLeased'
    <3>1. ~Raced /\ Undisturbed
      BY <2>1, <2>9 DEF Undisturbed, Raced
    <3>2. leases' = <<>> /\ pcb # "bound"
      BY <2>1, <2>6, <3>1
    <3>3. \A c \in DhcpClients : clients'[c].st # "bound"
      BY <2>1, <3>1, <3>2, NobodyBound
    <3>4. QED BY <3>2, <3>3, EmptyList DEF BoundLeased
  <2>10. Ordered(leases)'
    BY <2>1 DEF DhcpInv
  <2>11. QED BY <2>4, <2>5, <2>7, <2>8, <2>9, <2>10 DEF DhcpInv
<1>4. QED BY <1>1, <1>2, <1>3

\* A new address for the access point.
LEMMA SetApKeeps ==
  ASSUME DhcpInv, NEW a \in ApAddrs, Dhcp!SetApDynamic(a) \/ Dhcp!SetApStatic(a)
  PROVE  DhcpInv'
<1>1. CASE Dhcp!SetApDynamic(a)
  <2>1. /\ setCmd = "idle" /\ apLink /\ leases' = <<>>
        /\ pcb' = IF orphan THEN "unbound" ELSE "bound"
        /\ range' = Dhcp!DefaultRange(a) /\ apAddr' = [netif |-> a, server |-> a, info |-> a]
        /\ taint' = (taint \ {"static"}) \cup
                    (IF \E c \in DhcpClients : clients[c].st # "none" THEN {"restart"} ELSE {})
        /\ UNCHANGED <<orphan, apLink, setCmd, clients>>
    BY <1>1 DEF Dhcp!SetApDynamic
  <2>2. range' \in RangeRecord /\ range'.lo > 0 /\ a \notin range'.lo..range'.hi
    BY <2>1, StartRange
  <2>3. DhcpTypes'
    <3>1. apAddr' \in [netif : ApAddrs, server : ApAddrs \cup {Dhcp!ANY}, info : ApAddrs \cup {Dhcp!ANY}]
      BY <2>1
    <3>2. QED BY <2>1, <2>2, <3>1, EmptyList DEF DhcpInv, DhcpTypes, RangeRecord
  <2>4. RangeSet'
    BY <2>2 DEF RangeSet
  <2>5. OneServer'
    BY <2>1 DEF DhcpInv, OneServer, Raced
  <2>6. OwnOutside'
    BY <2>1, <2>2 DEF OwnOutside
  <2>7. Undisturbed' => BoundLeased'
    BY <2>1 DEF BoundLeased, Undisturbed
  <2>8. QED BY <2>1, <2>3, <2>4, <2>5, <2>6, <2>7, EmptyList DEF DhcpInv
<1>2. CASE Dhcp!SetApStatic(a)
  <2>1. /\ apAddr' = [apAddr EXCEPT !.netif = a] /\ taint' = taint \cup {"static"}
        /\ UNCHANGED <<leases, range, pcb, orphan, apLink, setCmd, clients>>
    BY <1>2 DEF Dhcp!SetApStatic
  <2>2. apAddr' \in [netif : ApAddrs, server : ApAddrs \cup {Dhcp!ANY}, info : ApAddrs \cup {Dhcp!ANY}]
    BY <2>1 DEF DhcpInv, DhcpTypes
  <2>3. DhcpTypes'
    BY <2>1, <2>2 DEF DhcpInv, DhcpTypes
  <2>4. (Ordered(leases) /\ RangeSet /\ OneServer)'
    BY <2>1 DEF DhcpInv, RangeSet, OneServer, Raced, Dhcp!Listening
  <2>5. OwnOutside'
    BY <2>1 DEF OwnOutside
  <2>6. Undisturbed' => InRange(leases, range)' /\ BoundLeased'
    BY <2>1 DEF DhcpInv, Undisturbed, BoundLeased
  <2>7. QED BY <2>3, <2>4, <2>5, <2>6 DEF DhcpInv
<1>3. QED BY <1>1, <1>2

\* Every step of the server and its clients keeps the invariant.
LEMMA DhcpInductive == DhcpInv /\ [Dhcp!Next]_dhcpVars => DhcpInv'
<1>1. CASE DhcpInv /\ Dhcp!Next
  BY <1>1, DiscoverKeeps, RequestKeeps, RenewKeeps, ReleaseKeeps, DeclineKeeps, VanishKeeps,
     InformKeeps, LinkUpKeeps, LinkDownKeeps, SetServerKeeps, SetApKeeps DEF Dhcp!Next
<1>2. CASE DhcpInv /\ UNCHANGED dhcpVars
  BY <1>2 DEF dhcpVars, DhcpInv, DhcpTypes, RangeSet, OneServer, OwnOutside, Undisturbed, BoundLeased,
              Raced, Dhcp!Listening
<1>3. QED BY <1>1, <1>2

-----------------------------------------------------------------------------
(* What the invariant says of the leases. *)

\* The server starts with an empty list and no pcb.
LEMMA DhcpStarts == Dhcp!Init => DhcpInv
<1> SUFFICES ASSUME Dhcp!Init PROVE DhcpInv
  OBVIOUS
<1> DEFINE none == Dhcp!NoAddr
<1>1. /\ leases = <<>> /\ range = [enable |-> FALSE, lo |-> 0, hi |-> 0]
      /\ pcb = "none" /\ orphan = FALSE /\ apLink = FALSE /\ setCmd = "idle"
      /\ clients = [c \in DhcpClients |-> none] /\ taint = {}
  BY DEF Dhcp!Init, Dhcp!ANY
<1>2. PICK a \in ApAddrs : apAddr = [netif |-> a, server |-> Dhcp!ANY, info |-> Dhcp!ANY]
  BY DEF Dhcp!Init
<1>3. none \in Believed /\ none.st = "none"
  BY DEF Dhcp!NoAddr, Dhcp!ANY, Believed
<1> HIDE DEF none
<1>4. /\ clients \in [DhcpClients -> Believed]
      /\ \A c \in DhcpClients : clients[c].st # "bound"
  BY <1>1, <1>3
<1>5. DhcpTypes
  <2>1. range \in [enable : BOOLEAN, lo : Nat, hi : Int]
    BY <1>1
  <2>2. apAddr \in [netif : ApAddrs, server : ApAddrs \cup {Dhcp!ANY}, info : ApAddrs \cup {Dhcp!ANY}]
    BY <1>2
  <2>3. leases \in Seq(LeaseRecord)
    BY <1>1
  <2>4. QED BY <1>1, <1>4, <2>1, <2>2, <2>3 DEF DhcpTypes, Believed
<1>6. Ordered(leases) /\ InRange(leases, range)
  BY <1>1 DEF Ordered, InRange, Apart
<1>7. RangeSet /\ OneServer /\ OwnOutside
  BY <1>1 DEF RangeSet, OneServer, OwnOutside, Dhcp!Listening
<1>8. QED BY <1>4, <1>5, <1>6, <1>7 DEF DhcpInv, BoundLeased

\* Two clients that hold an address hold two.
LEMMA BoundApart == DhcpInv => Dhcp!Unique
<1> SUFFICES ASSUME DhcpInv, Undisturbed, NEW c \in DhcpClients, NEW d \in DhcpClients, c # d,
                    clients[c].st = "bound", clients[d].st = "bound",
                    clients[c].ip = clients[d].ip
             PROVE  FALSE
  BY DEF Dhcp!Unique, Undisturbed
<1>1. Lease(c, clients[c].ip) \in In(leases) /\ Lease(d, clients[d].ip) \in In(leases)
  BY DEF DhcpInv, BoundLeased
<1>2. PICK i \in DOMAIN leases : leases[i] = Lease(c, clients[c].ip)
  BY <1>1 DEF In
<1>3. PICK j \in DOMAIN leases : leases[j] = Lease(d, clients[d].ip)
  BY <1>1 DEF In
<1>4. leases[i].mac = c /\ leases[j].mac = d /\ leases[i].ip = leases[j].ip /\ leases[i].ip \in Nat
  BY <1>2, <1>3 DEF Lease, DhcpInv, DhcpTypes, LeaseRecord
<1>5. i \in Nat /\ j \in Nat
  BY DEF DhcpInv, DhcpTypes
<1>6. i < j \/ j < i
  BY <1>4, <1>5
<1>7. Apart(leases)
  BY DEF DhcpInv, InRange
<1>8. QED BY <1>4, <1>5, <1>6, <1>7 DEF Apart

\* The server's module counts as this one does.
LEMMA SameCount ==
  ASSUME NEW S
  PROVE  Dhcp!Cardinality(S) = Cardinality(S)
BY DEF Dhcp!Cardinality, Cardinality

\* No client has two nodes, and the nodes are sorted.
LEMMA OneEach == DhcpInv => Dhcp!OneLeaseEach
<1> SUFFICES ASSUME DhcpInv PROVE Dhcp!OneLeaseEach
  OBVIOUS
<1>1. leases \in Seq(LeaseRecord) /\ Ordered(leases) /\ Len(leases) \in Nat /\ DOMAIN leases = 1..Len(leases)
  BY DEF DhcpInv, DhcpTypes
<1>2. ASSUME NEW c \in DhcpClients PROVE Cardinality(Dhcp!NodesOf(c)) <= 1
  <2> DEFINE N == Dhcp!NodesOf(c)
  <2>1. \A i, j \in N : i = j
    <3> SUFFICES ASSUME NEW i \in N, NEW j \in N, i # j PROVE FALSE
      OBVIOUS
    <3>1. i \in 1..Len(leases) /\ j \in 1..Len(leases) /\ leases[i].mac = c /\ leases[j].mac = c
      BY <1>1 DEF Dhcp!NodesOf
    <3>2. i < j \/ j < i
      BY <1>1, <3>1
    <3>3. QED BY <1>1, <3>1, <3>2 DEF Ordered
  <2> HIDE DEF N
  <2>2. CASE N = {}
    BY <2>2, FS_EmptySet DEF N
  <2>3. CASE N # {}
    <3>1. PICK i \in N : TRUE
      BY <2>3
    <3>2. N = {i}
      BY <2>1, <3>1
    <3>3. Cardinality(N) = 1
      BY <3>2, FS_Singleton
    <3>4. QED BY <3>3 DEF N
  <2>4. QED BY <2>2, <2>3
<1>3. \A i \in 1..Len(leases) - 1 : leases[i].ip <= leases[i + 1].ip
  BY <1>1 DEF Ordered
<1>4. \A c \in DhcpClients : Dhcp!Cardinality(Dhcp!NodesOf(c)) <= 1
  BY <1>2, SameCount
<1>5. QED BY <1>3, <1>4 DEF Dhcp!OneLeaseEach

\* The access point's own address is not leased.
LEMMA OwnNotLeased == DhcpInv => Dhcp!NeverOwnAddress
<1> SUFFICES ASSUME DhcpInv, taint = {}, apAddr.netif \in Dhcp!Leased PROVE FALSE
  BY DEF Dhcp!NeverOwnAddress
<1>1. PICK i \in DOMAIN leases : leases[i].ip = apAddr.netif
  BY DEF Dhcp!Leased
<1>2. leases # <<>>
  BY <1>1
<1>3. ~Raced /\ Undisturbed
  BY DEF Raced, Undisturbed
<1>4. pcb = "bound"
  BY <1>2, <1>3 DEF DhcpInv, OneServer
<1>5. apAddr.netif \notin range.lo..range.hi
  BY <1>4 DEF DhcpInv, OwnOutside
<1>6. OnRange(apAddr.netif, range)
  BY <1>1, <1>3 DEF DhcpInv, InRange
<1>7. range.lo \in Nat /\ range.hi \in Int
  BY DEF DhcpInv, DhcpTypes
<1>8. QED BY <1>5, <1>6, <1>7 DEF OnRange

\* What is given to nobody is in use by somebody.
LEMMA RefusedFull == DhcpInv => Dhcp!TurnedAwayOnlyWhenFull
<1> SUFFICES ASSUME DhcpInv, Dhcp!Listening, NEW c \in DhcpClients,
                    Dhcp!ClientUpdate(c, Dhcp!ANY).ip = Dhcp!ANY,
                    NEW k \in 0..(range.hi - range.lo) \div 10
             PROVE  range.lo + 10 * k \in Dhcp!Leased
  BY DEF Dhcp!TurnedAwayOnlyWhenFull
<1> DEFINE u == Dhcp!ClientUpdate(c, Dhcp!ANY)
<1>1. DhcpTypes /\ range.lo \in Nat /\ range.lo > 0 /\ range.hi \in Int
      /\ Len(leases) \in Nat /\ DOMAIN leases = 1..Len(leases)
  BY DEF DhcpInv, DhcpTypes, RangeSet
<1>2. PICK b \in 0..Len(leases) : \E m \in 0..b :
         /\ Dhcp!FirstGap(c) = range.lo + 10 * m
         /\ Dhcp!InOrder(m)
         /\ m < b => ~Dhcp!InOrder(m + 1)
         /\ IF Dhcp!NodesOf(c) = {} THEN b = Len(leases) ELSE b + 1 \in Dhcp!NodesOf(c)
  <2> HIDE DEF u
  <2>1. DhcpTypes
    BY <1>1
  <2>2. QED BY <2>1, GapIs, Zenon
<1>3. PICK m \in 0..b : Dhcp!FirstGap(c) = range.lo + 10 * m /\ Dhcp!InOrder(m)
  BY <1>2
<1>4. Dhcp!FirstGap(c) # Dhcp!ANY
  BY <1>1, <1>3 DEF Dhcp!ANY
<1>5. \/ u = Dhcp!Refused /\ (Dhcp!Full(c) \/ Dhcp!FirstGap(c) > range.hi)
      \/ u.ip = Dhcp!FirstGap(c)
  <2>1. Dhcp!ANY \in Nat
    BY DEF Dhcp!ANY
  <2>2. QED BY <1>1, <2>1, UpdateForm
<1>6. Dhcp!FirstGap(c) > range.hi
  BY <1>4, <1>5 DEF Dhcp!Full
<1>7. 10 * k <= range.hi - range.lo
  <2> DEFINE x == range.hi - range.lo
  <2>1. x \in Int /\ k \in Nat /\ k <= x \div 10
    BY <1>1
  <2> HIDE DEF x
  <2>2. 10 * k <= x
    BY <2>1
  <2>3. QED BY <2>2 DEF x
<1>8. k + 1 \in 1..m /\ k + 1 \in DOMAIN leases
  <2>1. range.lo + 10 * m > range.hi
    BY <1>3, <1>6
  <2>2. k \in Nat
    BY <1>1
  <2> HIDE DEF u
  <2>3. k < m
    BY <1>1, <1>7, <2>1, <2>2
  <2>4. QED BY <1>1, <2>2, <2>3
<1>9. leases[k + 1].ip = range.lo + 10 * ((k + 1) - 1)
  BY <1>3, <1>8 DEF Dhcp!InOrder
<1>10. range.lo + 10 * ((k + 1) - 1) = range.lo + 10 * k
  BY <1>1
<1>11. QED BY <1>8, <1>9, <1>10 DEF Dhcp!Leased

\* The leases of the server are sound whatever the clients send, the link does and the user
\* sets: none is given twice, none is the access point's own, none is refused while one is
\* free, and the server runs while the link is up.
THEOREM LeasesAreSafe == MCSpec => []DhcpSafe
<1> DEFINE I == part = "dhcp" => DhcpInv
<1>1. MCInit => I
  BY DhcpStarts DEF MCInit
<1>2. I /\ [MCNext]_<<part, dhcpVars, vieVars, uartVars, filesVars, cmdVars>> => I'
  BY DhcpInductive DEF MCNext
<1>3. I => DhcpSafe
  <2> SUFFICES ASSUME part = "dhcp", DhcpInv PROVE DhcpSafe
    BY DEF DhcpSafe
  <2>1. Dhcp!ServerFollowsLink
    <3> SUFFICES ASSUME ~Raced, setCmd = "idle" PROVE Dhcp!Listening = apLink
      BY DEF Dhcp!ServerFollowsLink, Raced
    <3>1. orphan = FALSE /\ (pcb = "bound" <=> apLink) /\ apLink \in BOOLEAN
      BY DEF DhcpInv, DhcpTypes, OneServer
    <3>2. QED BY <3>1 DEF Dhcp!Listening
  <2>2. QED BY <2>1, BoundApart, OneEach, OwnNotLeased, RefusedFull DEF DhcpSafe
<1>4. QED BY <1>1, <1>2, <1>3, PTL DEF MCSpec

\* The leases of a client are what the list has under its address.
LEMMA LeasesAre ==
  ASSUME NEW L \in Seq(LeaseRecord), NEW d \in DhcpClients
  PROVE  {L[i].ip : i \in {j \in DOMAIN L : L[j].mac = d}} = {a \in Nat : Lease(d, a) \in In(L)}
<1>1. ASSUME NEW i \in DOMAIN L, L[i].mac = d PROVE L[i].ip \in Nat /\ Lease(d, L[i].ip) \in In(L)
  <2>1. L[i] \in LeaseRecord
    OBVIOUS
  <2>2. L[i] = [mac |-> L[i].mac, ip |-> L[i].ip] /\ L[i].ip \in Nat
    BY <2>1 DEF LeaseRecord
  <2>3. L[i] = Lease(d, L[i].ip)
    BY <1>1, <2>2 DEF Lease
  <2>4. QED BY <2>2, <2>3 DEF In
<1>2. ASSUME NEW a \in Nat, Lease(d, a) \in In(L)
      PROVE  \E i \in DOMAIN L : L[i].mac = d /\ a = L[i].ip
  <2>1. PICK i \in DOMAIN L : L[i] = Lease(d, a)
    BY <1>2 DEF In
  <2>2. L[i].mac = d /\ L[i].ip = a
    BY <2>1 DEF Lease
  <2>3. QED BY <2>2
<1>3. QED BY <1>1, <1>2

\* A message changes nothing of what another client has.
LEMMA OthersKept ==
  ASSUME DhcpInv, NEW c \in DhcpClients, NEW a \in Nat, NEW ret, NEW d \in DhcpClients, d # c,
         leases' = AfterMessage(c, a, ret)
  PROVE  Dhcp!LeasesOf(d)' = Dhcp!LeasesOf(d)
<1>1. DhcpTypes /\ Ordered(leases) /\ leases \in Seq(LeaseRecord)
  BY DEF DhcpInv, DhcpTypes
<1>2. /\ leases' \in Seq(LeaseRecord)
      /\ \A r \in LeaseRecord : r.mac # c => (r \in In(leases') <=> r \in In(leases))
  BY <1>1, MessageKeeps DEF AfterMessage
<1>3. \A x \in Nat : Lease(d, x) \in LeaseRecord /\ Lease(d, x).mac # c
  BY DEF Lease, LeaseRecord
<1>4. {x \in Nat : Lease(d, x) \in In(leases')} = {x \in Nat : Lease(d, x) \in In(leases)}
  BY <1>2, <1>3
<1>5. Dhcp!LeasesOf(d) = {x \in Nat : Lease(d, x) \in In(leases)}
  <2>1. Dhcp!LeasesOf(d) = {leases[i].ip : i \in {j \in DOMAIN leases : leases[j].mac = d}}
    BY DEF Dhcp!LeasesOf, Dhcp!NodesOf
  <2>2. QED BY <1>1, <2>1, LeasesAre
<1>6. Dhcp!LeasesOf(d)' = {x \in Nat : Lease(d, x) \in In(leases')}
  <2>1. Dhcp!LeasesOf(d)' = {leases'[i].ip : i \in {j \in DOMAIN leases' : leases'[j].mac = d}}
    BY DEF Dhcp!LeasesOf, Dhcp!NodesOf
  <2>2. QED BY <1>2, <2>1, LeasesAre
<1>7. QED BY <1>4, <1>5, <1>6

\* What each step of the server does to its list.
LEMMA ListSteps ==
  ASSUME DhcpInv, Dhcp!Next
  PROVE  \/ leases' = <<>> \/ leases' = leases
         \/ \E c \in DhcpClients : \E a \in Nat : \E ret \in {"release", "other"} :
              leases' = AfterMessage(c, a, ret)
<1>1. ASSUME NEW c \in DhcpClients,
             Dhcp!Discover(c) \/ Dhcp!Request(c) \/ Dhcp!Decline(c)
      PROVE  leases' = Dhcp!ClientUpdate(c, Dhcp!ANY).list /\ Dhcp!ANY \in Nat
  BY <1>1 DEF Dhcp!Discover, Dhcp!Request, Dhcp!Decline, Dhcp!HandleDhcp, Dhcp!ParseMsg,
              Dhcp!ParseOptions, Dhcp!Msg, Dhcp!ANY
<1>2. ASSUME NEW c \in DhcpClients, Dhcp!Renew(c) \/ Dhcp!Release(c)
      PROVE  \E a \in Nat : \/ leases' = Dhcp!ClientUpdate(c, a).list
                            \/ leases' = Dhcp!ClientLeave(Dhcp!ClientUpdate(c, a).list, c, a)
  <2> DEFINE a == clients[c].ip
  <2>1. a \in Nat
    BY DEF DhcpInv, DhcpTypes
  <2>2. \/ leases' = Dhcp!ClientUpdate(c, a).list
        \/ leases' = Dhcp!ClientLeave(Dhcp!ClientUpdate(c, a).list, c, a)
    BY <1>2 DEF Dhcp!Renew, Dhcp!Release, Dhcp!HandleDhcp, Dhcp!ParseMsg, Dhcp!Msg
  <2> HIDE DEF a
  <2>3. QED BY <2>1, <2>2
<1>3. ASSUME NEW c \in DhcpClients, NEW a \in Foreign, Dhcp!Inform(c, a)
      PROVE  a \in Nat /\ (\/ leases' = Dhcp!ClientUpdate(c, a).list
                           \/ leases' = Dhcp!ClientLeave(Dhcp!ClientUpdate(c, a).list, c, a))
  BY <1>3, TerminalAssumption DEF Dhcp!Inform, Dhcp!HandleDhcp, Dhcp!ParseMsg, Dhcp!Msg
<1>4. ASSUME NEW c \in DhcpClients, Dhcp!Vanish(c) PROVE leases' = leases
  BY <1>4 DEF Dhcp!Vanish
<1>5. ASSUME \/ Dhcp!LinkUp \/ Dhcp!LinkDown \/ Dhcp!SetServerStop \/ Dhcp!SetServerStart
             \/ \E r \in Ranges : Dhcp!SetServerLease(r[1], r[2])
             \/ \E a \in ApAddrs : Dhcp!SetApDynamic(a) \/ Dhcp!SetApStatic(a)
      PROVE  leases' = <<>> \/ leases' = leases
  BY <1>5 DEF Dhcp!LinkUp, Dhcp!LinkDown, Dhcp!SetServerStop, Dhcp!SetServerStart, Dhcp!DhcpsStop,
              Dhcp!SetServerLease, Dhcp!SetApDynamic, Dhcp!SetApStatic
<1>a. ASSUME NEW c \in DhcpClients, NEW a \in Nat,
              \/ leases' = Dhcp!ClientUpdate(c, a).list
              \/ leases' = Dhcp!ClientLeave(Dhcp!ClientUpdate(c, a).list, c, a)
       PROVE  \E ret \in {"release", "other"} :
                leases' = AfterMessage(c, a, ret)
  BY <1>a DEF AfterMessage
<1>6. CASE \E c \in DhcpClients : \/ Dhcp!Discover(c) \/ Dhcp!Request(c) \/ Dhcp!Decline(c)
  BY <1>1, <1>6, <1>a
<1>7. CASE \E c \in DhcpClients : Dhcp!Renew(c) \/ Dhcp!Release(c)
  BY <1>2, <1>7, <1>a
<1>8. CASE \E c \in DhcpClients : \E a \in Foreign : Dhcp!Inform(c, a)
  BY <1>3, <1>8, <1>a
<1>9. CASE \E c \in DhcpClients : Dhcp!Vanish(c)
  BY <1>4, <1>9
<1>10. QED BY <1>5, <1>6, <1>7, <1>8, <1>9 DEF Dhcp!Next

\* A message of one client leaves the leases of all the others alone.
THEOREM LeasesOfOthersKept == MCSpec => OthersKeepLeases
<1> DEFINE I == part = "dhcp" => DhcpInv
           Changed == {c \in DhcpClients : Dhcp!LeasesOf(c)' # Dhcp!LeasesOf(c)}
<1>1. MCInit => I
  BY DhcpStarts DEF MCInit
<1>2. I /\ [MCNext]_<<part, dhcpVars, vieVars, uartVars, filesVars, cmdVars>> => I'
  BY DhcpInductive DEF MCNext
<1>3. I /\ [MCNext]_<<part, dhcpVars, vieVars, uartVars, filesVars, cmdVars>>
        => [leases' # <<>> =>
              Dhcp!Cardinality({c \in DhcpClients : Dhcp!LeasesOf(c)' # Dhcp!LeasesOf(c)}) <= 1]_Dhcp!dhcpVars
  <2> SUFFICES ASSUME I, [MCNext]_<<part, dhcpVars, vieVars, uartVars, filesVars, cmdVars>>
               PROVE  [leases' # <<>> => Dhcp!Cardinality(Changed) <= 1]_Dhcp!dhcpVars
    OBVIOUS
  <2>1. CASE UNCHANGED dhcpVars
    BY <2>1 DEF dhcpVars, Dhcp!dhcpVars
  <2>2. CASE part = "dhcp" /\ Dhcp!Next
    <3> SUFFICES ASSUME leases' # <<>> PROVE Cardinality(Changed) <= 1
      BY SameCount
    <3>0. DhcpInv
      BY <2>2
    <3>1. Changed = {} \/ \E c \in DhcpClients : Changed \subseteq {c}
      <4>1. CASE leases' = leases
        BY <4>1 DEF Dhcp!LeasesOf, Dhcp!NodesOf
      <4>2. CASE \E c \in DhcpClients : \E a \in Nat : \E ret \in {"release", "other"} :
                   leases' = AfterMessage(c, a, ret)
        <5>1. PICK c \in DhcpClients : \E a \in Nat : \E ret \in {"release", "other"} :
                   leases' = AfterMessage(c, a, ret)
          BY <4>2
        <5>2. \A d \in DhcpClients : d # c => Dhcp!LeasesOf(d)' = Dhcp!LeasesOf(d)
          BY <3>0, <5>1, OthersKept
        <5>3. QED BY <5>2
      <4>3. QED BY <2>2, <3>0, <4>1, <4>2, ListSteps
    <3> HIDE DEF Changed
    <3>2. Changed = {} \/ \E c \in DhcpClients : Changed = {c}
      BY <3>1
    <3>3. CASE Changed = {}
      BY <3>3, FS_EmptySet
    <3>4. CASE \E c \in DhcpClients : Changed = {c}
      <4>1. PICK c \in DhcpClients : Changed = {c}
        BY <3>4
      <4>2. Cardinality({c}) = 1
        BY FS_Singleton
      <4>3. QED BY <4>1, <4>2
    <3>5. QED BY <3>2, <3>3, <3>4
  <2>3. QED BY <2>1, <2>2 DEF MCNext
<1>4. QED BY <1>1, <1>2, <1>3, PTL DEF MCSpec, OthersKeepLeases, Dhcp!OthersKeepLeases

-----------------------------------------------------------------------------
(* The command line and its history. *)

Typable == Lines \cup {Uart!NoInput}
LastSlot == HistoryLen - 1

UartTypes ==
  /\ buf \in [Uart!Slots -> Typable \cup {Uart!Null}]
  /\ head \in Uart!Slots /\ iterCursor \in Uart!Slots /\ isFull \in BOOLEAN
  /\ charBuf \in Typable /\ typed \in Typable /\ original \in Typable \cup {Uart!Null}
  /\ replaced \in BOOLEAN /\ stale \in BOOLEAN

\* The places before the head, and all once the ring has come round, hold commands.
Filled == \A i \in Uart!Slots : isFull \/ i < head => buf[i] # Uart!Null

\* A walk stays in what is filled.
WalkInside == ~stale /\ ~isFull => iterCursor <= head

\* The line shown from the history has the user's own line behind it.
OwnBehind == replaced => original # Uart!Null

UartInv == UartTypes /\ Filled /\ WalkInside /\ OwnBehind /\ Uart!WalkReturns

\* What can be typed is no mark.
LEMMA TypableNotNull ==
  ASSUME NEW line \in Typable
  PROVE  line # Uart!Null
<1>1. Uart!NoInput # Uart!Null
  BY Zenon DEF Uart!NoInput, Uart!Null
<1>2. "null" \notin Lines
  BY TerminalAssumption
<1>3. QED BY <1>1, <1>2 DEF Typable, Uart!Null

\* The places of the ring, and those beside one.
LEMMA RingIs ==
  ASSUME NEW x \in Uart!Slots
  PROVE  /\ HistoryLen \in Nat \ {0} /\ x \in 0..LastSlot
         /\ (x + 1) % HistoryLen = (IF x = LastSlot THEN 0 ELSE x + 1)
         /\ (x + HistoryLen - 1) % HistoryLen = (IF x = 0 THEN LastSlot ELSE x - 1)
         /\ 0 \in Uart!Slots /\ LastSlot \in Uart!Slots
<1> DEFINE n == HistoryLen
<1>1. n \in Nat \ {0} /\ x \in 0..(n - 1)
  BY TerminalAssumption DEF Uart!Slots
<1> HIDE DEF n
<1>2. (x + 1) % n = (IF x = n - 1 THEN 0 ELSE x + 1)
  <2>1. CASE x = n - 1
    <3>1. x + 1 = n /\ n % n = 0
      BY <1>1, <2>1
    <3>2. QED BY <2>1, <3>1
  <2>2. CASE x # n - 1
    <3>1. x + 1 \in 0..(n - 1)
      BY <1>1, <2>2
    <3>2. QED BY <1>1, <2>2, <3>1
  <2>3. QED BY <2>1, <2>2
<1>3. (x + n - 1) % n = (IF x = 0 THEN n - 1 ELSE x - 1)
  <2>1. CASE x = 0
    <3>1. x + n - 1 = n - 1 /\ n - 1 \in 0..(n - 1)
      BY <1>1, <2>1
    <3>2. (n - 1) % n = n - 1
      BY <1>1, <3>1
    <3>3. QED BY <2>1, <3>1, <3>2
  <2>2. CASE x # 0
    <3>1. x - 1 \in 0..(n - 1) /\ x + n - 1 = (x - 1) + n
      BY <1>1, <2>2
    <3>2. ((x - 1) + n) % n = x - 1
      BY <1>1, <3>1
    <3>3. QED BY <2>2, <3>1, <3>2
  <2>3. QED BY <2>1, <2>2
<1>4. QED BY <1>1, <1>2, <1>3 DEF n, LastSlot, Uart!Slots

\* The line the user edits.
LEMMA EditKeeps ==
  ASSUME UartInv, NEW line \in Lines, Uart!Edit(line)
  PROVE  UartInv'
<1>1. /\ charBuf' = line /\ typed' = (IF replaced THEN typed ELSE line)
      /\ UNCHANGED <<buf, head, isFull, iterCursor, original, replaced, stale>>
  BY DEF Uart!Edit, Uart!hist
<1>2. UartTypes'
  BY <1>1 DEF UartInv, UartTypes, Typable
<1>3. QED BY <1>1, <1>2 DEF UartInv, Filled, WalkInside, OwnBehind, Uart!WalkReturns

\* An older command is shown.
LEMMA UpKeeps ==
  ASSUME UartInv, Uart!CursorUp
  PROVE  UartInv'
<1> DEFINE o == Uart!Older
<1>1. /\ ~Uart!AtOldest /\ iterCursor' = o /\ UNCHANGED <<head, isFull, typed, stale>>
      /\ \/ buf[o] = Uart!Null /\ UNCHANGED <<buf, charBuf, original, replaced>>
         \/ /\ buf[o] # Uart!Null /\ charBuf' = buf[o] /\ replaced' = TRUE
            /\ \/ replaced /\ buf' = [buf EXCEPT ![iterCursor] = charBuf] /\ original' = original
               \/ ~replaced /\ buf' = buf /\ original' = charBuf
  BY DEF Uart!CursorUp, Uart!Load
<1>2. /\ iterCursor \in Uart!Slots /\ head \in Uart!Slots /\ HistoryLen \in Nat \ {0}
      /\ iterCursor \in 0..LastSlot /\ head \in 0..LastSlot /\ LastSlot \in Uart!Slots
      /\ o = (IF iterCursor = 0 THEN LastSlot ELSE iterCursor - 1) /\ 0 \in Uart!Slots
  BY RingIs DEF UartInv, UartTypes, Uart!Older
<1> HIDE DEF o
<1>3. o \in Uart!Slots /\ Uart!Slots = 0..LastSlot /\ LastSlot = HistoryLen - 1
  BY <1>2 DEF Uart!Slots, LastSlot
<1>4. charBuf \in Typable /\ charBuf # Uart!Null
  BY TypableNotNull DEF UartInv, UartTypes
<1>5. /\ buf' \in [Uart!Slots -> Typable \cup {Uart!Null}]
      /\ \A i \in Uart!Slots : buf[i] # Uart!Null => buf'[i] # Uart!Null
  BY <1>1, <1>2, <1>4 DEF UartInv, UartTypes
<1>6. UartTypes'
  <2>1. buf[o] # Uart!Null => buf[o] \in Typable
    BY <1>3 DEF UartInv, UartTypes
  <2>2. QED BY <1>1, <1>3, <1>4, <1>5, <2>1 DEF UartInv, UartTypes
<1>7. Filled'
  BY <1>1, <1>5 DEF UartInv, Filled
<1>8. ASSUME ~stale PROVE o # head /\ (isFull \/ o < head)
  BY <1>1, <1>2, <1>3, <1>8 DEF UartInv, WalkInside, Uart!AtOldest
<1>9. WalkInside'
  BY <1>1, <1>2, <1>3, <1>8 DEF WalkInside
<1>10. OwnBehind'
  BY <1>1, <1>4 DEF UartInv, OwnBehind
<1>11. ASSUME ~stale PROVE buf[o] # Uart!Null
  BY <1>3, <1>8, <1>11 DEF UartInv, Filled
<1>12. Uart!WalkReturns'
  <2> SUFFICES ASSUME ~stale PROVE /\ replaced' /\ original' = typed'
                                   /\ iterCursor' # head' /\ buf'[iterCursor'] # Uart!Null
    BY <1>1 DEF Uart!WalkReturns
  <2>1. buf'[o] # Uart!Null
    BY <1>3, <1>5, <1>11
  <2>2. QED BY <1>1, <1>8, <1>11, <2>1 DEF UartInv, Uart!WalkReturns
<1>13. QED BY <1>6, <1>7, <1>9, <1>10, <1>12 DEF UartInv

\* A newer command is shown.
LEMMA DownKeeps ==
  ASSUME UartInv, Uart!CursorDown
  PROVE  UartInv'
<1> DEFINE o == Uart!Newer
<1>1. /\ ~(replaced /\ iterCursor = Uart!PrevHead) /\ iterCursor # head
      /\ iterCursor' = o /\ UNCHANGED <<head, isFull, replaced, typed, stale>>
      /\ \/ buf[o] = Uart!Null /\ UNCHANGED <<buf, charBuf, original>>
         \/ /\ buf[o] # Uart!Null /\ charBuf' = buf[o]
            /\ \/ replaced /\ buf' = [buf EXCEPT ![iterCursor] = charBuf] /\ original' = original
               \/ ~replaced /\ buf' = buf /\ original' = charBuf
  BY DEF Uart!CursorDown, Uart!Load
<1>2. /\ iterCursor \in Uart!Slots /\ head \in Uart!Slots /\ HistoryLen \in Nat \ {0}
      /\ iterCursor \in 0..LastSlot /\ head \in 0..LastSlot /\ LastSlot \in Uart!Slots
      /\ o = (IF iterCursor = LastSlot THEN 0 ELSE iterCursor + 1) /\ 0 \in Uart!Slots
  BY RingIs DEF UartInv, UartTypes, Uart!Newer
<1> HIDE DEF o
<1>3. o \in Uart!Slots /\ Uart!Slots = 0..LastSlot /\ LastSlot = HistoryLen - 1
  BY <1>2 DEF Uart!Slots, LastSlot
<1>4. charBuf \in Typable /\ charBuf # Uart!Null
  BY TypableNotNull DEF UartInv, UartTypes
<1>5. /\ buf' \in [Uart!Slots -> Typable \cup {Uart!Null}]
      /\ \A i \in Uart!Slots : buf[i] # Uart!Null => buf'[i] # Uart!Null
  BY <1>1, <1>2, <1>4 DEF UartInv, UartTypes
<1>6. UartTypes'
  <2>1. buf[o] # Uart!Null => buf[o] \in Typable
    BY <1>3 DEF UartInv, UartTypes
  <2>2. QED BY <1>1, <1>3, <1>4, <1>5, <2>1 DEF UartInv, UartTypes
<1>7. Filled'
  BY <1>1, <1>5 DEF UartInv, Filled
<1>8. ~stale => replaced /\ original = typed
  BY <1>1 DEF UartInv, UartTypes, Uart!WalkReturns
<1>9. ASSUME ~stale PROVE o # head /\ (isFull \/ o < head)
  <2>1. iterCursor # Uart!PrevHead /\ (isFull \/ iterCursor < head)
    BY <1>1, <1>2, <1>8, <1>9 DEF UartInv, WalkInside
  <2>2. QED BY <1>1, <1>2, <1>3, <2>1 DEF Uart!PrevHead
<1>10. WalkInside'
  BY <1>1, <1>2, <1>3, <1>9 DEF WalkInside
<1>11. OwnBehind'
  BY <1>1, <1>4 DEF UartInv, OwnBehind
<1>12. ASSUME ~stale PROVE buf[o] # Uart!Null
  BY <1>3, <1>9, <1>12 DEF UartInv, Filled
<1>13. Uart!WalkReturns'
  <2> SUFFICES ASSUME ~stale PROVE /\ replaced' /\ original' = typed'
                                   /\ iterCursor' # head' /\ buf'[iterCursor'] # Uart!Null
    BY <1>1 DEF Uart!WalkReturns
  <2>1. buf'[o] # Uart!Null
    BY <1>3, <1>5, <1>12
  <2>2. QED BY <1>1, <1>8, <1>9, <2>1
<1>14. QED BY <1>6, <1>7, <1>10, <1>11, <1>13 DEF UartInv

\* The user's own line comes back.
LEMMA BackKeeps ==
  ASSUME UartInv, Uart!BackToLine
  PROVE  UartInv'
<1>1. /\ replaced /\ replaced' = FALSE /\ iterCursor' = head /\ charBuf' = original
      /\ buf' = [buf EXCEPT ![iterCursor] = charBuf] /\ original' = original
      /\ UNCHANGED <<head, isFull, typed, stale>>
  BY DEF Uart!BackToLine, Uart!Load
<1>2. charBuf \in Typable /\ charBuf # Uart!Null /\ original \in Typable
  BY <1>1, TypableNotNull DEF UartInv, UartTypes, OwnBehind
<1>3. /\ buf' \in [Uart!Slots -> Typable \cup {Uart!Null}]
      /\ \A i \in Uart!Slots : buf[i] # Uart!Null => buf'[i] # Uart!Null
  BY <1>1, <1>2 DEF UartInv, UartTypes
<1>4. UartTypes'
  BY <1>1, <1>2, <1>3 DEF UartInv, UartTypes
<1>5. Filled'
  BY <1>1, <1>3 DEF UartInv, Filled
<1>6. WalkInside' /\ OwnBehind'
  <2>1. head \in Int
    BY RingIs DEF UartInv, UartTypes
  <2>2. QED BY <1>1, <2>1 DEF WalkInside, OwnBehind
<1>7. Uart!WalkReturns'
  BY <1>1 DEF UartInv, Uart!WalkReturns
<1>8. QED BY <1>4, <1>5, <1>6, <1>7 DEF UartInv

\* A line ends, and its command is pushed or not.
LEMMA LineKeeps ==
  ASSUME UartInv, Uart!Push \/ Uart!EndWithoutPush
  PROVE  UartInv'
<1>1. /\ charBuf' = Uart!NoInput /\ typed' = Uart!NoInput /\ original' = Uart!Null /\ replaced' = FALSE
      /\ charBuf \in Typable /\ charBuf # Uart!Null /\ Uart!NoInput \in Typable
  BY TypableNotNull DEF Uart!Push, Uart!EndWithoutPush, Uart!NewLine, UartInv, UartTypes, Typable
<1>2. CASE Uart!Push
  <2> DEFINE n == Uart!NextHead
  <2>1. /\ buf' = [buf EXCEPT ![head] = charBuf] /\ head' = n /\ iterCursor' = n
        /\ isFull' = (isFull \/ n = 0) /\ stale' = FALSE
    BY <1>2 DEF Uart!Push, Uart!NewLine
  <2>2. /\ head \in 0..LastSlot /\ n = (IF head = LastSlot THEN 0 ELSE head + 1)
        /\ HistoryLen \in Nat \ {0}
    BY RingIs DEF UartInv, UartTypes, Uart!NextHead
  <2>3. Uart!Slots = 0..LastSlot /\ LastSlot \in Nat
    BY <2>2 DEF Uart!Slots, LastSlot
  <2> HIDE DEF n
  <2>4. n \in Uart!Slots
    BY <2>2, <2>3
  <2>5. /\ buf' \in [Uart!Slots -> Typable \cup {Uart!Null}]
        /\ buf'[head] = charBuf /\ \A i \in Uart!Slots \ {head} : buf'[i] = buf[i]
    BY <1>1, <2>1 DEF UartInv, UartTypes
  <2>6. UartTypes'
    BY <1>1, <2>1, <2>4, <2>5 DEF UartInv, UartTypes
  <2>7. Filled'
    <3> SUFFICES ASSUME NEW i \in Uart!Slots, isFull' \/ i < head' PROVE buf'[i] # Uart!Null
      BY DEF Filled
    <3>1. CASE i = head
      BY <1>1, <2>5, <3>1
    <3>2. CASE i # head
      <4>1. isFull \/ i < head
        <5>1. isFull' => isFull \/ n = 0
          BY <2>1, Zenon
        <5>2. i \in 0..LastSlot /\ (isFull' \/ i < n)
          BY <2>1, <2>3
        <5>3. QED BY <2>2, <2>3, <3>2, <5>1, <5>2
      <4>2. QED BY <2>5, <3>2, <4>1 DEF UartInv, Filled
    <3>3. QED BY <3>1, <3>2
  <2>8. WalkInside'
    BY <2>1, <2>2, <2>3, <2>4 DEF WalkInside
  <2>9. QED BY <1>1, <2>1, <2>6, <2>7, <2>8 DEF UartInv, OwnBehind, Uart!WalkReturns
<1>3. CASE Uart!EndWithoutPush
  <2>1. iterCursor' = iterCursor /\ stale' = (iterCursor # head) /\ UNCHANGED <<buf, head, isFull>>
    BY <1>3 DEF Uart!EndWithoutPush, Uart!NewLine, Uart!hist
  <2>2. UartTypes'
    BY <1>1, <2>1 DEF UartInv, UartTypes
  <2>3. WalkInside'
    <3>1. head \in Int
      BY RingIs DEF UartInv, UartTypes
    <3>2. ~stale' => iterCursor = head
      BY <2>1, Zenon
    <3>3. QED BY <2>1, <3>1, <3>2 DEF WalkInside
  <2>4. QED BY <1>1, <2>1, <2>2, <2>3 DEF UartInv, Filled, OwnBehind, Uart!WalkReturns
<1>4. QED BY <1>2, <1>3

\* Every key keeps the invariant of the command line.
LEMMA UartInductive == UartInv /\ [Uart!Next]_uartVars => UartInv'
<1>1. CASE UartInv /\ Uart!Next
  BY <1>1, EditKeeps, UpKeeps, DownKeeps, BackKeeps, LineKeeps DEF Uart!Next
<1>2. CASE UartInv /\ UNCHANGED uartVars
  BY <1>2 DEF uartVars, UartInv, UartTypes, Filled, WalkInside, OwnBehind, Uart!WalkReturns
<1>3. QED BY <1>1, <1>2

\* The line begins empty, with an empty history.
LEMMA UartStarts == Uart!Init => UartInv
<1> SUFFICES ASSUME Uart!Init PROVE UartInv
  OBVIOUS
<1>1. 0 \in Uart!Slots /\ \A i \in Uart!Slots : ~(i < 0)
  BY TerminalAssumption DEF Uart!Slots
<1>2. UartTypes
  BY <1>1 DEF Uart!Init, UartTypes, Typable
<1>3. QED BY <1>1, <1>2 DEF Uart!Init, UartInv, Filled, WalkInside, OwnBehind, Uart!WalkReturns

-----------------------------------------------------------------------------
(* The files. *)

FileRecord == [name : Files!Names \cup {"closed"}, xmem : 0..(Open + 1)]

FilesTypes ==
  /\ nv \in [Files!NvFiles -> Data \cup {Files!NoData}]
  /\ promised \in [Files!NvFiles -> Data \cup {Files!NoData}]
  /\ writes \in [Files!Handles -> Data \cup {Files!NoData}]
  /\ file \in [Files!Handles -> FileRecord]
  /\ xmem \subseteq 1..(Open + 1)

\* What is closed has no XMEM handle, and no two files have the same.
OneEachXmem ==
  /\ \A f \in Files!Handles : file[f].name = "closed" => file[f].xmem = 0
  /\ \A f, g \in Files!Handles : f # g /\ file[f].xmem # 0 => file[f].xmem # file[g].xmem

FilesInv == FilesTypes /\ OneEachXmem /\ Files!FilesSafe

\* The handles that have an XMEM handle.
WithXmem == {f \in Files!Handles : file[f].xmem # 0}

\* There is an XMEM handle for the next file: there are more than files.
LEMMA XmemLeft ==
  ASSUME FilesInv
  PROVE  Files!NewXmem \in 1..(Open + 1) /\ Files!NewXmem \notin xmem
<1>1. Open \in Nat /\ Files!Handles = 1..Open
  BY TerminalAssumption DEF Files!Handles
<1>2. IsFiniteSet(Files!Handles) /\ Cardinality(Files!Handles) = Open
  <2>1. Cardinality(1..Open) = (IF 1 > Open THEN 0 ELSE Open - 1 + 1) /\ IsFiniteSet(1..Open)
    BY <1>1, FS_Interval
  <2>2. QED BY <1>1, <2>1
<1>3. IsFiniteSet(WithXmem) /\ Cardinality(WithXmem) <= Open
  BY <1>2, FS_Subset DEF WithXmem
<1> DEFINE F == [f \in WithXmem |-> file[f].xmem]
<1>4. F \in Surjection(WithXmem, xmem)
  <2>1. xmem = {file[f].xmem : f \in WithXmem}
    BY DEF FilesInv, Files!FilesSafe, WithXmem
  <2>2. QED BY <2>1 DEF Surjection
<1>5. IsFiniteSet(xmem) /\ Cardinality(xmem) <= Cardinality(WithXmem)
  BY <1>3, <1>4, FS_Surjection
<1>6. Cardinality(1..(Open + 1)) = Open + 1
  <2>1. Cardinality(1..(Open + 1)) = (IF 1 > Open + 1 THEN 0 ELSE (Open + 1) - 1 + 1)
    BY <1>1, FS_Interval
  <2>2. QED BY <1>1, <2>1
<1>7. Cardinality(xmem) \in Nat /\ Cardinality(WithXmem) \in Nat
  BY <1>3, <1>5, FS_CardinalityType
<1>8. \E h \in 1..(Open + 1) : h \notin xmem
  <2> SUFFICES ASSUME 1..(Open + 1) \subseteq xmem PROVE FALSE
    OBVIOUS
  <2>1. Cardinality(1..(Open + 1)) <= Cardinality(xmem)
    BY <1>5, FS_Subset
  <2>2. QED BY <1>1, <1>3, <1>5, <1>6, <1>7, <2>1
<1>9. QED BY <1>8 DEF Files!NewXmem

\* A file is opened: its handle was closed, and it takes a new XMEM handle or none.
LEMMA OpensKeep ==
  ASSUME FilesInv, NEW f \in Files!Handles, ~Files!IsOpen(f),
         NEW r \in FileRecord, r.name # "closed", file' = [file EXCEPT ![f] = r],
         \/ r.xmem = 0 /\ xmem' = xmem
         \/ r.xmem \in (1..(Open + 1)) \ xmem /\ xmem' = xmem \cup {r.xmem},
         UNCHANGED <<nv, promised, writes, cut, manifest>>,
         \A g \in Files!Handles : file'[g].name = "cc35xx-conf" => manifest[confAt'] = "conf"
  PROVE  FilesInv'
<1>1. /\ file' \in [Files!Handles -> FileRecord] /\ file'[f] = r
      /\ \A g \in Files!Handles \ {f} : file'[g] = file[g]
      /\ file[f].xmem = 0
  BY DEF FilesInv, FilesTypes, OneEachXmem, Files!IsOpen
<1>2. \A g \in Files!Handles : file[g].xmem \in Nat /\ file[g].xmem \in xmem \cup {0}
  <2>1. \A g \in Files!Handles : file[g].xmem # 0 => file[g].xmem \in xmem
    BY DEF FilesInv, Files!FilesSafe
  <2>2. \A g \in Files!Handles : file[g] \in FileRecord
    BY DEF FilesInv, FilesTypes
  <2>3. QED BY <2>1, <2>2, TerminalAssumption DEF FileRecord
<1>3. xmem' = {file'[g].xmem : g \in {h \in Files!Handles : file'[h].xmem # 0}}
  <2> DEFINE X == {file'[g].xmem : g \in {h \in Files!Handles : file'[h].xmem # 0}}
  <2>1. xmem = {file[g].xmem : g \in {h \in Files!Handles : file[h].xmem # 0}}
    BY DEF FilesInv, Files!FilesSafe
  <2>2. ASSUME NEW x \in xmem' PROVE x \in X
    <3>1. CASE x \in xmem
      <4>1. PICK g \in Files!Handles : file[g].xmem # 0 /\ x = file[g].xmem
        BY <2>1, <3>1
      <4>2. g # f
        BY <1>1, <4>1
      <4>3. QED BY <1>1, <4>1, <4>2
    <3>2. CASE x \notin xmem
      <4>1. x = r.xmem /\ x # 0
        BY <2>2, <3>2, TerminalAssumption
      <4>2. QED BY <1>1, <4>1
    <3>3. QED BY <3>1, <3>2
  <2>3. ASSUME NEW x \in X PROVE x \in xmem'
    <3>1. PICK g \in Files!Handles : file'[g].xmem # 0 /\ x = file'[g].xmem
      OBVIOUS
    <3>2. CASE g = f
      BY <1>1, <3>1, <3>2
    <3>3. CASE g # f
      BY <1>1, <1>2, <3>1, <3>3
    <3>4. QED BY <3>2, <3>3
  <2> HIDE DEF X
  <2>4. xmem' = X
    BY <2>2, <2>3
  <2>5. QED BY <2>4 DEF X
<1>4. OneEachXmem'
  <2>1. \A g \in Files!Handles : file'[g].name = "closed" => file'[g].xmem = 0
    BY <1>1 DEF FilesInv, OneEachXmem
  <2>2. ASSUME NEW g \in Files!Handles, NEW h \in Files!Handles, g # h, file'[g].xmem # 0
        PROVE  file'[g].xmem # file'[h].xmem
    <3>1. \A k \in Files!Handles \ {f} : file[k].xmem # 0 => file[k].xmem # r.xmem
      BY <1>2
    <3>2. QED BY <1>1, <2>2, <3>1 DEF FilesInv, OneEachXmem
  <2>3. QED BY <2>1, <2>2 DEF OneEachXmem
<1>5. FilesTypes'
  BY <1>1 DEF FilesInv, FilesTypes
<1>6. Files!FilesSafe'
  BY <1>3 DEF FilesInv, Files!FilesSafe
<1>7. QED BY <1>4, <1>5, <1>6 DEF FilesInv

\* A file is opened, whichever of the three kinds it is.
LEMMA OpenKeeps ==
  ASSUME FilesInv, NEW f \in Files!Handles,
         \/ \E n \in Files!Names : Files!OpenPlain(f, n)
         \/ Files!OpenFw(f) \/ Files!OpenConf(f)
  PROVE  FilesInv'
<1>0. /\ (BleFiles \cup WlanFiles) \cap {"fw", "cc35xx-conf", "rambtlr", "closed"} = {}
      /\ Open \in Nat
  BY TerminalAssumption
<1>1. ASSUME NEW n \in Files!Names, Files!OpenPlain(f, n) PROVE FilesInv'
  <2> DEFINE r == [name |-> n, xmem |-> 0]
  <2>1. /\ ~Files!IsOpen(f) /\ n \in Files!NvFiles \cup {"rambtlr"}
        /\ file' = [file EXCEPT ![f] = r]
        /\ UNCHANGED <<nv, xmem, confAt, manifest, slot, writes, promised, cut, boots>>
    BY <1>1 DEF Files!OpenPlain
  <2>2. r \in FileRecord /\ r.xmem = 0 /\ r.name = n
    BY <1>0 DEF FileRecord
  <2>3. n # "closed" /\ n # "cc35xx-conf"
    BY <1>0, <2>1 DEF Files!NvFiles
  <2> HIDE DEF r
  <2>4. \A g \in Files!Handles : file'[g].name = "cc35xx-conf" => manifest[confAt'] = "conf"
    BY <2>1, <2>2, <2>3 DEF FilesInv, FilesTypes, Files!FilesSafe
  <2>5. QED BY <2>1, <2>2, <2>3, <2>4, OpensKeep
<1>2. ASSUME Files!OpenFw(f) PROVE FilesInv'
  <2> DEFINE h == Files!NewXmem
             r == [name |-> "fw", xmem |-> h]
  <2>1. /\ ~Files!IsOpen(f) /\ file' = [file EXCEPT ![f] = r] /\ xmem' = xmem \cup {h}
        /\ UNCHANGED <<nv, confAt, manifest, slot, writes, promised, cut, boots>>
    BY <1>2 DEF Files!OpenFw
  <2>2. h \in (1..(Open + 1)) \ xmem
    BY XmemLeft
  <2> HIDE DEF h
  <2>3. r \in FileRecord /\ r.xmem = h /\ r.name = "fw"
    BY <1>0, <2>2 DEF FileRecord, Files!Names
  <2> HIDE DEF r
  <2>4. \A g \in Files!Handles : file'[g].name = "cc35xx-conf" => manifest[confAt'] = "conf"
    BY <2>1, <2>3 DEF FilesInv, FilesTypes, Files!FilesSafe
  <2>5. QED BY <2>1, <2>2, <2>3, <2>4, OpensKeep
<1>3. ASSUME Files!OpenConf(f) PROVE FilesInv'
  <2> DEFINE h == Files!NewXmem
             r == [name |-> "cc35xx-conf", xmem |-> h]
  <2>1. /\ ~Files!IsOpen(f) /\ file' = [file EXCEPT ![f] = r] /\ xmem' = xmem \cup {h}
        /\ UNCHANGED <<nv, manifest, slot, writes, promised, cut, boots>>
        /\ confAt' \in Files!FindTlv("conf")
    BY <1>3 DEF Files!OpenConf
  <2>2. h \in (1..(Open + 1)) \ xmem
    BY XmemLeft
  <2> HIDE DEF h
  <2>3. r \in FileRecord /\ r.xmem = h /\ r.name = "cc35xx-conf"
    BY <1>0, <2>2 DEF FileRecord, Files!Names
  <2> HIDE DEF r
  <2>4. manifest[confAt'] = "conf"
    BY <2>1 DEF Files!FindTlv
  <2>5. QED BY <2>1, <2>2, <2>3, <2>4, OpensKeep
<1>4. QED BY <1>1, <1>2, <1>3

\* A file is closed.
LEMMA CloseKeeps ==
  ASSUME FilesInv, NEW f \in Files!Handles, Files!Close(f)
  PROVE  FilesInv'
<1> DEFINE gone == IF file[f].name \in BleFiles THEN {file[f].name} ELSE {}
           old == file[f].xmem
<1>1. /\ nv' = [m \in Files!NvFiles |-> IF m \in gone THEN Files!NoData ELSE nv[m]]
      /\ promised' = [m \in Files!NvFiles |-> IF m \in gone THEN Files!NoData ELSE promised[m]]
      /\ cut' = cut \ gone /\ xmem' = xmem \ {old}
      /\ file' = [file EXCEPT ![f] = Files!Closed]
      /\ UNCHANGED <<confAt, manifest, slot, writes, boots>>
  BY DEF Files!Close
<1> HIDE DEF gone
<1>2. Files!Closed \in FileRecord /\ Files!Closed.xmem = 0 /\ Files!Closed.name = "closed"
  BY TerminalAssumption DEF Files!Closed, FileRecord
<1>3. /\ file' \in [Files!Handles -> FileRecord] /\ file'[f] = Files!Closed
      /\ \A g \in Files!Handles \ {f} : file'[g] = file[g]
  BY <1>1, <1>2 DEF FilesInv, FilesTypes
<1>4. /\ nv' \in [Files!NvFiles -> Data \cup {Files!NoData}]
      /\ promised' \in [Files!NvFiles -> Data \cup {Files!NoData}]
  BY <1>1 DEF FilesInv, FilesTypes
<1>5. FilesTypes'
  BY <1>1, <1>3, <1>4 DEF FilesInv, FilesTypes
<1>6. OneEachXmem'
  BY <1>2, <1>3 DEF FilesInv, OneEachXmem
<1>7. xmem' = {file'[g].xmem : g \in {h \in Files!Handles : file'[h].xmem # 0}}
  <2>1. xmem = {file[g].xmem : g \in {h \in Files!Handles : file[h].xmem # 0}}
    BY DEF FilesInv, Files!FilesSafe
  <2>2. ASSUME NEW x PROVE x \in xmem' <=> \E g \in Files!Handles : file'[g].xmem # 0 /\ x = file'[g].xmem
    <3>1. x \in xmem <=> \E g \in Files!Handles : file[g].xmem # 0 /\ x = file[g].xmem
      BY <2>1
    <3>2. x \in xmem' <=> x \in xmem /\ x # old
      BY <1>1
    <3>3. ASSUME NEW g \in Files!Handles, file[g].xmem # 0
          PROVE  file[g].xmem # old <=> g # f
      BY <3>3 DEF FilesInv, OneEachXmem
    <3>4. QED BY <1>2, <1>3, <3>1, <3>2, <3>3
  <2>3. QED BY <2>2
<1>8. \A g \in Files!Handles : file'[g].name = "cc35xx-conf" => manifest'[confAt'] = "conf"
  BY <1>1, <1>2, <1>3 DEF FilesInv, Files!FilesSafe
<1>9. \A n \in Files!NvFiles \ cut' : nv'[n] = promised'[n]
  BY <1>1 DEF FilesInv, Files!FilesSafe
<1>10. QED BY <1>5, <1>6, <1>7, <1>8, <1>9 DEF FilesInv, Files!FilesSafe

\* The steps that leave the handles alone.
LEMMA HandlesKept ==
  ASSUME FilesInv, UNCHANGED <<file, xmem, confAt, manifest>>,
         nv' \in [Files!NvFiles -> Data \cup {Files!NoData}],
         promised' \in [Files!NvFiles -> Data \cup {Files!NoData}],
         writes' \in [Files!Handles -> Data \cup {Files!NoData}],
         \A n \in Files!NvFiles \ cut' : nv'[n] = promised'[n]
  PROVE  FilesInv'
BY DEF FilesInv, FilesTypes, OneEachXmem, Files!FilesSafe

\* A write, in its two halves, and a removal.
LEMMA WriteKeeps ==
  ASSUME FilesInv, NEW f \in Files!Handles,
         \/ \E data \in Data : Files!WriteBegins(f, data)
         \/ Files!WriteEnds(f) \/ Files!WriteFails(f) \/ Files!Remove(f)
  PROVE  FilesInv'
<1> DEFINE n == file[f].name
           no == Files!NoData
<1>0. /\ nv \in [Files!NvFiles -> Data \cup {no}] /\ promised \in [Files!NvFiles -> Data \cup {no}]
      /\ writes \in [Files!Handles -> Data \cup {no}]
      /\ \A m \in Files!NvFiles \ cut : nv[m] = promised[m]
  BY DEF FilesInv, FilesTypes, Files!FilesSafe
<1> HIDE DEF n, no
<1>1. ASSUME NEW data \in Data, Files!WriteBegins(f, data) PROVE FilesInv'
  <2>1. /\ nv' = [nv EXCEPT ![n] = no] /\ writes' = [writes EXCEPT ![f] = data]
        /\ cut' = cut \cup {n} /\ UNCHANGED <<file, xmem, confAt, manifest, promised>>
    BY <1>1 DEF Files!WriteBegins, n, no
  <2>2. /\ nv' \in [Files!NvFiles -> Data \cup {no}] /\ writes' \in [Files!Handles -> Data \cup {no}]
        /\ \A m \in Files!NvFiles \ cut' : nv'[m] = promised'[m]
    BY <1>0, <2>1
  <2>3. QED BY <1>0, <2>1, <2>2, HandlesKept DEF no
<1>2. ASSUME Files!WriteEnds(f) PROVE FilesInv'
  <2>1. /\ nv' = [nv EXCEPT ![n] = writes[f]] /\ promised' = [promised EXCEPT ![n] = writes[f]]
        /\ cut' = cut \ {n} /\ writes' = [writes EXCEPT ![f] = no]
        /\ UNCHANGED <<file, xmem, confAt, manifest>>
    BY <1>2 DEF Files!WriteEnds, n, no
  <2>2. /\ nv' \in [Files!NvFiles -> Data \cup {no}] /\ promised' \in [Files!NvFiles -> Data \cup {no}]
        /\ writes' \in [Files!Handles -> Data \cup {no}]
        /\ \A m \in Files!NvFiles \ cut' : nv'[m] = promised'[m]
    BY <1>0, <2>1
  <2>3. QED BY <2>1, <2>2, HandlesKept DEF no
<1>3. ASSUME Files!WriteFails(f) PROVE FilesInv'
  <2>1. writes' = [writes EXCEPT ![f] = no] /\ UNCHANGED <<nv, file, xmem, confAt, manifest, promised, cut>>
    BY <1>3 DEF Files!WriteFails, no
  <2>2. writes' \in [Files!Handles -> Data \cup {no}]
    BY <1>0, <2>1
  <2>3. QED BY <1>0, <2>1, <2>2, HandlesKept DEF no
<1>4. ASSUME Files!Remove(f) PROVE FilesInv'
  <2>1. /\ nv' = [nv EXCEPT ![".fast"] = no] /\ promised' = [promised EXCEPT ![".fast"] = no]
        /\ cut' = cut \ {".fast"} /\ UNCHANGED <<file, xmem, confAt, manifest, writes>>
    BY <1>4 DEF Files!Remove, no
  <2>2. /\ nv' \in [Files!NvFiles -> Data \cup {no}] /\ promised' \in [Files!NvFiles -> Data \cup {no}]
        /\ \A m \in Files!NvFiles \ cut' : nv'[m] = promised'[m]
    BY <1>0, <2>1
  <2>3. QED BY <1>0, <2>1, <2>2, HandlesKept DEF no
<1>5. QED BY <1>1, <1>2, <1>3, <1>4

\* Power is lost: the handles are gone and the items stay.
LEMMA PowerKeeps ==
  ASSUME FilesInv, Files!PowerLost
  PROVE  FilesInv'
<1> DEFINE c == Files!Closed
<1>1. /\ file' = [f \in Files!Handles |-> c] /\ xmem' = {}
      /\ writes' = [f \in Files!Handles |-> Files!NoData] /\ UNCHANGED <<nv, manifest, promised, cut>>
  BY DEF Files!PowerLost
<1>2. c \in FileRecord /\ c.xmem = 0 /\ c.name = "closed"
  BY TerminalAssumption DEF Files!Closed, FileRecord
<1> HIDE DEF c
<1>3. file' \in [Files!Handles -> FileRecord] /\ \A f \in Files!Handles : file'[f] = c
  BY <1>1, <1>2
<1>4. FilesTypes'
  BY <1>1, <1>3 DEF FilesInv, FilesTypes
<1>5. xmem' = {file'[f].xmem : f \in {g \in Files!Handles : file'[g].xmem # 0}}
  BY <1>1, <1>2, <1>3
<1>6. QED BY <1>1, <1>2, <1>3, <1>4, <1>5 DEF FilesInv, OneEachXmem, Files!FilesSafe

\* Every step of the file layer keeps its invariant.
LEMMA FilesInductive == FilesInv /\ [Files!Next]_filesVars => FilesInv'
<1>1. CASE FilesInv /\ UNCHANGED filesVars
  BY <1>1 DEF filesVars, FilesInv, FilesTypes, OneEachXmem, Files!FilesSafe
<1>2. CASE FilesInv /\ \E s \in {1, 2} : Files!SetSlot(s)
  BY <1>2 DEF Files!SetSlot, FilesInv, FilesTypes, OneEachXmem, Files!FilesSafe
<1>3. CASE FilesInv /\ \E f \in Files!Handles : Files!OpenConfFails(f)
  BY <1>1, <1>3 DEF Files!OpenConfFails, Files!fileVars, filesVars
<1>4. CASE FilesInv /\ Files!Next
  BY <1>2, <1>3, <1>4, OpenKeeps, CloseKeeps, WriteKeeps, PowerKeeps DEF Files!Next
<1>5. QED BY <1>1, <1>4

\* No file is open at first, and nothing was promised.
LEMMA FilesStart == Files!Init => FilesInv
<1> SUFFICES ASSUME Files!Init PROVE FilesInv
  OBVIOUS
<1> DEFINE c == Files!Closed
<1>1. /\ file = [f \in Files!Handles |-> c] /\ xmem = {} /\ nv = [n \in Files!NvFiles |-> Files!NoData]
      /\ writes = [f \in Files!Handles |-> Files!NoData] /\ promised = nv
  BY DEF Files!Init
<1>2. c \in FileRecord /\ c.xmem = 0 /\ c.name = "closed"
  BY TerminalAssumption DEF Files!Closed, FileRecord
<1> HIDE DEF c
<1>3. file \in [Files!Handles -> FileRecord] /\ \A f \in Files!Handles : file[f] = c
  BY <1>1, <1>2
<1>4. FilesTypes
  BY <1>1, <1>3 DEF FilesTypes
<1>5. xmem = {file[f].xmem : f \in {g \in Files!Handles : file[g].xmem # 0}}
  BY <1>1, <1>2, <1>3
<1>6. QED BY <1>1, <1>2, <1>3, <1>4, <1>5 DEF FilesInv, OneEachXmem, Files!FilesSafe

-----------------------------------------------------------------------------
(* The vendor elements.  A list is a cycle: its nodes are numbered, the sentinel is 0. *)

Size == Cardinality(Nodes)

Chain(h, hd, n, c) ==
  /\ c \in [0..n -> Nodes] /\ c[0] = hd
  /\ \A i, j \in 0..n : c[i] = c[j] => i = j
  /\ \A i \in 0..n : /\ c[i] \in DOMAIN h
                     /\ h[c[i]].next = IF i = n THEN hd ELSE c[i + 1]
                     /\ h[c[i]].oui = Vie!End <=> i = 0

\* What a walk has after some steps.
Prefix(c, m) == [i \in 1..(m + 1) |-> c[i - 1]]
Reach(k, n) == IF k < n THEN k ELSE n
Grow(w, h, hd, k) ==
  IF k = 0 THEN <<hd>>
  ELSE LET l == w[k - 1] last == l[Len(l)] IN
       IF last \in DOMAIN h /\ h[last].next # hd THEN Append(l, h[last].next) ELSE l

\* The walk is the last of the prefixes, without the sentinel.
LEMMA WalkDef ==
  ASSUME NEW h, NEW hd
  PROVE  Vie!Walk(h, hd) = Tail((CHOOSE w : w = [k \in 0..Size |-> Grow(w, h, hd, k)])[Size])
<1>1. Vie!Cardinality(Nodes) = Size
  BY DEF Vie!Cardinality, Cardinality, Size
<1> HIDE DEF Size
<1>2. QED BY <1>1 DEF Vie!Walk, Grow

\* A prefix, and the next one.
LEMMA PrefixIs ==
  ASSUME NEW n \in Nat, NEW c \in [0..n -> Nodes], NEW m \in 0..n
  PROVE  /\ Prefix(c, m) \in Seq(Nodes) /\ Len(Prefix(c, m)) = m + 1
         /\ \A i \in 1..(m + 1) : Prefix(c, m)[i] = c[i - 1]
         /\ m = 0 => Prefix(c, m) = <<c[0]>>
         /\ m < n => Append(Prefix(c, m), c[m + 1]) = Prefix(c, m + 1)
         /\ Tail(Prefix(c, m)) = [i \in 1..m |-> c[i]]
<1>1. ASSUME NEW k \in 0..n
      PROVE  /\ Prefix(c, k) \in Seq(Nodes) /\ Len(Prefix(c, k)) = k + 1
             /\ \A i \in 1..(k + 1) : Prefix(c, k)[i] = c[i - 1]
  <2>1. \A i \in 1..(k + 1) : i - 1 \in 0..n
    OBVIOUS
  <2>2. QED BY <2>1 DEF Prefix
<1>2. ASSUME m = 0 PROVE Prefix(c, m) = <<c[0]>>
  <2> DEFINE p == Prefix(c, m)
  <2>1. p \in Seq(Nodes) /\ Len(p) = 1 /\ p[1] = c[0]
    BY <1>1, <1>2
  <2>2. <<c[0]>> \in Seq(Nodes) /\ Len(<<c[0]>>) = 1 /\ <<c[0]>>[1] = c[0]
    OBVIOUS
  <2> HIDE DEF p
  <2>3. p = <<c[0]>>
    BY <2>1, <2>2, SeqEqual
  <2>4. QED BY <2>3 DEF p
<1>3. ASSUME m < n PROVE Append(Prefix(c, m), c[m + 1]) = Prefix(c, m + 1)
  <2> DEFINE p == Prefix(c, m)
             q == Prefix(c, m + 1)
             a == Append(p, c[m + 1])
  <2>1. m + 1 \in 0..n /\ c[m + 1] \in Nodes
    BY <1>3
  <2>2. /\ p \in Seq(Nodes) /\ Len(p) = m + 1 /\ \A i \in 1..(m + 1) : p[i] = c[i - 1]
        /\ q \in Seq(Nodes) /\ Len(q) = m + 2 /\ \A i \in 1..(m + 2) : q[i] = c[i - 1]
    BY <1>1, <2>1
  <2> HIDE DEF p, q
  <2>3. a \in Seq(Nodes) /\ Len(a) = m + 2
    BY <2>1, <2>2
  <2>4. \A i \in 1..(m + 2) : a[i] = q[i]
    <3> SUFFICES ASSUME NEW i \in 1..(m + 2) PROVE a[i] = q[i]
      OBVIOUS
    <3>1. CASE i = m + 2
      BY <2>1, <2>2, <3>1
    <3>2. CASE i # m + 2
      <4>1. i \in 1..Len(p) /\ i \in 1..(m + 1) /\ p[i] = q[i]
        BY <2>2, <3>2
      <4>2. a[i] = p[i]
        BY <2>1, <2>2, <4>1, AppendProperties
      <4>3. QED BY <4>1, <4>2
    <3>3. QED BY <3>1, <3>2
  <2> HIDE DEF a
  <2>5. a = q
    BY <2>2, <2>3, <2>4, SeqEqual
  <2>6. QED BY <2>5 DEF a, p, q
<1>4. Tail(Prefix(c, m)) = [i \in 1..m |-> c[i]]
  <2> DEFINE p == Prefix(c, m)
             t == Tail(p)
             f == [i \in 1..m |-> c[i]]
  <2>1. p \in Seq(Nodes) /\ Len(p) = m + 1 /\ \A i \in 1..(m + 1) : p[i] = c[i - 1]
    BY <1>1
  <2> HIDE DEF p
  <2>2. t \in Seq(Nodes) /\ Len(t) = m /\ \A i \in 1..m : t[i] = p[i + 1]
    BY <2>1
  <2>3. f \in Seq(Nodes) /\ Len(f) = m /\ \A i \in 1..m : f[i] = c[i]
    <3>1. \A i \in 1..m : c[i] \in Nodes
      OBVIOUS
    <3>2. QED BY <3>1
  <2>4. \A i \in 1..m : t[i] = f[i]
    BY <2>1, <2>2, <2>3
  <2> HIDE DEF t, f
  <2>5. t = f
    BY <2>2, <2>3, <2>4, SeqEqual
  <2>6. QED BY <2>5 DEF t, f, p
<1>5. QED BY <1>1, <1>2, <1>3, <1>4

\* One step more along a list.
LEMMA GrowIs ==
  ASSUME NEW h, NEW hd, NEW n \in Nat, NEW c, Chain(h, hd, n, c), NEW w, NEW k \in Nat, k > 0,
         w[k - 1] = Prefix(c, Reach(k - 1, n))
  PROVE  Grow(w, h, hd, k) = Prefix(c, Reach(k, n))
<1> DEFINE m == Reach(k - 1, n)
           l == Prefix(c, m)
<1>1. m \in 0..n /\ Reach(k, n) = (IF m < n THEN m + 1 ELSE m)
  BY DEF Reach
<1>2. c \in [0..n -> Nodes]
  BY DEF Chain
<1>3. l \in Seq(Nodes) /\ Len(l) = m + 1 /\ l[m + 1] = c[m]
  <2>1. m + 1 \in 1..(m + 1) /\ (m + 1) - 1 = m
    BY <1>1
  <2> HIDE DEF m
  <2>2. QED BY <1>1, <1>2, <2>1, PrefixIs
<1>4. Grow(w, h, hd, k) = IF c[m] \in DOMAIN h /\ h[c[m]].next # hd THEN Append(l, h[c[m]].next) ELSE l
  <2>1. w[k - 1] = l /\ k # 0
    OBVIOUS
  <2> HIDE DEF l, m
  <2>2. QED BY <1>3, <2>1 DEF Grow
<1> HIDE DEF l
<1>5. c[m] \in DOMAIN h /\ h[c[m]].next = (IF m = n THEN hd ELSE c[m + 1])
  BY <1>1 DEF Chain
<1>6. CASE m = n
  BY <1>1, <1>4, <1>5, <1>6 DEF l
<1>7. CASE m # n
  <2>1. m < n /\ m + 1 \in 0..n
    BY <1>1, <1>7
  <2>2. c[m + 1] # hd
    BY <1>1, <2>1 DEF Chain
  <2>3. Grow(w, h, hd, k) = Append(l, c[m + 1])
    BY <1>4, <1>5, <1>7, <2>2
  <2> HIDE DEF m
  <2>4. Append(l, c[m + 1]) = Prefix(c, m + 1)
    BY <1>1, <1>2, <2>1, PrefixIs DEF l
  <2>5. QED BY <1>1, <2>1, <2>3, <2>4
<1>8. QED BY <1>6, <1>7

\* A list has no more nodes than there are.
LEMMA ChainShort ==
  ASSUME NEW h, NEW hd, NEW n \in Nat, NEW c, Chain(h, hd, n, c)
  PROVE  Size \in Nat /\ n < Size
<1>1. c \in Injection(0..n, Nodes)
  BY DEF Chain, Injection, IsInjective
<1>2. IsFiniteSet(Nodes)
  BY TerminalAssumption
<1>3. Cardinality(0..n) <= Size
  BY <1>1, <1>2, FS_Injection DEF Size
<1>4. Cardinality(0..n) = n + 1
  <2>1. Cardinality(0..n) = (IF 0 > n THEN 0 ELSE n - 0 + 1)
    BY FS_Interval
  <2>2. QED BY <2>1
<1>5. Size \in Nat
  BY <1>2, FS_CardinalityType DEF Size
<1>6. QED BY <1>3, <1>4, <1>5

\* The walk through a list is the list without its sentinel.
LEMMA WalkIs ==
  ASSUME NEW h, NEW hd, NEW n \in Nat, NEW c, Chain(h, hd, n, c)
  PROVE  Vie!Walk(h, hd) = [i \in 1..n |-> c[i]]
<1> DEFINE W == [k \in 0..Size |-> Prefix(c, Reach(k, n))]
           v == CHOOSE w : w = [k \in 0..Size |-> Grow(w, h, hd, k)]
<1>1. Size \in Nat /\ n < Size /\ c \in [0..n -> Nodes] /\ c[0] = hd
  <2>1. Size \in Nat /\ n < Size
    BY ChainShort
  <2>2. QED BY <2>1 DEF Chain
<1>2. \A k \in 0..Size : W[k] = Prefix(c, Reach(k, n))
  OBVIOUS
<1>3. Prefix(c, Reach(0, n)) = <<hd>>
  <2>1. Reach(0, n) = 0 /\ 0 \in 0..n
    BY DEF Reach
  <2>2. Prefix(c, 0) = <<c[0]>>
    BY <1>1, <2>1, PrefixIs
  <2>3. QED BY <1>1, <2>1, <2>2
<1> HIDE DEF W
<1>4. ASSUME NEW k \in 0..Size PROVE Grow(W, h, hd, k) = Prefix(c, Reach(k, n))
  <2>1. CASE k = 0
    BY <1>3, <2>1 DEF Grow
  <2>2. CASE k # 0
    <3>1. k \in Nat /\ k > 0 /\ k - 1 \in 0..Size
      BY <1>1, <2>2
    <3>2. W[k - 1] = Prefix(c, Reach(k - 1, n))
      BY <1>2, <3>1
    <3>3. QED BY <3>1, <3>2, GrowIs
  <2>3. QED BY <2>1, <2>2
<1>5. W = [k \in 0..Size |-> Grow(W, h, hd, k)]
  BY <1>4 DEF W
<1>6. v = [k \in 0..Size |-> Grow(v, h, hd, k)]
  BY <1>5
<1> HIDE DEF v
<1>7. \A k \in 0..Size : v[k] = Grow(v, h, hd, k)
  BY <1>6
<1>8. \A k \in 0..Size : v[k] = Prefix(c, Reach(k, n))
  <2> DEFINE B == {k \in 0..Size : v[k] # Prefix(c, Reach(k, n))}
  <2> SUFFICES B = {}
    OBVIOUS
  <2> SUFFICES ASSUME B # {} PROVE FALSE
    OBVIOUS
  <2>1. B \subseteq Nat
    BY <1>1
  <2>2. PICK k \in B : \A y \in B : k <= y
    <3> HIDE DEF B
    <3>1. QED BY <2>1, LeastOne
  <2>3. k \in 0..Size /\ v[k] # Prefix(c, Reach(k, n))
    OBVIOUS
  <2>4. CASE k = 0
    BY <1>3, <1>7, <2>3, <2>4 DEF Grow
  <2>5. CASE k # 0
    <3>1. k \in Nat /\ k > 0 /\ k - 1 \in 0..Size
      BY <1>1, <2>3, <2>5
    <3>2. k - 1 \notin B
      BY <2>2, <3>1
    <3>3. v[k - 1] = Prefix(c, Reach(k - 1, n))
      BY <3>1, <3>2
    <3> HIDE DEF B
    <3>4. Grow(v, h, hd, k) = Prefix(c, Reach(k, n))
      BY <3>1, <3>3, GrowIs
    <3>5. QED BY <1>7, <2>3, <3>4
  <2>6. QED BY <2>4, <2>5
<1>9. v[Size] = Prefix(c, n)
  BY <1>1, <1>8 DEF Reach
<1>10. Vie!Walk(h, hd) = Tail(v[Size])
  BY WalkDef DEF v
<1>11. n \in 0..n
  OBVIOUS
<1>12. QED BY <1>1, <1>9, <1>10, <1>11, PrefixIs

\* The nodes of a list.
On(c, n) == {c[i] : i \in 0..n}
OuisOn(h, c, n) == [i \in 1..n |-> h[c[i]].oui]
MembersOf(h, hd) == Vie!Range(Vie!Walk(h, hd)) \cup {hd}

\* The walk shows the oui of the list's elements.
LEMMA ChainOuis ==
  ASSUME NEW h, NEW hd, NEW n \in Nat, NEW c, Chain(h, hd, n, c)
  PROVE  Vie!OuisOf(h, hd) = OuisOn(h, c, n)
<1> DEFINE w == [i \in 1..n |-> c[i]]
<1>1. Vie!Walk(h, hd) = w
  BY WalkIs
<1>2. DOMAIN w = 1..n /\ \A i \in 1..n : w[i] = c[i]
  OBVIOUS
<1> HIDE DEF w
<1>3. \A i \in 1..n : c[i] \in DOMAIN h
  BY DEF Chain
<1>4. Vie!OuisOf(h, hd) = [k \in DOMAIN w |-> IF w[k] \in DOMAIN h THEN h[w[k]].oui ELSE Vie!Null]
  BY <1>1 DEF Vie!OuisOf
<1>5. QED BY <1>2, <1>3, <1>4 DEF OuisOn

\* What the walk through a list shows.
LEMMA ChainShows ==
  ASSUME NEW h, NEW hd, NEW n \in Nat, NEW c, Chain(h, hd, n, c)
  PROVE  /\ MembersOf(h, hd) = On(c, n)
         /\ Vie!Range(Vie!Walk(h, hd)) = {c[i] : i \in 1..n}
         /\ Vie!IsInjective(Vie!Walk(h, hd))
         /\ Vie!OuisOf(h, hd) = OuisOn(h, c, n)
         /\ On(c, n) \subseteq DOMAIN h
         /\ \A x \in On(c, n) : h[x].oui = Vie!End <=> x = hd
<1> DEFINE w == [i \in 1..n |-> c[i]]
<1>1. Vie!Walk(h, hd) = w
  BY WalkIs
<1>2. DOMAIN w = 1..n /\ \A i \in 1..n : w[i] = c[i]
  OBVIOUS
<1> HIDE DEF w
<1>3. Vie!Range(w) = {c[i] : i \in 1..n}
  BY <1>2 DEF Vie!Range
<1>4. c[0] = hd /\ \A i \in 1..n : i \in 0..n
  BY DEF Chain
<1>5. {c[i] : i \in 1..n} \cup {hd} = On(c, n)
  <2>1. \A i \in 0..n : i = 0 \/ i \in 1..n
    OBVIOUS
  <2>2. 0 \in 0..n
    OBVIOUS
  <2>3. QED BY <1>4, <2>1, <2>2 DEF On
<1>6. Vie!IsInjective(w)
  BY <1>2, <1>4 DEF Vie!IsInjective, Chain
<1>7. Vie!OuisOf(h, hd) = OuisOn(h, c, n)
  BY ChainOuis
<1>8. On(c, n) \subseteq DOMAIN h
  BY DEF On, Chain
<1>9. \A x \in On(c, n) : h[x].oui = Vie!End <=> x = hd
  <2> SUFFICES ASSUME NEW i \in 0..n PROVE h[c[i]].oui = Vie!End <=> c[i] = hd
    BY DEF On
  <2>1. 0 \in 0..n
    OBVIOUS
  <2>2. c[i] = hd <=> i = 0
    BY <2>1 DEF Chain
  <2>3. QED BY <2>2 DEF Chain
<1>10. QED BY <1>1, <1>3, <1>5, <1>6, <1>7, <1>8, <1>9 DEF MembersOf

\* A list whose nodes are left alone is the same list.
LEMMA ChainFrame ==
  ASSUME NEW h, NEW g, NEW hd, NEW n \in Nat, NEW c, Chain(h, hd, n, c),
         \A x \in MembersOf(h, hd) : x \in DOMAIN g /\ g[x] = h[x]
  PROVE  /\ Chain(g, hd, n, c) /\ MembersOf(g, hd) = MembersOf(h, hd)
         /\ Vie!OuisOf(g, hd) = Vie!OuisOf(h, hd)
<1>1. MembersOf(h, hd) = On(c, n) /\ Vie!OuisOf(h, hd) = OuisOn(h, c, n)
  BY ChainShows
<1>2. \A i \in 0..n : c[i] \in DOMAIN g /\ g[c[i]] = h[c[i]]
  BY <1>1 DEF On
<1>3. Chain(g, hd, n, c)
  BY <1>2 DEF Chain
<1>4. MembersOf(g, hd) = On(c, n) /\ Vie!OuisOf(g, hd) = OuisOn(g, c, n)
  <2>1. MembersOf(g, hd) = On(c, n)
    BY <1>3, ChainShows
  <2>2. Vie!OuisOf(g, hd) = OuisOn(g, c, n)
    BY <1>3, ChainOuis
  <2>3. QED BY <2>1, <2>2
<1>5. OuisOn(g, c, n) = OuisOn(h, c, n)
  <2>1. \A i \in 1..n : i \in 0..n
    OBVIOUS
  <2>2. QED BY <1>2, <2>1 DEF OuisOn
<1>6. QED BY <1>1, <1>3, <1>4, <1>5

VieNode == [oui : {"oui1", "oui2", Vie!End}, next : Nodes]
VieStep == [does : {"nothing", "add", "delete", "list"}, role : VieRoles \cup {Vie!Null}, i : 0..2]

VieTypes ==
  /\ vieHead \in [VieRoles -> Nodes \cup {Vie!Null}]
  /\ DOMAIN heap \subseteq Nodes /\ heap \in [DOMAIN heap -> VieNode]
  /\ firmware = [r \in VieRoles |-> firmware[r]]
  /\ step \in VieStep

HasList(r) == vieHead[r] # Vie!Null

\* A command that runs has a list to run on.
Running ==
  step.does # "nothing" => step.role \in VieRoles /\ HasList(step.role) /\ step.i \in {1, 2}

\* What a role has is a list, and no two roles share a node.
Listed ==
  \A r \in VieRoles : HasList(r) =>
    \E n \in Nat : \E c \in [0..n -> Nodes] : Chain(heap, vieHead[r], n, c)
Separate ==
  \A q, r \in VieRoles : q # r /\ HasList(q) /\ HasList(r) =>
    MembersOf(heap, vieHead[q]) \cap MembersOf(heap, vieHead[r]) = {}

\* The firmware has the elements of the list at every step of a command, unless it was not
\* told of the last change.
Shown(r) == IF HasList(r) THEN Vie!OuisOf(heap, vieHead[r]) ELSE <<>>
Sent == \A r \in VieRoles \ untold : firmware[r] = Shown(r)

VieInv == VieTypes /\ Running /\ Listed /\ Separate /\ Sent

\* The roles whose list a step does not touch.
LEMMA OthersListed ==
  ASSUME VieInv, NEW q \in VieRoles, HasList(q), vieHead'[q] = vieHead[q],
         \A x \in MembersOf(heap, vieHead[q]) : x \in DOMAIN heap' /\ heap'[x] = heap[x]
  PROVE  /\ \E n \in Nat : \E c \in [0..n -> Nodes] : Chain(heap', vieHead[q], n, c)
         /\ MembersOf(heap', vieHead[q]) = MembersOf(heap, vieHead[q])
         /\ Vie!OuisOf(heap', vieHead[q]) = Vie!OuisOf(heap, vieHead[q])
         /\ MembersOf(heap, vieHead[q]) \subseteq DOMAIN heap
<1>1. PICK n \in Nat : \E c \in [0..n -> Nodes] : Chain(heap, vieHead[q], n, c)
  BY DEF VieInv, Listed
<1>2. PICK c \in [0..n -> Nodes] : Chain(heap, vieHead[q], n, c)
  BY <1>1
<1>3. /\ Chain(heap', vieHead[q], n, c)
      /\ MembersOf(heap', vieHead[q]) = MembersOf(heap, vieHead[q])
      /\ Vie!OuisOf(heap', vieHead[q]) = Vie!OuisOf(heap, vieHead[q])
  BY <1>2, ChainFrame
<1>4. MembersOf(heap, vieHead[q]) \subseteq DOMAIN heap
  BY <1>2, ChainShows
<1>5. QED BY <1>3, <1>4

\* One role's list changes: what it gains was free, and no other list is touched.
LEMMA OneListChanges ==
  ASSUME VieInv, VieTypes', Running', NEW r \in VieRoles, NEW hd,
         vieHead' = [vieHead EXCEPT ![r] = hd],
         \A q \in VieRoles \ {r} : HasList(q) =>
           \A x \in MembersOf(heap, vieHead[q]) : x \in DOMAIN heap' /\ heap'[x] = heap[x],
         hd # Vie!Null =>
           \E n \in Nat : \E c \in [0..n -> Nodes] :
             /\ Chain(heap', hd, n, c)
             /\ \A i \in 0..n : \/ c[i] \notin DOMAIN heap
                                \/ HasList(r) /\ c[i] \in MembersOf(heap, vieHead[r]),
         untold \ {r} \subseteq untold',
         \A q \in VieRoles \ {r} : firmware'[q] = firmware[q],
         r \notin untold' => firmware'[r] = (IF hd = Vie!Null THEN <<>> ELSE Vie!OuisOf(heap', hd))
  PROVE  VieInv'
<1>1. vieHead'[r] = hd /\ \A q \in VieRoles \ {r} : vieHead'[q] = vieHead[q]
  BY DEF VieInv, VieTypes
<1>2. ASSUME NEW q \in VieRoles \ {r}, HasList(q)
      PROVE  /\ \E n \in Nat : \E c \in [0..n -> Nodes] : Chain(heap', vieHead'[q], n, c)
             /\ MembersOf(heap', vieHead'[q]) = MembersOf(heap, vieHead[q])
             /\ Vie!OuisOf(heap', vieHead'[q]) = Vie!OuisOf(heap, vieHead[q])
             /\ MembersOf(heap, vieHead[q]) \subseteq DOMAIN heap
  BY <1>1, <1>2, OthersListed
<1>3. Listed'
  <2> SUFFICES ASSUME NEW q \in VieRoles, vieHead'[q] # Vie!Null
               PROVE  \E n \in Nat : \E c \in [0..n -> Nodes] : Chain(heap', vieHead'[q], n, c)
    BY DEF Listed, HasList
  <2>1. CASE q = r
    BY <1>1, <2>1
  <2>2. CASE q # r
    BY <1>1, <1>2, <2>2 DEF HasList
  <2>3. QED BY <2>1, <2>2
<1>4. ASSUME NEW q \in VieRoles \ {r}, HasList(q), hd # Vie!Null
      PROVE  MembersOf(heap', vieHead'[q]) \cap MembersOf(heap', hd) = {}
  <2>1. PICK n \in Nat : \E c \in [0..n -> Nodes] :
             /\ Chain(heap', hd, n, c)
             /\ \A i \in 0..n : \/ c[i] \notin DOMAIN heap
                                \/ HasList(r) /\ c[i] \in MembersOf(heap, vieHead[r])
    BY <1>4
  <2>2. PICK c \in [0..n -> Nodes] :
             /\ Chain(heap', hd, n, c)
             /\ \A i \in 0..n : \/ c[i] \notin DOMAIN heap
                                \/ HasList(r) /\ c[i] \in MembersOf(heap, vieHead[r])
    BY <2>1
  <2>3. MembersOf(heap', hd) = On(c, n)
    BY <2>2, ChainShows
  <2>4. HasList(r) => MembersOf(heap, vieHead[q]) \cap MembersOf(heap, vieHead[r]) = {}
    BY <1>4 DEF VieInv, Separate
  <2>5. QED BY <1>2, <1>4, <2>2, <2>3, <2>4 DEF On
<1>5. Separate'
  <2> SUFFICES ASSUME NEW p \in VieRoles, NEW q \in VieRoles, p # q,
                      vieHead'[p] # Vie!Null, vieHead'[q] # Vie!Null
               PROVE  MembersOf(heap', vieHead'[p]) \cap MembersOf(heap', vieHead'[q]) = {}
    BY DEF Separate, HasList
  <2>1. CASE p = r
    BY <1>1, <1>4, <2>1 DEF HasList
  <2>2. CASE q = r
    BY <1>1, <1>4, <2>2 DEF HasList
  <2>3. CASE p # r /\ q # r
    <3>1. HasList(p) /\ HasList(q)
      BY <1>1, <2>3 DEF HasList
    <3>2. MembersOf(heap, vieHead[p]) \cap MembersOf(heap, vieHead[q]) = {}
      BY <3>1 DEF VieInv, Separate
    <3>3. QED BY <1>2, <2>3, <3>1, <3>2
  <2>4. QED BY <2>1, <2>2, <2>3
<1>6. Sent'
  <2> SUFFICES ASSUME NEW q \in VieRoles \ untold'
               PROVE  firmware'[q] = IF vieHead'[q] # Vie!Null THEN Vie!OuisOf(heap', vieHead'[q]) ELSE <<>>
    BY DEF Sent, Shown, HasList
  <2>1. CASE q = r
    BY <1>1, <2>1
  <2>2. CASE q # r
    <3>1. firmware'[q] = firmware[q] /\ firmware[q] = Shown(q)
      BY <2>2 DEF VieInv, Sent
    <3>2. QED BY <1>1, <1>2, <2>2, <3>1 DEF Shown, HasList
  <2>3. QED BY <2>1, <2>2
<1>7. QED BY <1>3, <1>5, <1>6 DEF VieInv

\* A list is made.
LEMMA CreatesKeeps ==
  ASSUME VieInv, NEW r \in VieRoles, NEW then \in {Vie!Done, Vie!ToDo("add", r, 1)},
         step = Vie!Done, Vie!Creates(r, then)
  PROVE  VieInv'
<1> DEFINE n == Vie!FreeNode
           rec == Vie!Node(Vie!End, n)
           d == [i \in 0..0 |-> n]
<1>1. n \in Nodes /\ n \notin DOMAIN heap
  BY DEF Vie!Creates, Vie!HasNode, Vie!FreeNode
<1>2. /\ heap' = Vie!With(heap, n, rec) /\ vieHead' = [vieHead EXCEPT ![r] = n]
      /\ untold' = (IF vieHead[r] = Vie!Null THEN untold ELSE untold \cup {r})
      /\ step' = then /\ UNCHANGED firmware
  BY DEF Vie!Creates
<1>3. n # Vie!Null
  BY <1>1, TerminalAssumption DEF Vie!Null
<1> HIDE DEF n
<1>4. rec \in VieNode /\ rec.oui = Vie!End /\ rec.next = n
  BY <1>1 DEF Vie!Node, VieNode
<1> HIDE DEF rec
<1>5. /\ DOMAIN heap' = DOMAIN heap \cup {n} /\ heap'[n] = rec
      /\ heap' = [x \in DOMAIN heap' |-> heap'[x]]
      /\ \A x \in DOMAIN heap : heap'[x] = heap[x]
  <2>1. heap' = Vie!With(heap, n, rec)
    BY <1>2
  <2>2. heap' = [x \in DOMAIN heap \cup {n} |-> IF x = n THEN rec ELSE heap[x]]
    BY <2>1 DEF Vie!With
  <2>3. QED BY <1>1, <2>2
<1>6. heap' \in [DOMAIN heap' -> VieNode]
  BY <1>4, <1>5 DEF VieInv, VieTypes
<1>7. step' \in VieStep /\ (step'.does # "nothing" => step'.role = r /\ step'.i = 1)
  BY <1>2 DEF Vie!Done, Vie!ToDo, VieStep
<1>8. VieTypes'
  <2>1. vieHead' \in [VieRoles -> Nodes \cup {Vie!Null}]
    BY <1>1, <1>2 DEF VieInv, VieTypes
  <2>2. firmware' = [q \in VieRoles |-> firmware'[q]]
    BY <1>2 DEF VieInv, VieTypes
  <2>3. QED BY <1>1, <1>5, <1>6, <1>7, <2>1, <2>2 DEF VieInv, VieTypes
<1>9. vieHead'[r] = n
  BY <1>2 DEF VieInv, VieTypes
<1>10. Running'
  BY <1>3, <1>7, <1>9 DEF Running, HasList
<1>11. Chain(heap', n, 0, d)
  <2>1. d \in [0..0 -> Nodes] /\ \A i \in 0..0 : i = 0 /\ d[i] = n
    BY <1>1
  <2>2. 0 \in 0..0
    OBVIOUS
  <2> HIDE DEF d
  <2>3. n \in DOMAIN heap' /\ heap'[n].next = n /\ heap'[n].oui = Vie!End
    BY <1>4, <1>5
  <2>4. QED BY <2>1, <2>2, <2>3 DEF Chain
<1>12. \A i \in 0..0 : d[i] \notin DOMAIN heap
  BY <1>1
<1>13. \E m \in Nat : \E c \in [0..m -> Nodes] :
         /\ Chain(heap', n, m, c)
         /\ \A i \in 0..m : \/ c[i] \notin DOMAIN heap
                            \/ HasList(r) /\ c[i] \in MembersOf(heap, vieHead[r])
  <2>1. d \in [0..0 -> Nodes] /\ 0 \in Nat
    BY <1>1
  <2> HIDE DEF d
  <2>2. QED BY <1>11, <1>12, <2>1
<1>14. \A q \in VieRoles \ {r} : HasList(q) =>
           \A x \in MembersOf(heap, vieHead[q]) : x \in DOMAIN heap' /\ heap'[x] = heap[x]
  <2> SUFFICES ASSUME NEW q \in VieRoles, HasList(q)
               PROVE  MembersOf(heap, vieHead[q]) \subseteq DOMAIN heap
    BY <1>5
  <2>1. PICK m \in Nat : \E c \in [0..m -> Nodes] : Chain(heap, vieHead[q], m, c)
    BY DEF VieInv, Listed
  <2>2. QED BY <2>1, ChainShows
<1>15. r \notin untold' => firmware'[r] = (IF n = Vie!Null THEN <<>> ELSE Vie!OuisOf(heap', n))
  <2> SUFFICES ASSUME r \notin untold' PROVE firmware'[r] = Vie!OuisOf(heap', n)
    BY <1>3
  <2>1. vieHead[r] = Vie!Null /\ r \notin untold
    BY <1>2
  <2>2. firmware[r] = <<>>
    BY <2>1 DEF VieInv, Sent, Shown, HasList
  <2>3. Vie!OuisOf(heap', n) = OuisOn(heap', d, 0)
    BY <1>11, ChainOuis
  <2>4. OuisOn(heap', d, 0) = <<>>
    BY DEF OuisOn
  <2>5. QED BY <1>2, <2>2, <2>3, <2>4
<1>16. untold \ {r} \subseteq untold' /\ \A q \in VieRoles \ {r} : firmware'[q] = firmware[q]
  BY <1>2
<1> HIDE DEF d
<1>17. QED BY <1>2, <1>3, <1>8, <1>10, <1>13, <1>14, <1>15, <1>16, OneListChanges

\* A template is sent, or the firmware is not told and the command ends.
LEMMA SendOutcome ==
  ASSUME VieTypes, NEW h, NEW then, Vie!SendsOrEnds(h, then)
  PROVE  /\ firmware' = [q \in VieRoles |-> firmware'[q]]
         /\ \A q \in VieRoles \ {step.role} : firmware'[q] = firmware[q]
         /\ untold \ {step.role} \subseteq untold'
         /\ step.role \in VieRoles \ untold' => firmware'[step.role] = Vie!OuisOf(h, vieHead[step.role])
         /\ step' \in {then, Vie!Done}
<1>1. firmware = [q \in VieRoles |-> firmware[q]]
  BY DEF VieTypes
<1>2. CASE Vie!Sends(step.role, Vie!OuisOf(h, vieHead[step.role])) /\ step' = then
  BY <1>1, <1>2 DEF Vie!Sends
<1>3. CASE Vie!SendFails(step.role) /\ step' = Vie!Done
  BY <1>1, <1>3 DEF Vie!SendFails
<1>4. QED BY <1>2, <1>3 DEF Vie!SendsOrEnds

\* add_vendor_ie with memory for the element.
AddsNode ==
  /\ step.does = "add" /\ Vie!HasNode
  /\ heap' = Vie!With([heap EXCEPT ![vieHead[step.role]].next = Vie!FreeNode], Vie!FreeNode,
                      Vie!Node(Vie!Ouis[step.i], heap[vieHead[step.role]].next))
  /\ Vie!SendsOrEnds(heap', IF step.i = 1 THEN [step EXCEPT !.i = 2] ELSE Vie!Done)
  /\ vieHead' = vieHead

\* An element goes behind the sentinel.
LEMMA AddKeeps ==
  ASSUME VieInv, AddsNode
  PROVE  VieInv'
<1> DEFINE n == Vie!FreeNode
           r == step.role
           hd == vieHead[r]
           oui == Vie!Ouis[step.i]
           old == heap[hd].next
           h == [heap EXCEPT ![hd].next = n]
<1>1. /\ n \in Nodes /\ n \notin DOMAIN heap
      /\ heap' = Vie!With(h, n, Vie!Node(oui, old))
      /\ vieHead' = vieHead
  BY DEF AddsNode, Vie!HasNode, Vie!FreeNode
<1>0. /\ firmware' = [q \in VieRoles |-> firmware'[q]]
      /\ \A q \in VieRoles \ {r} : firmware'[q] = firmware[q]
      /\ untold \ {r} \subseteq untold'
      /\ r \in VieRoles \ untold' => firmware'[r] = Vie!OuisOf(heap', hd)
      /\ step' \in {IF step.i = 1 THEN [step EXCEPT !.i = 2] ELSE Vie!Done, Vie!Done}
  BY SendOutcome DEF VieInv, AddsNode
<1>2. r \in VieRoles /\ HasList(r) /\ step.i \in {1, 2} /\ step \in VieStep
  BY DEF VieInv, VieTypes, Running, AddsNode
<1>3. oui \in {"oui1", "oui2"}
  BY <1>2 DEF Vie!Ouis
<1> HIDE DEF n
<1>4. PICK m \in Nat : \E c \in [0..m -> Nodes] : Chain(heap, hd, m, c)
  BY <1>2 DEF VieInv, Listed
<1>5. PICK c \in [0..m -> Nodes] : Chain(heap, hd, m, c)
  BY <1>4
<1>6. /\ c[0] = hd /\ \A i, j \in 0..m : c[i] = c[j] => i = j
      /\ \A i \in 0..m : /\ c[i] \in DOMAIN heap
                         /\ heap[c[i]].next = IF i = m THEN hd ELSE c[i + 1]
                         /\ heap[c[i]].oui = Vie!End <=> i = 0
  BY <1>5 DEF Chain
<1>7. 0 \in 0..m /\ hd \in DOMAIN heap /\ hd \in Nodes /\ hd # n
  BY <1>1, <1>6
<1>8. heap \in [DOMAIN heap -> VieNode] /\ DOMAIN heap \subseteq Nodes
  BY DEF VieInv, VieTypes
<1>9. old \in Nodes
  BY <1>7, <1>8 DEF VieNode
<1> HIDE DEF oui, hd, r
<1>10. /\ DOMAIN h = DOMAIN heap /\ h[hd].next = n /\ h[hd].oui = heap[hd].oui
       /\ \A x \in DOMAIN heap \ {hd} : h[x] = heap[x]
       /\ h \in [DOMAIN heap -> VieNode]
  <2>1. h[hd] = [heap[hd] EXCEPT !.next = n] /\ heap[hd] \in VieNode
    BY <1>7, <1>8
  <2>2. h[hd] \in VieNode /\ h[hd].next = n /\ h[hd].oui = heap[hd].oui
    BY <1>1, <2>1 DEF VieNode
  <2>3. QED BY <1>7, <1>8, <2>2
<1> HIDE DEF h, old
<1> DEFINE rec == Vie!Node(oui, old)
<1>11. rec \in VieNode /\ rec.oui = oui /\ rec.next = old
  BY <1>3, <1>9 DEF Vie!Node, VieNode
<1>12. oui # Vie!End
  BY <1>3 DEF Vie!End
<1> HIDE DEF rec
<1>13. /\ DOMAIN heap' = DOMAIN heap \cup {n} /\ heap'[n] = rec
       /\ heap' = [x \in DOMAIN heap' |-> heap'[x]]
       /\ \A x \in DOMAIN heap : heap'[x] = h[x]
  <2>1. heap' = Vie!With(h, n, rec)
    BY <1>1 DEF rec
  <2>2. heap' = [x \in DOMAIN h \cup {n} |-> IF x = n THEN rec ELSE h[x]]
    BY <2>1 DEF Vie!With
  <2>3. QED BY <1>1, <1>10, <2>2
<1>14. heap' \in [DOMAIN heap' -> VieNode]
  BY <1>10, <1>11, <1>13
<1>15. step' \in VieStep /\ (step'.does # "nothing" => step'.role = r /\ step'.i = 2)
  <2>1. CASE step' = [step EXCEPT !.i = 2]
    BY <1>2, <2>1 DEF VieStep, r
  <2>2. CASE step' = Vie!Done
    BY <2>2 DEF Vie!Done, VieStep
  <2>3. QED BY <1>0, <2>1, <2>2
<1>16. VieTypes'
  BY <1>0, <1>1, <1>8, <1>13, <1>14, <1>15 DEF VieInv, VieTypes
<1>17. Running'
  BY <1>1, <1>2, <1>15 DEF Running, HasList
<1> DEFINE d == [i \in 0..(m + 1) |-> IF i = 0 THEN hd ELSE IF i = 1 THEN n ELSE c[i - 1]]
<1>18. /\ d \in [0..(m + 1) -> Nodes] /\ d[0] = hd /\ d[1] = n
       /\ \A i \in 1..m : d[i + 1] = c[i]
       /\ \A i \in 0..(m + 1) : i = 0 \/ i = 1 \/ (i - 1 \in 1..m /\ d[i] = c[i - 1])
  <2>1. \A i \in 0..(m + 1) : i = 0 \/ i = 1 \/ i - 1 \in 1..m
    OBVIOUS
  <2>2. \A i \in 1..m : i \in 0..m /\ i + 1 \in 0..(m + 1) /\ i + 1 # 0 /\ i + 1 # 1 /\ (i + 1) - 1 = i
    OBVIOUS
  <2>3. QED BY <1>1, <1>7, <2>1, <2>2
<1> HIDE DEF d
<1>19. Chain(heap', hd, m + 1, d)
  <2>1. ASSUME NEW i \in 0..(m + 1), NEW j \in 0..(m + 1), d[i] = d[j] PROVE i = j
    <3>1. \A k \in 1..m : c[k] # hd /\ c[k] # n
      BY <1>1, <1>6, <1>7
    <3>2. \A k, l \in 1..m : c[k] = c[l] => k = l
      BY <1>6
    <3>3. QED BY <1>7, <1>18, <2>1, <3>1, <3>2
  <2>2. ASSUME NEW i \in 0..(m + 1)
        PROVE  /\ d[i] \in DOMAIN heap'
               /\ heap'[d[i]].next = IF i = m + 1 THEN hd ELSE d[i + 1]
               /\ heap'[d[i]].oui = Vie!End <=> i = 0
    <3>1. CASE i = 0
      BY <1>6, <1>7, <1>10, <1>13, <1>18, <3>1
    <3>2. CASE i = 1
      <4>1. old = (IF 0 = m THEN hd ELSE c[1])
        BY <1>6, <1>7 DEF old
      <4>2. old = (IF i = m + 1 THEN hd ELSE d[i + 1])
        BY <1>18, <3>2, <4>1
      <4>3. QED BY <1>11, <1>12, <1>13, <1>18, <3>2, <4>2
    <3>3. CASE i # 0 /\ i # 1
      <4>1. i - 1 \in 1..m /\ i - 1 \in 0..m /\ d[i] = c[i - 1]
        BY <1>18, <3>3
      <4>2. c[i - 1] \in DOMAIN heap /\ c[i - 1] # hd
        BY <1>6, <1>7, <4>1
      <4>3. heap'[c[i - 1]] = heap[c[i - 1]]
        BY <1>10, <1>13, <4>2
      <4>4. heap[c[i - 1]].next = (IF i - 1 = m THEN hd ELSE c[(i - 1) + 1])
        BY <1>6, <4>1
      <4>5. i # m + 1 => d[i + 1] = c[(i - 1) + 1]
        BY <1>18, <4>1
      <4>6. heap[c[i - 1]].oui # Vie!End
        BY <1>6, <3>3, <4>1
      <4>7. QED BY <1>13, <3>3, <4>1, <4>2, <4>3, <4>4, <4>5, <4>6
    <3>4. QED BY <3>1, <3>2, <3>3
  <2>3. QED BY <1>18, <2>1, <2>2 DEF Chain
<1>20. MembersOf(heap, hd) = On(c, m)
  BY <1>5, ChainShows
<1>21. \A i \in 0..(m + 1) : d[i] \notin DOMAIN heap \/ d[i] \in MembersOf(heap, hd)
  BY <1>1, <1>6, <1>7, <1>18, <1>20 DEF On
<1>22. \E k \in Nat : \E e \in [0..k -> Nodes] :
         /\ Chain(heap', hd, k, e)
         /\ \A i \in 0..k : \/ e[i] \notin DOMAIN heap
                            \/ HasList(r) /\ e[i] \in MembersOf(heap, vieHead[r])
  <2>1. m + 1 \in Nat
    OBVIOUS
  <2>2. QED BY <1>2, <1>18, <1>19, <1>21, <2>1 DEF hd
<1>23. \A q \in VieRoles \ {r} : HasList(q) =>
           \A x \in MembersOf(heap, vieHead[q]) : x \in DOMAIN heap' /\ heap'[x] = heap[x]
  <2> SUFFICES ASSUME NEW q \in VieRoles \ {r}, HasList(q), NEW x \in MembersOf(heap, vieHead[q])
               PROVE  x \in DOMAIN heap' /\ heap'[x] = heap[x]
    OBVIOUS
  <2>1. MembersOf(heap, vieHead[q]) \subseteq DOMAIN heap
    <3>1. PICK k \in Nat : \E e \in [0..k -> Nodes] : Chain(heap, vieHead[q], k, e)
      BY DEF VieInv, Listed
    <3>2. QED BY <3>1, ChainShows
  <2>2. x # hd
    <3>1. hd \in MembersOf(heap, hd)
      BY DEF MembersOf
    <3>2. QED BY <1>2, <3>1 DEF VieInv, Separate, hd
  <2>3. QED BY <1>10, <1>13, <2>1, <2>2
<1>24. r \notin untold' => firmware'[r] = Vie!OuisOf(heap', hd)
  BY <1>0, <1>2
<1>25. vieHead' = [vieHead EXCEPT ![r] = hd] /\ hd # Vie!Null
  BY <1>1, <1>2 DEF VieInv, VieTypes, HasList, hd
<1>26. QED BY <1>0, <1>2, <1>16, <1>17, <1>22, <1>23, <1>24, <1>25, OneListChanges

\* No other list has what is written in one of a role's own nodes.
LEMMA OtherLists ==
  ASSUME VieInv, NEW r \in VieRoles, HasList(r), NEW q \in VieRoles \ {r}, HasList(q),
         NEW x \in MembersOf(heap, vieHead[q])
  PROVE  x \in DOMAIN heap /\ x \notin MembersOf(heap, vieHead[r])
<1>1. PICK k \in Nat : \E e \in [0..k -> Nodes] : Chain(heap, vieHead[q], k, e)
  BY DEF VieInv, Listed
<1>2. x \in DOMAIN heap
  BY <1>1, ChainShows
<1>3. QED BY <1>2 DEF VieInv, Separate

\* A step of a command that leaves the lists alone.
LEMMA OnlyStep ==
  ASSUME VieInv, UNCHANGED <<vieHead, heap, firmware, untold>>, step' \in VieStep, Running'
  PROVE  VieInv'
<1>1. VieTypes'
  BY DEF VieInv, VieTypes
<1>2. Listed'
  BY DEF VieInv, Listed, HasList
<1>3. Separate'
  BY DEF VieInv, Separate, HasList
<1>4. Sent'
  BY DEF VieInv, Sent, Shown, HasList
<1>5. QED BY <1>1, <1>2, <1>3, <1>4 DEF VieInv

\* An element is added, or there is no memory for it and the command ends.
LEMMA AddStep ==
  ASSUME VieInv, Vie!AddIe
  PROVE  VieInv'
<1>1. CASE step' = Vie!Done /\ UNCHANGED <<vieHead, heap, firmware, untold>>
  <2>1. step' \in VieStep /\ Running'
    BY <1>1 DEF Vie!Done, VieStep, Running
  <2>2. QED BY <1>1, <2>1, OnlyStep
<1>2. CASE AddsNode
  BY <1>2, AddKeeps
<1>3. QED BY <1>1, <1>2 DEF Vie!AddIe, AddsNode

\* The element at a place is taken out, and its predecessor now points behind it.
TakenOut(h, g, c, p) ==
  /\ DOMAIN g = DOMAIN h \ {c[p]}
  /\ \A x \in DOMAIN g : x # c[p - 1] => g[x] = h[x]
  /\ g[c[p - 1]].next = h[c[p]].next /\ g[c[p - 1]].oui = h[c[p - 1]].oui

\* A list is closed over one of its elements.
LEMMA ClosedOver ==
  ASSUME NEW h, NEW g, NEW hd, NEW m \in Nat, NEW c, Chain(h, hd, m, c),
         NEW p \in 1..m, TakenOut(h, g, c, p)
  PROVE  \E d \in [0..(m - 1) -> Nodes] :
           Chain(g, hd, m - 1, d) /\ \A i \in 0..(m - 1) : d[i] \in On(c, m)
<1> DEFINE d == [i \in 0..(m - 1) |-> IF i < p THEN c[i] ELSE c[i + 1]]
<1>1. /\ c \in [0..m -> Nodes] /\ c[0] = hd
      /\ \A i, j \in 0..m : c[i] = c[j] => i = j
      /\ \A i \in 0..m : /\ c[i] \in DOMAIN h
                         /\ h[c[i]].next = IF i = m THEN hd ELSE c[i + 1]
                         /\ h[c[i]].oui = Vie!End <=> i = 0
  BY DEF Chain
<1> USE DEF TakenOut
<1>2. /\ p \in 0..m /\ p - 1 \in 0..m /\ m - 1 \in Nat
      /\ \A i \in 0..(m - 1) : i \in 0..m /\ i + 1 \in 0..m
  OBVIOUS
<1>3. /\ d \in [0..(m - 1) -> Nodes] /\ d[0] = hd
      /\ \A i \in 0..(m - 1) : d[i] = (IF i < p THEN c[i] ELSE c[i + 1])
  BY <1>1, <1>2
<1> HIDE DEF d
<1>4. \A i \in 0..(m - 1) : d[i] \in On(c, m)
  BY <1>2, <1>3 DEF On
<1>5. ASSUME NEW i \in 0..(m - 1), NEW j \in 0..(m - 1), d[i] = d[j] PROVE i = j
  <2>1. CASE i < p /\ j < p
    BY <1>1, <1>2, <1>3, <1>5, <2>1
  <2>2. CASE i >= p /\ j >= p
    <3>1. i + 1 = j + 1
      BY <1>1, <1>2, <1>3, <1>5, <2>2
    <3>2. QED BY <3>1
  <2>3. CASE i < p /\ j >= p
    <3>1. i = j + 1
      BY <1>1, <1>2, <1>3, <1>5, <2>3
    <3>2. QED BY <2>3, <3>1
  <2>4. CASE i >= p /\ j < p
    <3>1. i + 1 = j
      BY <1>1, <1>2, <1>3, <1>5, <2>4
    <3>2. QED BY <2>4, <3>1
  <2>5. QED BY <2>1, <2>2, <2>3, <2>4
<1>6. ASSUME NEW i \in 0..(m - 1)
      PROVE  /\ d[i] \in DOMAIN g
             /\ g[d[i]].next = IF i = m - 1 THEN hd ELSE d[i + 1]
             /\ g[d[i]].oui = Vie!End <=> i = 0
  <2>1. CASE i < p - 1
    <3>1. d[i] = c[i] /\ c[i] # c[p] /\ c[i] # c[p - 1] /\ c[i] \in DOMAIN h
      BY <1>1, <1>2, <1>3, <2>1
    <3>2. g[c[i]] = h[c[i]] /\ c[i] \in DOMAIN g
      BY <3>1
    <3>3. h[c[i]].next = c[i + 1] /\ (h[c[i]].oui = Vie!End <=> i = 0)
      BY <1>1, <1>2, <2>1
    <3>4. i # m - 1 /\ d[i + 1] = c[i + 1]
      BY <1>2, <1>3, <2>1
    <3>5. QED BY <3>1, <3>2, <3>3, <3>4
  <2>2. CASE i = p - 1
    <3>1. d[i] = c[p - 1] /\ c[p - 1] # c[p] /\ c[p - 1] \in DOMAIN h
      BY <1>1, <1>2, <1>3, <2>2
    <3>2. c[p - 1] \in DOMAIN g
      BY <3>1
    <3>3. h[c[p - 1]].oui = Vie!End <=> i = 0
      BY <1>1, <1>2, <2>2
    <3>4. h[c[p]].next = (IF p = m THEN hd ELSE c[p + 1])
      BY <1>1, <1>2
    <3>5. p # m => d[i + 1] = c[p + 1]
      BY <1>3, <2>2
    <3>6. p = m <=> i = m - 1
      BY <2>2
    <3>7. QED BY <3>1, <3>2, <3>3, <3>4, <3>5, <3>6
  <2>3. CASE i >= p
    <3>1. d[i] = c[i + 1] /\ c[i + 1] # c[p] /\ c[i + 1] # c[p - 1] /\ c[i + 1] \in DOMAIN h
      BY <1>1, <1>2, <1>3, <2>3
    <3>2. g[c[i + 1]] = h[c[i + 1]] /\ c[i + 1] \in DOMAIN g
      BY <3>1
    <3>3. /\ h[c[i + 1]].next = (IF i + 1 = m THEN hd ELSE c[(i + 1) + 1])
          /\ h[c[i + 1]].oui # Vie!End /\ i # 0
      BY <1>1, <1>2, <2>3
    <3>4. i + 1 # m => d[i + 1] = c[(i + 1) + 1]
      BY <1>3, <2>3
    <3>5. i + 1 = m <=> i = m - 1
      OBVIOUS
    <3>6. QED BY <3>1, <3>2, <3>3, <3>4, <3>5
  <2>4. QED BY <2>1, <2>2, <2>3
<1>7. Chain(g, hd, m - 1, d)
  BY <1>2, <1>3, <1>5, <1>6 DEF Chain
<1>8. QED BY <1>3, <1>4, <1>7

\* An element is deleted, or there is none to delete.
LEMMA DeleteKeeps ==
  ASSUME VieInv, Vie!DeleteIe
  PROVE  VieInv'
<1> DEFINE r == step.role
           hd == vieHead[r]
           found == Vie!Holding(r, Vie!Ouis[step.i])
<1>1. /\ \/ step' = Vie!AfterDelete /\ UNCHANGED <<heap, firmware, untold>>
         \/ \E n \in found, prev \in Vie!Range(<<hd>> \o Vie!Walk(heap, hd)) :
                /\ heap[prev].next = n
                /\ heap' = Vie!Without([heap EXCEPT ![prev].next = heap[n].next], {n})
                /\ Vie!SendsOrEnds(heap', Vie!AfterDelete)
      /\ vieHead' = vieHead
  BY DEF Vie!DeleteIe
<1>0. step' \in {Vie!AfterDelete, Vie!Done}
  BY <1>1, SendOutcome DEF VieInv
<1>2. r \in VieRoles /\ HasList(r) /\ step.i \in {1, 2} /\ step \in VieStep
  BY DEF VieInv, VieTypes, Running, Vie!DeleteIe
<1>3. found \subseteq Vie!Range(Vie!Walk(heap, hd))
  BY DEF Vie!Holding
<1> HIDE DEF found
<1>4. step' \in VieStep /\ (step'.does # "nothing" => step'.role = r /\ step'.i = 2)
  <2>1. CASE step' = [step EXCEPT !.i = 2]
    BY <1>2, <2>1 DEF VieStep
  <2>2. CASE step' = [step EXCEPT !.does = "list"] /\ step.i = 2
    BY <1>2, <2>2 DEF VieStep
  <2>3. CASE step' = Vie!Done
    BY <2>3 DEF Vie!Done, VieStep
  <2>4. QED BY <1>0, <1>2, <2>1, <2>2, <2>3 DEF Vie!AfterDelete
<1>5. Running'
  BY <1>1, <1>2, <1>4 DEF Running, HasList
<1>6. CASE UNCHANGED <<heap, firmware, untold>>
  BY <1>1, <1>4, <1>5, <1>6, OnlyStep
<1>7. CASE ~UNCHANGED <<heap, firmware, untold>>
  <2>1. PICK n \in found, prev \in Vie!Range(<<hd>> \o Vie!Walk(heap, hd)) :
                /\ heap[prev].next = n
                /\ heap' = Vie!Without([heap EXCEPT ![prev].next = heap[n].next], {n})
                /\ Vie!SendsOrEnds(heap', Vie!AfterDelete)
    BY <1>1, <1>7
  <2>0. /\ firmware' = [q1 \in VieRoles |-> firmware'[q1]]
        /\ \A q1 \in VieRoles \ {r} : firmware'[q1] = firmware[q1]
        /\ untold \ {r} \subseteq untold'
        /\ r \in VieRoles \ untold' => firmware'[r] = Vie!OuisOf(heap', hd)
    BY <2>1, SendOutcome DEF VieInv
  <2>2. PICK m \in Nat : \E c \in [0..m -> Nodes] : Chain(heap, hd, m, c)
    BY <1>2 DEF VieInv, Listed
  <2>3. PICK c \in [0..m -> Nodes] : Chain(heap, hd, m, c)
    BY <2>2
  <2>4. /\ c[0] = hd /\ \A i, j \in 0..m : c[i] = c[j] => i = j
        /\ \A i \in 0..m : /\ c[i] \in DOMAIN heap
                           /\ heap[c[i]].next = IF i = m THEN hd ELSE c[i + 1]
                           /\ heap[c[i]].oui = Vie!End <=> i = 0
    BY <2>3 DEF Chain
  <2>5. /\ MembersOf(heap, hd) = On(c, m)
        /\ Vie!Range(Vie!Walk(heap, hd)) = {c[i] : i \in 1..m}
    BY <2>3, ChainShows
  <2>6. PICK p \in 1..m : n = c[p]
    BY <1>3, <2>5
  <2>7. prev \in On(c, m)
    <3> DEFINE w == Vie!Walk(heap, hd)
    <3>1. w = [i \in 1..m |-> c[i]]
      BY <2>3, WalkIs
    <3>2. w \in Seq(Nodes) /\ Len(w) = m /\ \A i \in 1..m : w[i] = c[i]
      <4>1. \A i \in 1..m : c[i] \in Nodes
        OBVIOUS
      <4>2. QED BY <3>1, <4>1
    <3>3. hd \in Nodes
      BY <2>4
    <3> HIDE DEF w, hd
    <3>4. PICK j \in DOMAIN (<<hd>> \o w) : prev = (<<hd>> \o w)[j]
      BY DEF Vie!Range, w
    <3>5. j \in 1..(m + 1) /\ prev = (IF j = 1 THEN hd ELSE w[j - 1])
      BY <3>2, <3>3, <3>4
    <3>6. CASE j = 1
      <4>1. 0 \in 0..m
        OBVIOUS
      <4>2. QED BY <2>4, <3>5, <3>6, <4>1 DEF On
    <3>7. CASE j # 1
      <4>1. j - 1 \in 1..m /\ j - 1 \in 0..m
        BY <3>5, <3>7
      <4>2. QED BY <3>2, <3>5, <3>7, <4>1 DEF On
    <3>8. QED BY <3>6, <3>7
  <2>8. PICK q \in 0..m : prev = c[q]
    BY <2>7 DEF On
  <2>9. q = p - 1
    <3>1. p \in 0..m /\ 0 \in 0..m /\ c[p] # hd
      BY <2>4
    <3>2. q # m /\ c[q + 1] = c[p]
      BY <2>1, <2>4, <2>6, <2>8, <3>1
    <3>3. q + 1 \in 0..m
      BY <3>2
    <3>4. QED BY <2>4, <3>1, <3>2, <3>3
  <2> DEFINE h == [heap EXCEPT ![prev].next = heap[n].next]
  <2>10. heap \in [DOMAIN heap -> VieNode] /\ DOMAIN heap \subseteq Nodes
    BY DEF VieInv, VieTypes
  <2>11. n \in DOMAIN heap /\ prev \in DOMAIN heap /\ prev # n
    <3>1. p \in 0..m
      OBVIOUS
    <3>2. QED BY <2>4, <2>6, <2>8, <2>9, <3>1
  <2>12. /\ DOMAIN h = DOMAIN heap /\ h[prev].next = heap[n].next /\ h[prev].oui = heap[prev].oui
         /\ \A x \in DOMAIN heap \ {prev} : h[x] = heap[x]
         /\ h \in [DOMAIN heap -> VieNode]
    <3>1. h[prev] = [heap[prev] EXCEPT !.next = heap[n].next] /\ heap[prev] \in VieNode
             /\ heap[n] \in VieNode
      BY <2>10, <2>11
    <3>2. h[prev] \in VieNode /\ h[prev].next = heap[n].next /\ h[prev].oui = heap[prev].oui
      BY <3>1 DEF VieNode
    <3>3. QED BY <2>10, <2>11, <3>2
  <2>13. heap' = [x \in DOMAIN h \ {n} |-> h[x]]
    BY <2>1 DEF Vie!Without
  <2> HIDE DEF h
  <2>14. /\ DOMAIN heap' = DOMAIN heap \ {n} /\ heap' \in [DOMAIN heap' -> VieNode]
         /\ \A x \in DOMAIN heap' : heap'[x] = h[x]
    BY <2>12, <2>13
  <2>15. /\ prev \in DOMAIN heap' /\ heap'[prev].next = heap[n].next /\ heap'[prev].oui = heap[prev].oui
         /\ \A x \in DOMAIN heap' : x # prev => heap'[x] = heap[x]
    BY <2>11, <2>12, <2>14
  <2> HIDE DEF hd, r
  <2>16. PICK d \in [0..(m - 1) -> Nodes] :
           Chain(heap', hd, m - 1, d) /\ \A i \in 0..(m - 1) : d[i] \in On(c, m)
    <3>1. prev = c[p - 1]
      BY <2>8, <2>9
    <3>2. DOMAIN heap' = DOMAIN heap \ {c[p]}
      BY <2>6, <2>14
    <3>3. \A x \in DOMAIN heap' : x # c[p - 1] => heap'[x] = heap[x]
      BY <2>15, <3>1
    <3>4. heap'[c[p - 1]].next = heap[c[p]].next /\ heap'[c[p - 1]].oui = heap[c[p - 1]].oui
      BY <2>6, <2>15, <3>1
    <3>5. TakenOut(heap, heap', c, p)
      BY <3>2, <3>3, <3>4 DEF TakenOut
    <3>6. QED BY <2>3, <3>5, ClosedOver
  <2>17. \E k \in Nat : \E e \in [0..k -> Nodes] :
           /\ Chain(heap', hd, k, e)
           /\ \A i \in 0..k : \/ e[i] \notin DOMAIN heap
                              \/ HasList(r) /\ e[i] \in MembersOf(heap, vieHead[r])
    <3>1. m - 1 \in Nat
      BY <2>6
    <3>2. QED BY <1>2, <2>5, <2>16, <3>1 DEF hd
  <2>18. \A q1 \in VieRoles \ {r} : HasList(q1) =>
           \A x \in MembersOf(heap, vieHead[q1]) : x \in DOMAIN heap' /\ heap'[x] = heap[x]
    <3> SUFFICES ASSUME NEW q1 \in VieRoles \ {r}, HasList(q1), NEW x \in MembersOf(heap, vieHead[q1])
                 PROVE  x \in DOMAIN heap' /\ heap'[x] = heap[x]
      OBVIOUS
    <3>1. x \in DOMAIN heap /\ x \notin MembersOf(heap, vieHead[r])
      BY <1>2, OtherLists
    <3>2. n \in On(c, m) /\ prev \in On(c, m)
      <4>1. p \in 0..m
        OBVIOUS
      <4>2. QED BY <2>6, <2>7, <4>1 DEF On
    <3>3. x # n /\ x # prev
      BY <2>5, <3>1, <3>2 DEF hd
    <3>4. QED BY <2>14, <2>15, <3>1, <3>3
  <2>19. r \notin untold' => firmware'[r] = Vie!OuisOf(heap', hd)
    BY <1>2, <2>0
  <2>20. vieHead' = [vieHead EXCEPT ![r] = hd] /\ hd # Vie!Null
    BY <1>1, <1>2 DEF VieInv, VieTypes, HasList, hd
  <2>21. VieTypes'
    BY <1>1, <1>4, <2>0, <2>10, <2>14 DEF VieInv, VieTypes
  <2>22. QED BY <1>2, <1>5, <2>0, <2>17, <2>18, <2>19, <2>20, <2>21, OneListChanges
<1>8. QED BY <1>6, <1>7

\* A list goes away.
LEMMA DeletesKeeps ==
  ASSUME VieInv, NEW r \in VieRoles, HasList(r), Vie!DeletesList(r)
  PROVE  VieInv'
<1> DEFINE hd == vieHead[r]
<1>1. /\ \/ UNCHANGED <<firmware, untold>> /\ Vie!OuisOf(heap, hd) = <<>>
         \/ firmware' = [firmware EXCEPT ![r] = <<>>] /\ untold' = untold \ {r}
         \/ firmware' = firmware /\ untold' = untold \cup {r}
      /\ heap' = Vie!Without(heap, {hd})
      /\ vieHead' = [vieHead EXCEPT ![r] = Vie!Null]
      /\ step' = Vie!Done
  BY DEF Vie!DeletesList, Vie!Sends, Vie!SendFails
<1>2. heap' = [x \in DOMAIN heap \ {hd} |-> heap[x]]
  BY <1>1 DEF Vie!Without
<1>3. hd \in MembersOf(heap, vieHead[r])
  BY DEF MembersOf
<1> HIDE DEF hd
<1>4. \A q \in VieRoles \ {r} : HasList(q) =>
        \A x \in MembersOf(heap, vieHead[q]) : x \in DOMAIN heap' /\ heap'[x] = heap[x]
  <2> SUFFICES ASSUME NEW q \in VieRoles \ {r}, HasList(q), NEW x \in MembersOf(heap, vieHead[q])
               PROVE  x \in DOMAIN heap' /\ heap'[x] = heap[x]
    OBVIOUS
  <2>1. x \in DOMAIN heap /\ x # hd
    BY <1>3, OtherLists
  <2>2. QED BY <1>2, <2>1
<1>5. step' \in VieStep /\ Running'
  BY <1>1 DEF Vie!Done, VieStep, Running
<1>6. firmware' = [q \in VieRoles |-> firmware'[q]] /\ \A q \in VieRoles \ {r} : firmware'[q] = firmware[q]
  <2>1. firmware = [q \in VieRoles |-> firmware[q]]
    BY DEF VieInv, VieTypes
  <2>2. QED BY <1>1, <2>1
<1>7. VieTypes'
  <2>1. heap \in [DOMAIN heap -> VieNode] /\ DOMAIN heap \subseteq Nodes
    BY DEF VieInv, VieTypes
  <2>2. DOMAIN heap' \subseteq Nodes /\ heap' \in [DOMAIN heap' -> VieNode]
    BY <1>2, <2>1
  <2>3. QED BY <1>1, <1>5, <1>6, <2>2 DEF VieInv, VieTypes
<1>8. untold \ {r} \subseteq untold' /\ (r \notin untold' => firmware'[r] = <<>>)
  <2>1. firmware = [q \in VieRoles |-> firmware[q]]
    BY DEF VieInv, VieTypes
  <2>2. Vie!OuisOf(heap, hd) = <<>> /\ r \notin untold => firmware[r] = <<>>
    BY DEF VieInv, Sent, Shown, hd
  <2>3. QED BY <1>1, <2>1, <2>2
<1>9. QED BY <1>1, <1>4, <1>5, <1>6, <1>7, <1>8, OneListChanges

\* Every step of the commands keeps it.
LEMMA VieInductive ==
  ASSUME VieInv, [Vie!Next]_vieVars
  PROVE  VieInv'
<1>1. ASSUME NEW r \in VieRoles, Vie!CreateList(r) PROVE VieInv'
  BY <1>1, CreatesKeeps DEF Vie!CreateList
<1>2. ASSUME NEW r \in VieRoles, Vie!AddVendorIe(r) PROVE VieInv'
  BY <1>2, CreatesKeeps DEF Vie!AddVendorIe
<1>3. ASSUME NEW r \in VieRoles, Vie!DeleteVendorIe(r) PROVE VieInv'
  <2>1. UNCHANGED <<vieHead, heap, firmware, untold>> /\ step = Vie!Done
    BY <1>3 DEF Vie!DeleteVendorIe
  <2>2. CASE vieHead[r] = Vie!Null
    <3>1. step' = step
      BY <1>3, <2>2 DEF Vie!DeleteVendorIe
    <3>2. step' \in VieStep /\ Running'
      BY <2>1, <3>1 DEF VieInv, VieTypes, Running, HasList
    <3>3. QED BY <2>1, <3>2, OnlyStep
  <2>3. CASE vieHead[r] # Vie!Null
    <3>1. step' = Vie!ToDo("delete", r, 1)
      BY <1>3, <2>3 DEF Vie!DeleteVendorIe
    <3>2. step' \in VieStep /\ Running'
      BY <2>1, <2>3, <3>1 DEF Vie!ToDo, VieStep, Running, HasList
    <3>3. QED BY <2>1, <3>2, OnlyStep
  <2>4. QED BY <2>2, <2>3
<1>4. ASSUME NEW r \in VieRoles, Vie!DeleteList(r) PROVE VieInv'
  <2>1. CASE vieHead[r] = Vie!Null
    <3>1. UNCHANGED <<vieHead, heap, firmware, untold>> /\ step' = step
      BY <1>4, <2>1 DEF Vie!DeleteList
    <3>2. step' \in VieStep /\ Running'
      BY <3>1 DEF VieInv, VieTypes, Running, HasList
    <3>3. QED BY <3>1, <3>2, OnlyStep
  <2>2. CASE vieHead[r] # Vie!Null
    <3>1. HasList(r) /\ Vie!DeletesList(r)
      BY <1>4, <2>2 DEF Vie!DeleteList, HasList
    <3>2. QED BY <3>1, DeletesKeeps
  <2>3. QED BY <2>1, <2>2
<1>5. CASE Vie!AddIe
  BY <1>5, AddStep
<1>6. CASE Vie!DeleteIe
  BY <1>6, DeleteKeeps
<1>7. CASE Vie!DeleteEnds
  <2>1. step.does = "list" /\ Vie!DeletesList(step.role)
    BY <1>7 DEF Vie!DeleteEnds
  <2>2. step.role \in VieRoles /\ HasList(step.role)
    BY <2>1 DEF VieInv, Running
  <2>3. QED BY <2>1, <2>2, DeletesKeeps
<1>8. CASE UNCHANGED vieVars
  <2>1. UNCHANGED <<vieHead, heap, firmware, untold>> /\ step' = step
    BY <1>8 DEF vieVars
  <2>2. step' \in VieStep /\ Running'
    BY <2>1 DEF VieInv, VieTypes, Running, HasList
  <2>3. QED BY <2>1, <2>2, OnlyStep
<1>9. QED BY <1>1, <1>2, <1>3, <1>4, <1>5, <1>6, <1>7, <1>8 DEF Vie!Next

\* At the start no role has a list.
LEMMA VieStarts ==
  ASSUME Vie!Init
  PROVE  VieInv
<1>1. \A r \in VieRoles : vieHead[r] = Vie!Null /\ firmware[r] = <<>>
  BY DEF Vie!Init
<1>2. heap = [x \in {} |-> Vie!Null] /\ step = Vie!Done
  BY DEF Vie!Init
<1>3. DOMAIN heap = {} /\ heap \in [DOMAIN heap -> VieNode]
  BY <1>2
<1>4. VieTypes
  BY <1>2, <1>3 DEF Vie!Init, VieTypes, Vie!Done, VieStep
<1>5. Running
  BY <1>2 DEF Running, Vie!Done
<1>6. Listed /\ Separate /\ Sent
  BY <1>1 DEF Listed, Separate, Sent, Shown, HasList
<1>7. QED BY <1>4, <1>5, <1>6 DEF VieInv

\* What the run checks of the lists follows.
LEMMA VieSafe ==
  ASSUME VieInv
  PROVE  Vie!ListsSound /\ Vie!FirmwareFollows
<1>1. \A r \in VieRoles : Vie!Members(r) = MembersOf(heap, vieHead[r])
  BY DEF Vie!Members, MembersOf
<1>2. Vie!ListsSound
  <2> SUFFICES ASSUME NEW r \in VieRoles, HasList(r)
               PROVE  /\ Vie!Members(r) \subseteq DOMAIN heap
                      /\ Vie!IsInjective(Vie!Walk(heap, vieHead[r]))
                      /\ \A n \in Vie!Members(r) : heap[n].oui = Vie!End <=> n = vieHead[r]
                      /\ \A q \in VieRoles \ {r} : HasList(q) => Vie!Members(q) \cap Vie!Members(r) = {}
    BY DEF Vie!ListsSound, HasList
  <2>1. PICK m \in Nat : \E c \in [0..m -> Nodes] : Chain(heap, vieHead[r], m, c)
    BY DEF VieInv, Listed
  <2>2. PICK c \in [0..m -> Nodes] : Chain(heap, vieHead[r], m, c)
    BY <2>1
  <2>3. /\ MembersOf(heap, vieHead[r]) = On(c, m)
        /\ Vie!IsInjective(Vie!Walk(heap, vieHead[r]))
        /\ On(c, m) \subseteq DOMAIN heap
        /\ \A x \in On(c, m) : heap[x].oui = Vie!End <=> x = vieHead[r]
    BY <2>2, ChainShows
  <2>4. \A q \in VieRoles \ {r} : HasList(q) => Vie!Members(q) \cap Vie!Members(r) = {}
    BY <1>1 DEF VieInv, Separate
  <2>5. QED BY <1>1, <2>3, <2>4
<1>3. Vie!FirmwareFollows
  BY DEF VieInv, Sent, Shown, HasList, Vie!FirmwareFollows
<1>4. QED BY <1>2, <1>3

-----------------------------------------------------------------------------
\* Whatever is added, typed or written, deleted, interrupted or cut short, and in whatever
\* order: the vendor lists are sound and the firmware, unless it was not told of the last
\* change, has what they show; the walk through the history shows the lines that were
\* entered, unless one before was left in its middle; and a file that was promised is read
\* back as it was written, unless its write failed or was cut.
THEOREM KeptAsGiven == MCSpec => []KeepsWhatWasGiven
<1> DEFINE I == /\ (part = "vie" => VieInv)
                /\ (part = "uart" => UartInv)
                /\ (part = "files" => FilesInv)
<1>1. MCInit => I
  BY VieStarts, UartStarts, FilesStart DEF MCInit
<1>2. I /\ [MCNext]_<<part, dhcpVars, vieVars, uartVars, filesVars, cmdVars>> => I'
  <2> SUFFICES ASSUME I, [MCNext]_<<part, dhcpVars, vieVars, uartVars, filesVars, cmdVars>>
               PROVE  I'
    OBVIOUS
  <2>1. part' = part
    BY DEF MCNext
  <2>2. ASSUME part = "vie" PROVE VieInv'
    BY <2>2, VieInductive DEF MCNext
  <2>3. ASSUME part = "uart" PROVE UartInv'
    BY <2>3, UartInductive DEF MCNext
  <2>4. ASSUME part = "files" PROVE FilesInv'
    BY <2>4, FilesInductive DEF MCNext
  <2>5. QED BY <2>1, <2>2, <2>3, <2>4
<1>3. I => KeepsWhatWasGiven
  BY VieSafe DEF KeepsWhatWasGiven, UartInv, FilesInv
<1>4. QED BY <1>1, <1>2, <1>3, PTL DEF MCSpec
===============================================================================
