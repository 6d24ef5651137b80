---------------------------- MODULE NvStoreProofs ----------------------------
(***************************************************************************)
(* Proofs about the item store, for any number of pages, of keys and of    *)
(* values, of any sizes.  The inductive invariant, Core, says for every    *)
(* point of a call, of a compaction and of the boot where each item lies   *)
(* and which copy of it counts; from it follow that an id is active once,  *)
(* that the store is the map of NvMap, and that items last.  It holds      *)
(* while power is lost only between calls and during a boot.  Whatever the *)
(* point, a state in Core has page states that initNv knows: hence the     *)
(* first loss of power anywhere never stops it (NeverStuckHolds).          *)
(***************************************************************************)
EXTENDS MCNvCalls, TLAPS, FiniteSetTheorems, SequenceTheorems

-----------------------------------------------------------------------------
(* The inductive invariant.  Steady: no call and no compaction was cut short. *)

Steady == crashes = 0 \/ CrashIn \subseteq {"idle", "boot"}

\* Forwards from p to q, round the ring of pages.
Dist(p, q) == (q + NP - p) % NP

Fresh    == {"eraseAll", "markHead", "markTail"}
Resuming == {"resume", "dropOlder", "booted"}
Calling  == {"getDst", "compacted", "find", "writeData", "writeHeader", "setInactive",
             "setSomeInactive", "verify", "return", "fail"}
Resting  == Resuming \cup {"idle"} \cup Calling
Filling  == {"loop", "markDst", "markMode", "copy", "setDst"}
Cleaning == {"clean", "cleanFull", "cleaned"}
Inside   == {"mark", "setAct"} \cup Filling \cup Cleaning

PageType == [st : NACT..XSRC, mode : NORMAL..CSRC, allActive : BOOLEAN,
             ofs : 0..Cap \cup {NoOffset}, s : Pages \cup {NoPage}, e : Pages \cup {NoPage},
             eOfs : 0..Cap \cup {NoOffset}, items : Seq(Items)]

RamType == [head : Pages, tail : Pages, act : Pages, off : [Pages -> Nat],
            force : BOOLEAN, failW : BOOLEAN]

LocalsType == [pg : 0..NP, n : 0..NP, found : {<<>>} \cup (Pages \X Nat),
               key : Keys \cup {NoPage}, ret : {"return", "verify", "compacted", "booted"},
               free : Int, nBytes : 0..Cap, src : Pages, dst : Pages, srcPages : Int,
               left : Int, skip : Nat, room : BOOLEAN, sPage : Pages, cur : Pages,
               pos : Nat, cleaned : Nat, old : {<<>>}, failed : {FALSE}]

Typed ==
  /\ flash \in [Pages -> PageType]
  /\ ram \in RamType
  /\ x \in LocalsType
  /\ at \in {"off"} \cup Fresh \cup Resting \cup Inside
  /\ op \in Map!Calls \cup {NoCall}
  /\ res \in {"ok", "fail", "lost"}
  /\ seen \in [Keys -> Values \cup {NoValue}]
  /\ crashes \in 0..MaxCrashes /\ fails = 0

On(p) == flash[p].items
St(p)     == flash[p].st

\* Items lie one behind the other, each with its header but the one being written.
Laid ==
  \A p \in Pages : \A i \in 1..Len(On(p)) :
    /\ On(p)[i].end = Used(p, i - 1) + Len(On(p)[i].val)
    /\ i <= On(p)[i].end
    /\ On(p)[i].torn => at = "writeHeader" /\ p = ram.act /\ i = Len(On(p))

Unused == \A p \in Pages : St(p) \in {NACT, RDY} => On(p) = <<>>

\* Between compactions: one page is the tail, all others hold what their offset says.
Settled(t) ==
  /\ On(t) = <<>> /\ flash[t].mode = NORMAL
  /\ \A p \in Pages : /\ St(p) = XDST <=> p = t
                      /\ St(p) # XSRC /\ flash[p].ofs = NoOffset
OneReady == \A p, q \in Pages : St(p) = RDY /\ St(q) = RDY => p = q

Virgin ==
  \A p \in Pages : /\ On(p) = <<>> /\ St(p) \in {NACT, RDY}
                   /\ flash[p].mode = NORMAL /\ flash[p].ofs = NoOffset

Whole(p) == ram.off[p] = Len(On(p)) /\ flash[p].ofs = NoOffset
Empty(p) == On(p) = <<>> /\ flash[p].mode = NORMAL /\ Whole(p)

\* The page to be written has room for the item.
Fits == St(ram.act) = ACT /\ ram.act # ram.tail /\ Room(ram.act) >= Len(op.val)

AtOff ==
  at = "off" => /\ ram = Ram0 /\ x = Locals0
                /\ Virgin \/ \E t \in Pages : Settled(t) /\ OneReady
AtFresh ==
  at \in Fresh =>
    /\ Virgin /\ \A p \in Pages : ram.off[p] = 0
    /\ at = "eraseAll" => x.pg \in Pages /\ \A p \in Pages : p < x.pg => St(p) = NACT
    /\ at = "markHead" => \A p \in Pages : St(p) = NACT
    /\ at = "markTail" => /\ ram.tail = NP - 1 /\ ram.head = 0
                          /\ \A p \in Pages : St(p) = IF p = 0 THEN RDY ELSE NACT
AtRest ==
  at \in Resting \cup {"mark"} =>
    /\ Settled(ram.tail) /\ OneReady
    /\ \A p \in Pages :
         ram.off[p] = IF at = "writeHeader" /\ p = ram.act THEN Len(On(p)) - 1
                      ELSE Len(On(p))
Ring == at \in Resting \cup Inside => ram.head = Inc(ram.tail)

\* What a compaction is called for, and what it leaves in other pages then.
Purpose ==
  at \in Inside =>
    /\ \/ x.nBytes = 0 /\ x.ret = "return" /\ op.kind = "compact"
       \/ x.nBytes = 0 /\ x.ret = "booted" /\ op.kind = "boot"
       \/ x.ret = "compacted" /\ op.kind = "write" /\ x.nBytes = Len(op.val)
    /\ at \in {"mark"} \cup Filling => ~x.room
    /\ x.nBytes > 0 =>
         /\ at = "mark" => \A p \in Pages \ {ram.tail} : St(p) = FULL
         /\ at \in Filling \cup Cleaning =>
              \A p \in Pages \ {ram.tail} : St(p) \notin {ACT, RDY}
         /\ at \in {"mark", "loop"} => x.free < x.nBytes
         /\ at = "setAct" =>
              /\ x.free >= x.nBytes => \E p \in Pages : St(p) = ACT
              /\ \A p \in Pages : St(p) = ACT => Room(p) >= x.nBytes
AtMark ==
  at = "mark" =>
    /\ x.dst = ram.tail /\ x.src = Inc(ram.tail) /\ x.left = NP - 1 /\ x.skip = 0
    /\ x.srcPages = IF x.nBytes > 0 THEN 1 ELSE NP - 1

\* The pages still to be compacted are the next x.left ones from x.src on.
Window ==
  at \in Filling \cup Cleaning =>
    /\ x.dst = ram.tail /\ x.src = Add(x.dst, x.skip + 1)
    /\ x.left >= 0 /\ x.skip + 1 + x.left <= NP
    /\ at # "loop" => x.left > 0
    /\ x.nBytes = 0 => x.skip = 0 /\ x.srcPages = x.left
    /\ x.nBytes > 0 => IF at = "loop" THEN x.srcPages \in {0, 1} ELSE x.srcPages = 1
    /\ OneReady

AtFilling ==
  at \in Filling =>
    /\ \A p \in Pages \ {x.dst} : /\ St(p) # XDST /\ (p # x.src => Whole(p))
                                  /\ St(p) = XSRC <=> at # "loop" /\ p = x.src
    /\ ~Whole(x.src) => x.left > 0 /\ x.nBytes = 0 /\ ram.off[x.src] <= Len(On(x.src))
    /\ at \in {"loop", "markDst", "markMode"} =>
         /\ Empty(x.dst)
         /\ IF at = "markMode" THEN St(x.dst) = XDST ELSE St(x.dst) \in {NACT, XDST}

\* The item at position i of page p has been looked at.
Passed(p, i) == Dist(x.src, p) < Dist(x.src, x.cur) \/ (p = x.cur /\ i > x.pos)

\* The destination has, of the items passed, those that are active, each once.
CopiesOnly ==
  \A j \in 1..Len(On(x.dst)) :
    /\ On(x.dst)[j].active
    /\ \E p \in Pages \ {x.dst} : \E i \in 1..ram.off[p] :
         /\ Passed(p, i) /\ On(p)[i].active
         /\ On(p)[i].key = On(x.dst)[j].key
         /\ On(p)[i].val = On(x.dst)[j].val
CopiesOnce ==
  \A i, j \in 1..Len(On(x.dst)) : On(x.dst)[i].key = On(x.dst)[j].key => i = j
CopiesAll ==
  \A p \in Pages \ {x.dst} : \A i \in 1..ram.off[p] :
    Passed(p, i) /\ On(p)[i].active =>
      \E j \in 1..Len(On(x.dst)) : On(x.dst)[j].key = On(p)[i].key

Copying ==
  at \in {"copy", "setDst"} =>
    /\ x.sPage = x.src /\ Dist(x.src, x.cur) < x.srcPages /\ x.pos <= ram.off[x.cur]
    /\ Whole(x.dst) /\ St(x.dst) = XDST /\ flash[x.dst].mode = CDST
    /\ x.cur = x.src => Used(x.dst, ram.off[x.dst]) + Used(x.src, x.pos) <= Cap
    /\ CopiesOnly /\ CopiesOnce /\ CopiesAll
AtSetDst ==
  at = "setDst" =>
    /\ flash[x.dst].s = x.src /\ flash[x.dst].e = x.cur /\ flash[x.dst].eOfs = x.pos
    /\ x.free = Room(x.dst)
    /\ x.cur = x.src => x.pos = 0

\* The pages copied are erased one after the other; the last one may be left.
LastPage == flash[x.dst].e
AtCleaning ==
  at \in Cleaning =>
    /\ LastPage \in Pages /\ Dist(x.src, LastPage) < x.srcPages
    /\ LastPage = x.src => ram.off[LastPage] = 0
    /\ ram.off[LastPage] <= Len(On(LastPage))
    /\ at # "cleaned" => /\ x.pg \in Pages /\ x.cleaned = Dist(x.src, x.pg)
                         /\ x.cleaned <= Dist(x.src, LastPage)
    /\ at = "cleanFull" => x.pg = LastPage /\ ram.off[LastPage] > 0
    /\ at = "cleaned" => x.cleaned = IF ram.off[LastPage] = 0 THEN Dist(x.src, LastPage) + 1
                                     ELSE Dist(x.src, LastPage)
    /\ \A p \in Pages :
         /\ Dist(x.src, p) < x.cleaned => flash[p] = Erased
         /\ Dist(x.src, p) < Dist(x.src, LastPage) => ram.off[p] = 0
         /\ Dist(x.src, p) > Dist(x.src, LastPage) => Whole(p)
         /\ St(p) # XDST /\ (St(p) = XSRC => p = x.src)
    /\ flash[x.dst].mode = CDST
    /\ x.nBytes = 0 => ~x.room
    /\ x.nBytes > 0 => /\ x.room <=> x.free >= x.nBytes
                       /\ St(x.dst) = IF x.room THEN ACT ELSE FULL
                       /\ x.free = Room(x.dst)
AtSetAct ==
  at = "setAct" =>
    /\ Empty(ram.tail) /\ St(ram.tail) \in {NACT, XDST} /\ OneReady
    /\ \A p \in Pages : Whole(p) /\ St(p) # XSRC /\ (St(p) = XDST => p = ram.tail)

-----------------------------------------------------------------------------
(* What the calls do to the items. *)

Kinds ==
  /\ op = NoCall <=> at = "idle"
  /\ at \in {"off"} \cup Fresh \cup Resuming => op.kind = "boot"
  /\ at \in {"getDst", "compacted", "writeData", "writeHeader", "fail"} => op.kind = "write"
  /\ at = "find" => op.kind \in {"write", "delete", "read"}
  /\ at \in {"setInactive", "setSomeInactive"} => op.kind \in {"write", "delete"}
  /\ at = "verify" => op.kind = "delete"
  /\ at = "return" => op.kind \in {"write", "delete", "read", "compact"}
  /\ at \in {"setInactive", "setSomeInactive"} =>
       x.ret = IF op.kind = "write" THEN "return" ELSE "verify"
  /\ at \in {"writeData", "writeHeader"} => x.ret = "return"
  /\ ~ram.failW

\* Every page that getDst has passed is the tail or full.
Visited ==
  at = "getDst" =>
    /\ x.pg \in Pages /\ x.free < Len(op.val)
    /\ \A p \in Pages : x.n = NP \/ Dist(p, x.pg) \in 1..x.n
                        => p = ram.tail \/ St(p) = FULL

\* A call on k finds the item of k.
IsAt(l, k) ==
  /\ l \in Pages \X Nat /\ l[2] \in 1..ram.off[l[1]]
  /\ On(l[1])[l[2]].active /\ On(l[1])[l[2]].key = k

Writing ==
  /\ at = "writeData" \/ (at = "find" /\ op.kind = "write") => Fits
  /\ at = "compacted" => x.nBytes = Len(op.val) /\ (x.free >= Len(op.val) => Fits)
  /\ at = "writeHeader" =>
       LET n == Len(On(ram.act)) IN
       /\ ram.act # ram.tail /\ n > 0
       /\ On(ram.act)[n].key = op.key /\ On(ram.act)[n].val = op.val
       /\ On(ram.act)[n].active
  /\ at \in {"writeData", "writeHeader"} =>
       /\ x.found # <<>> => IsAt(x.found, op.key)
       /\ x.found = <<>> => seen[op.key] = NoValue
       /\ seen[op.key] # NoValue => ~Same(seen[op.key], op.val)
  /\ at = "setInactive" => IsAt(x.found, op.key)
  /\ at = "dropOlder" =>
       /\ x.ret = "return" /\ ram.act # ram.tail
       /\ IsAt(<<ram.act, ram.off[ram.act]>>, x.key)
  /\ at = "resume" => x.ret = "return"

\* What a call that succeeds makes of the items: what the map promises, unless the new
\* value is the end of the old one (NVOCMP_NWSAMEITEM).
Outcome ==
  IF op.kind = "write" /\ seen[op.key] # NoValue /\ Same(seen[op.key], op.val)
  THEN seen ELSE Map!Applied(op)

Current == IF at \in {"setInactive", "setSomeInactive", "verify", "return"}
           THEN Outcome ELSE seen

\* Where the items in force lie: the tail is left out, except while it holds the only copy.
Offset(p) == IF at = "off" THEN Len(On(p)) ELSE ram.off[p]
InForce(p, i) ==
  /\ On(p)[i].active
  /\ p = ram.tail => at \in {"off"} \cup Cleaning
  /\ at = "setInactive" => <<p, i>> # x.found

Distinct ==
  \A p, q \in Pages : \A i \in 1..Offset(p), j \in 1..Offset(q) :
    InForce(p, i) /\ InForce(q, j) /\ On(p)[i].key = On(q)[j].key
      => p = q /\ i = j

Faithful ==
  /\ \A p \in Pages : \A i \in 1..Offset(p) :
       InForce(p, i) => Current[On(p)[i].key] = On(p)[i].val
  /\ \A k \in Keys : Current[k] # NoValue =>
       \E p \in Pages : \E i \in 1..Offset(p) : InForce(p, i) /\ On(p)[i].key = k

Core ==
  /\ Typed /\ Laid /\ Unused
  /\ AtOff /\ AtFresh /\ AtRest /\ Ring
  /\ Purpose /\ AtMark /\ Window /\ AtFilling /\ Copying /\ AtSetDst /\ AtCleaning /\ AtSetAct
  /\ Kinds /\ Visited /\ Writing /\ Distinct /\ Faithful

-----------------------------------------------------------------------------
(* The ring of pages *)

\* A number below twice the size of the ring is reduced by one subtraction.
LEMMA ModRing ==
  ASSUME NEW a \in 0..(2 * NP - 1)
  PROVE  a % NP = IF a < NP THEN a ELSE a - NP
<1>1. NP \in Int /\ NP > 2
  BY NvAssumption
<1>2. /\ a = NP * (a \div NP) + (a % NP)
      /\ a \div NP \in Int /\ a % NP \in 0..(NP - 1)
  BY <1>1
<1>3. a \div NP = IF a < NP THEN 0 ELSE 1
  <2> DEFINE q == a \div NP
             r == a % NP
  <2>1. q \in Int /\ r \in 0..(NP - 1) /\ a = NP * q + r
    BY <1>2
  <2>2. CASE q < 0
    <3>1. NP * q <= -NP BY <1>1, <2>1, <2>2
    <3>2. QED BY <1>1, <2>1, <3>1
  <2>3. CASE q > 1
    <3>1. NP * q >= 2 * NP BY <1>1, <2>1, <2>3
    <3>2. QED BY <1>1, <2>1, <3>1
  <2>4. CASE q = 0
    BY <1>1, <2>1, <2>4
  <2>5. CASE q = 1
    BY <1>1, <2>1, <2>5
  <2>6. QED BY <2>1, <2>2, <2>3, <2>4, <2>5
<1>4. QED BY <1>1, <1>2, <1>3

\* Steps on the ring without the remainder.
LEMMA RingIs ==
  /\ \A p, q \in Pages : Dist(p, q) = IF q >= p THEN q - p ELSE q + NP - p
  /\ \A p \in Pages : \A n \in 0..NP : Add(p, n) = IF p + n < NP THEN p + n ELSE p + n - NP
  /\ \A p \in Pages : Inc(p) = IF p = NP - 1 THEN 0 ELSE p + 1
  /\ \A p \in Pages : Dec(p) = IF p = 0 THEN NP - 1 ELSE p - 1
<1>1. NP \in Int /\ NP > 2
  BY NvAssumption
<1>2. ASSUME NEW p \in Pages, NEW q \in Pages
      PROVE  Dist(p, q) = IF q >= p THEN q - p ELSE q + NP - p
  BY <1>1, ModRing DEF Dist, Pages
<1>3. ASSUME NEW p \in Pages, NEW n \in 0..NP
      PROVE  Add(p, n) = IF p + n < NP THEN p + n ELSE p + n - NP
  BY <1>1, ModRing DEF Add, Pages
<1>4. \A p \in Pages : Inc(p) = IF p = NP - 1 THEN 0 ELSE p + 1
  BY <1>1, <1>3 DEF Inc, Pages
<1>5. \A p \in Pages : Dec(p) = IF p = 0 THEN NP - 1 ELSE p - 1
  BY <1>1, <1>3 DEF Dec, Pages
<1>6. QED BY <1>2, <1>3, <1>4, <1>5

\* The same as facts about pages and numbers.
LEMMA RingFacts ==
  /\ NP \in Nat /\ NP > 2 /\ Cap \in Nat /\ Cap > 0
  /\ \A p : p \in Pages <=> p \in Int /\ 0 <= p /\ p < NP
  /\ \A p \in Pages : p \in Int /\ 0 <= p /\ p < NP /\ Inc(p) \in Pages /\ Dec(p) \in Pages
  /\ \A p, q \in Pages : Dist(p, q) \in Nat /\ Dist(p, q) < NP
  /\ \A p, q, r \in Pages : Dist(p, q) = Dist(p, r) => q = r
  /\ \A p \in Pages : \A n \in 0..NP : Add(p, n) \in Pages
<1>1. NP \in Nat /\ NP > 2 /\ Cap \in Nat /\ Cap > 0
  BY NvAssumption
<1>2. \A p : p \in Pages <=> p \in Int /\ 0 <= p /\ p < NP
  BY <1>1 DEF Pages
<1>3. ASSUME NEW p \in Pages
      PROVE  p \in Int /\ 0 <= p /\ p < NP /\ Inc(p) \in Pages /\ Dec(p) \in Pages
  <2>1. Inc(p) = (IF p = NP - 1 THEN 0 ELSE p + 1) /\ Dec(p) = IF p = 0 THEN NP - 1 ELSE p - 1
    BY RingIs
  <2>2. QED BY <1>1, <1>2, <2>1
<1>4. ASSUME NEW p \in Pages, NEW q \in Pages
      PROVE  Dist(p, q) \in Nat /\ Dist(p, q) < NP
  BY <1>1, <1>2, RingIs
<1>5. ASSUME NEW p \in Pages, NEW q \in Pages, NEW r \in Pages, Dist(p, q) = Dist(p, r)
      PROVE  q = r
  BY <1>1, <1>2, <1>5, RingIs
<1>6. ASSUME NEW p \in Pages, NEW n \in 0..NP
      PROVE  Add(p, n) \in Pages
  BY <1>1, <1>2, RingIs
<1>7. QED BY <1>1, <1>2, <1>3, <1>4, <1>5, <1>6

\* Pages are the numbers below NP.
LEMMA PageInts ==
  /\ NP \in Int /\ NP > 2
  /\ \A p : p \in Pages <=> p \in Int /\ 0 <= p /\ p < NP
BY RingFacts

\* The first and the last page.
LEMMA EndPages == 0 \in Pages /\ NP - 1 \in Pages
BY NvAssumption DEF Pages

-----------------------------------------------------------------------------
(* Types *)

\* Lengths of values, places and ends of items.
LEMMA Sizes ==
  ASSUME Typed
  PROVE  /\ \A v \in Values : Len(v) \in 1..Cap
         /\ \A p \in Pages : /\ Len(On(p)) \in Nat /\ On(p) \in Seq(Items)
                             /\ \A i \in 1..Len(On(p)) :
                                  /\ On(p)[i] \in Items /\ On(p)[i].end \in 1..Cap
                                  /\ Used(p, i) \in 1..Cap /\ Used(p, i) = On(p)[i].end
                                  /\ Len(On(p)[i].val) \in 1..Cap
         /\ \A p \in Pages : Used(p, 0) = 0
<1>1. \A v \in Values : Len(v) \in 1..Cap
  BY NvAssumption
<1>2. ASSUME NEW p \in Pages
      PROVE  On(p) \in Seq(Items) /\ Len(On(p)) \in Nat
  BY DEF Typed, PageType, On
<1>3. ASSUME NEW p \in Pages, NEW i \in 1..Len(On(p))
      PROVE  /\ On(p)[i] \in Items /\ On(p)[i].end \in 1..Cap
             /\ Len(On(p)[i].val) \in 1..Cap
  <2>1. On(p)[i] \in Items
    BY <1>2
  <2>2. QED BY <1>1, <2>1 DEF Items
<1>4. ASSUME NEW p \in Pages, NEW i \in 1..Len(On(p))
      PROVE  Used(p, i) \in 1..Cap /\ Used(p, i) = On(p)[i].end
  <2>1. i # 0 /\ i \in Int
    BY <1>2
  <2>2. QED BY <1>3, <2>1 DEF Used, On
<1>5. QED BY <1>1, <1>2, <1>3, <1>4 DEF Used

\* Writing an item that has room behind the others on its page.
LEMMA PutTyped ==
  ASSUME Typed, NEW p \in Pages, NEW i \in [key : Keys, val : Values, active : BOOLEAN,
                                            torn : BOOLEAN, end : 0..Cap],
         Used(p, Len(On(p))) + Len(i.val) <= Cap, Put(p, i)
  PROVE  flash' \in [Pages -> PageType]
<1> DEFINE n == Len(On(p))
           j == [i EXCEPT !.end = Used(p, n) + Len(i.val)]
<1>1. n \in Nat /\ (n > 0 => Used(p, n) \in 1..Cap) /\ Used(p, 0) = 0 /\ Len(i.val) \in 1..Cap
  BY Sizes
<1>2. Used(p, n) + Len(i.val) \in 1..Cap
  BY <1>1, NvAssumption
<1>3. j \in Items
  BY <1>2 DEF Items
<1>4. Append(On(p), j) \in Seq(Items)
  BY <1>3, Sizes
<1>5. flash' = [flash EXCEPT ![p].items = Append(On(p), j)]
  BY DEF Put, On
<1>6. QED BY <1>4, <1>5 DEF Typed, PageType

\* A page state or mode written over another.
LEMMA StateTyped ==
  ASSUME Typed, NEW p \in Pages, NEW st \in NACT..XSRC, State(p, st)
  PROVE  flash' \in [Pages -> PageType]
<1>1. flash[p].st \in NACT..XSRC /\ flash[p] \in PageType
  BY DEF Typed, PageType
<1>2. Higher(flash[p].st, st) \in NACT..XSRC
  BY <1>1 DEF Higher
<1>3. QED BY <1>1, <1>2 DEF State, Typed, PageType

\* Writing a compaction mode keeps the types.
LEMMA ModeTyped ==
  ASSUME Typed, NEW p \in Pages, NEW m \in NORMAL..CSRC, Mode(p, m)
  PROVE  flash' \in [Pages -> PageType]
<1>1. flash[p].mode \in NORMAL..CSRC /\ flash[p] \in PageType
  BY DEF Typed, PageType
<1>2. Higher(flash[p].mode, m) \in NORMAL..CSRC
  BY <1>1 DEF Higher
<1>3. QED BY <1>1, <1>2 DEF Mode, Typed, PageType

\* Erasing a page keeps the types.
LEMMA EraseTyped ==
  ASSUME Typed, NEW p \in Pages, Erase(p)
  PROVE  flash' \in [Pages -> PageType] /\ ram' \in RamType
<1>1. Erased \in PageType
  BY EmptySeq DEF Erased, PageType, NACT, XSRC, NORMAL, CSRC
<1>2. QED BY <1>1 DEF Erase, Typed, RamType

\* The fields of a call.
LEMMA OpIs ==
  ASSUME Typed
  PROVE  /\ op.kind = "write" => op.key \in Keys /\ op.val \in Values
         /\ op.kind \in {"delete", "read"} => op.key \in Keys
         /\ op.kind \in {"none", "write", "delete", "read", "compact", "boot"}
         /\ op # NoCall => op.kind # "none"
         /\ Outcome \in [Keys -> Values \cup {NoValue}]
         /\ Current \in [Keys -> Values \cup {NoValue}]
<1>1. /\ op.kind = "write" => op.key \in Keys /\ op.val \in Values
      /\ op.kind \in {"delete", "read"} => op.key \in Keys
      /\ op.kind \in {"none", "write", "delete", "read", "compact", "boot"}
      /\ op # NoCall => op.kind # "none"
  BY DEF Typed, Map!Calls, NoCall
<1>2. Outcome \in [Keys -> Values \cup {NoValue}]
  <2>1. Map!Applied(op) \in [Keys -> Values \cup {NoValue}]
    BY <1>1 DEF Typed, Map!Applied
  <2>2. QED BY <2>1 DEF Outcome, Typed
<1>3. QED BY <1>1, <1>2 DEF Current, Typed

\* The least and the greatest of a set of pages.
LEMMA ExtremePages ==
  ASSUME NEW T, T \subseteq Pages, T # {}
  PROVE  Min(T) \in T /\ Max(T) \in T
<1>1. ASSUME NEW U, U \subseteq Nat, U # {}
      PROVE  \E u \in U : \A y \in U : u <= y
  <2>1. PICK u \in U : \A y \in U : ~(<<y, u>> \in OpToRel(<, Nat))
    BY <1>1, WFMin, NatLessThanWellFounded
  <2>2. u \in U /\ \A y \in U : ~(y < u)
    BY <1>1, <2>1 DEF OpToRel
  <2>3. QED BY <1>1, <2>2
<1>2. ASSUME NEW y \in T
      PROVE  y \in Nat /\ NP - y \in Nat
  <2>1. y \in Pages /\ NP \in Int
    BY RingFacts
  <2>2. y \in Int /\ 0 <= y /\ y < NP
    BY <2>1, RingFacts
  <2>3. QED BY <2>1, <2>2
<1>3. \E u \in T : \A y \in T : u <= y
  BY <1>1, <1>2
<1>4. \E u \in T : \A y \in T : u >= y
  <2> DEFINE U == {NP - y : y \in T}
  <2>1. U \subseteq Nat /\ U # {}
    BY <1>2
  <2> HIDE DEF U
  <2>2. PICK u \in U : \A y \in U : u <= y
    BY <1>1, <2>1
  <2>3. PICK z \in T : u = NP - z
    BY <2>2 DEF U
  <2>4. \A y \in T : NP - z <= NP - y
    BY <2>2, <2>3 DEF U
  <2>5. \A y \in T : y \in Int /\ NP \in Int
    BY RingFacts
  <2>6. \A y \in T : z >= y
    BY <2>3, <2>4, <2>5
  <2>7. QED BY <2>3, <2>6
<1>5. QED BY <1>3, <1>4 DEF Min, Max

-----------------------------------------------------------------------------
(* What is left alone *)

\* Items that stay where they are, and are as much in force as they were.
LEMMA DataKept ==
  ASSUME Distinct, Faithful,
         \A p \in Pages : On(p)' = On(p) /\ Offset(p)' = Offset(p),
         \A p \in Pages : \A i \in 1..Offset(p) : InForce(p, i)' = InForce(p, i),
         Current' = Current
  PROVE  Distinct' /\ Faithful'
BY DEF Distinct, Faithful

\* The same, item by item.
LEMMA ItemsKept ==
  ASSUME Distinct, Faithful,
         \A p \in Pages : \A i \in Int :
           i \in 1..Offset(p)' /\ InForce(p, i)' <=> i \in 1..Offset(p) /\ InForce(p, i),
         \A p \in Pages : \A i \in 1..Offset(p) :
           InForce(p, i) => On(p)'[i].key = On(p)[i].key /\ On(p)'[i].val = On(p)[i].val,
         Current' = Current
  PROVE  Distinct' /\ Faithful'
<1>1. \A a : \A i \in 1..a : i \in Int
  OBVIOUS
<1>2. Distinct'
  BY <1>1 DEF Distinct
<1>3. ASSUME NEW k \in Keys, Current'[k] # NoValue
      PROVE  \E p \in Pages : \E i \in 1..Offset(p)' : InForce(p, i)' /\ On(p)'[i].key = k
  <2>1. PICK p \in Pages : \E i \in 1..Offset(p) : InForce(p, i) /\ On(p)[i].key = k
    BY <1>3 DEF Faithful
  <2>2. PICK i \in 1..Offset(p) : InForce(p, i) /\ On(p)[i].key = k
    BY <2>1
  <2>3. i \in 1..Offset(p)' /\ InForce(p, i)' /\ On(p)'[i].key = k
    BY <1>1, <2>2
  <2>4. QED BY <2>3
<1>4. \A p \in Pages : \A i \in 1..Offset(p)' : InForce(p, i)' => Current'[On(p)'[i].key] = On(p)'[i].val
  BY <1>1 DEF Faithful
<1>5. QED BY <1>2, <1>3, <1>4 DEF Faithful

\* Items stay laid out while no page changes its items.
LEMMA LaidKept ==
  ASSUME Laid, \A p \in Pages : On(p)' = On(p), at # "writeHeader"
  PROVE  Laid'
<1>1. \A p \in Pages : \A i : Used(p, i)' = Used(p, i)
  BY DEF Used, On
<1>2. QED BY <1>1 DEF Laid

\* A step that leaves the headers alone keeps the pages settled.
LEMMA SettledKept ==
  ASSUME Settled(ram.tail), OneReady, ram.tail \in Pages, ram'.tail = ram.tail,
         \A q \in Pages : /\ St(q)' = St(q) /\ flash'[q].mode = flash[q].mode
                          /\ flash'[q].ofs = flash[q].ofs
                          /\ q = ram.tail => On(q)' = On(q)
  PROVE  Settled(ram.tail)' /\ OneReady'
<1>1. PICK t \in Pages : t = ram.tail
  OBVIOUS
<1>2. On(t)' = <<>> /\ flash'[t].mode = NORMAL
  BY <1>1 DEF Settled
<1>3. QED BY <1>1, <1>2 DEF Settled, OneReady, On

\* A page's state or mode says nothing about its items.
LEMMA StateKeeps ==
  ASSUME Typed, NEW p \in Pages, NEW st, State(p, st) \/ Mode(p, st)
  PROVE  \A q \in Pages : /\ On(q)' = On(q) /\ flash'[q].ofs = flash[q].ofs
                          /\ flash'[q].s = flash[q].s /\ flash'[q].e = flash[q].e
                          /\ flash'[q].eOfs = flash[q].eOfs
                          /\ q # p => flash'[q] = flash[q]
BY DEF State, Mode, Typed, PageType, On

\* Writing a state changes one state only.
LEMMA StateIs ==
  ASSUME Typed, NEW p \in Pages, NEW st, State(p, st)
  PROVE  \A q \in Pages : /\ St(q)' = IF q = p THEN Higher(St(q), st) ELSE St(q)
                          /\ flash'[q].mode = flash[q].mode
BY DEF State, Typed, PageType, St

\* Writing a mode changes one mode only.
LEMMA ModeIs ==
  ASSUME Typed, NEW p \in Pages, NEW m, Mode(p, m)
  PROVE  \A q \in Pages : /\ flash'[q].mode = IF q = p THEN Higher(flash[q].mode, m)
                                              ELSE flash[q].mode
                          /\ St(q)' = St(q)
BY DEF Mode, Typed, PageType, St

-----------------------------------------------------------------------------
(* Finding an item *)

\* Where nothing has two items in force, and none is without its header, a search finds
\* the one there is.
LEMMA FoundIs ==
  ASSUME Typed, Laid, AtRest, Distinct, at \in {"find", "verify", "dropOlder", "return", "fail", "booted", "idle"},
         NEW k, NEW S \in SUBSET Locations
  PROVE  /\ ~Corrupted(k, S)
         /\ Found(k, S) = <<>> => Matches(k, S) = {}
         /\ Found(k, S) # <<>> => Found(k, S) \in Matches(k, S)
         /\ \A l, m \in Matches(k, S) : l = m
<1>1. \A l \in S : /\ l \in Pages \X Nat /\ l[1] # ram.tail /\ l[2] \in 1..ram.off[l[1]]
                   /\ l = <<l[1], l[2]>> /\ At(l) = On(l[1])[l[2]]
  BY DEF Locations, Typed, RamType, At, On
<1>2. \A l, m \in Matches(k, S) : l = m
  <2> SUFFICES ASSUME NEW l \in Matches(k, S), NEW m \in Matches(k, S)
               PROVE  l = m
    OBVIOUS
  <2>1. l \in S /\ m \in S /\ At(l).active /\ At(m).active /\ At(l).key = k /\ At(m).key = k
    BY DEF Matches
  <2>2. /\ InForce(l[1], l[2]) /\ InForce(m[1], m[2])
        /\ l[2] \in 1..Offset(l[1]) /\ m[2] \in 1..Offset(m[1])
    BY <1>1, <2>1 DEF InForce, Offset, Cleaning
  <2>3. l[1] = m[1] /\ l[2] = m[2]
    BY <1>1, <2>1, <2>2 DEF Distinct
  <2>4. QED BY <1>1, <2>1, <2>3
<1>3. ASSUME NEW T \in SUBSET S, \A l, m \in T : l = m
      PROVE  (First(T) = <<>> => T = {}) /\ (First(T) # <<>> => First(T) \in T)
  <2>1. CASE T = {}
    BY <2>1 DEF First
  <2>2. CASE T # {}
    <3>1. PICK l \in T : TRUE
      BY <2>2
    <3>2. First(T) \in T
      BY <1>3, <2>2, <3>1 DEF First
    <3>3. First(T) # <<>>
      <4>1. First(T) = <<First(T)[1], First(T)[2]>>
        BY <1>1, <3>2
      <4>2. \A a, b : <<a, b>> # <<>>
        OBVIOUS
      <4>3. QED BY <4>1, <4>2
    <3>4. QED BY <2>2, <3>2, <3>3
  <2>3. QED BY <2>1, <2>2
<1>4. \A l \in S : ~At(l).torn
  <2>1. \A p \in Pages : ram.off[p] = Len(On(p))
    BY DEF AtRest, Resting, Resuming, Calling
  <2>2. QED BY <1>1, <2>1 DEF Laid
<1>5. Torn(S) = {}
  BY <1>4 DEF Torn
<1>6. Matches(k, S) \in SUBSET S /\ Matches(k, S) \cup Torn(S) = Matches(k, S)
  BY <1>5 DEF Matches
<1>7. ~Corrupted(k, S)
  BY <1>2, <1>3, <1>4, <1>6 DEF Corrupted
<1>8. QED BY <1>2, <1>3, <1>6, <1>7 DEF Found

-----------------------------------------------------------------------------
(* What does not apply *)

\* Outside a compaction nothing is said of one.
LEMMA NotInside ==
  ASSUME at' \notin Inside
  PROVE  (Purpose /\ AtMark /\ Window /\ AtFilling /\ Copying /\ AtSetDst /\ AtCleaning /\ AtSetAct)'
BY DEF Inside, Purpose, AtMark, Window, AtFilling, Copying, AtSetDst, AtCleaning, AtSetAct, Filling,
       Cleaning

\* After the boot nothing is said of it.
LEMMA NotStarting ==
  ASSUME at' \notin {"off"} \cup Fresh
  PROVE  AtOff' /\ AtFresh'
BY DEF AtOff, AtFresh

\* Outside the calls nothing is said of them.
LEMMA NotResting ==
  ASSUME at' \notin Resting
  PROVE  /\ Visited' /\ Writing'
         /\ at' # "mark" => AtRest'
BY DEF Visited, Writing, AtRest, Resting, Resuming, Calling

-----------------------------------------------------------------------------
(* Boot *)

\* What initNv decides on the states it finds.
LEMMA InitActions ==
  ASSUME Typed, AtOff, at = "off"
  PROVE  \/ InitAction = "FORCE_CLEAN" /\ Virgin
         \/ InitAction = "NORMAL_INIT" /\ Virgin /\ \A p \in Pages : St(p) = NACT
         \/ /\ InitAction = "NORMAL_RESUME"
            /\ PgXdst \in Pages /\ Settled(PgXdst) /\ OneReady
<1> USE DEF NACT, XDST, RDY, ACT, FULL, XSRC
<1>1. \A st : \A p : p \in With(st) <=> p \in Pages /\ St(p) = st
  BY DEF With, St
<1>2. CASE Virgin
  <2>1. With(XSRC) = {} /\ With(XDST) = {} /\ With(ACT) = {} /\ With(FULL) = {}
    BY <1>1, <1>2 DEF Virgin
  <2>2. InitAction \in {"FORCE_CLEAN", "NORMAL_INIT"}
    BY <2>1 DEF InitAction
  <2>3. InitAction = "NORMAL_INIT" => With(NACT) = Pages
    BY <2>1 DEF InitAction
  <2>4. QED BY <1>1, <1>2, <2>2, <2>3
<1>3. ASSUME NEW t \in Pages, Settled(t), OneReady
      PROVE  InitAction = "NORMAL_RESUME" /\ PgXdst = t
  <2>1. With(XDST) = {t} /\ With(XSRC) = {} /\ t \notin With(NACT)
    BY <1>1, <1>3 DEF Settled
  <2>2. With(RDY) = {} \/ \E r : With(RDY) = {r}
    BY <1>1, <1>3 DEF OneReady
  <2>3. \A st \in {XDST, XSRC, RDY} : ~(Cardinality(With(st)) > 1)
    <3>1. Cardinality({}) = 0 /\ \A r : Cardinality({r}) = 1
      BY FS_EmptySet, FS_Singleton
    <3>2. Cardinality(With(XDST)) \in {0, 1} /\ Cardinality(With(XSRC)) \in {0, 1}
      BY <2>1, <3>1
    <3>3. Cardinality(With(RDY)) \in {0, 1}
      BY <2>2, <3>1
    <3>4. QED BY <3>2, <3>3
  <2>4. InitAction = "NORMAL_RESUME"
    BY <2>1, <2>3 DEF InitAction
  <2>5. PgXdst \in With(XDST)
    BY <2>1, ExtremePages DEF PgXdst
  <2>6. QED BY <2>1, <2>4, <2>5
<1>4. CASE \E t \in Pages : Settled(t) /\ OneReady
  BY <1>3, <1>4
<1>5. QED BY <1>2, <1>4 DEF AtOff

\* Where there is no item, none is in force.
LEMMA NothingThere ==
  ASSUME Typed, Faithful, \A p \in Pages : On(p) = <<>> /\ On(p)' = <<>>,
         \A p \in Pages : Offset(p) = 0 /\ Offset(p)' = 0, Current' = Current
  PROVE  Laid' /\ Unused' /\ Distinct' /\ Faithful'
<1>1. \A n \in 1..0 : FALSE
  OBVIOUS
<1>2. \A p \in Pages : Len(On(p)') = 0
  BY EmptySeq
<1>3. \A k \in Keys : Current[k] = NoValue
  BY <1>1 DEF Faithful
<1>4. QED BY <1>1, <1>2, <1>3 DEF Laid, Unused, Distinct, Faithful

\* A boot of an empty store, and one that finds a tail.
LEMMA BootStep ==
  ASSUME Core, Boot
  PROVE  Core'
<1> USE DEF NACT, XDST, RDY, ACT, FULL, XSRC
<1> DEFINE off == [p \in Pages |-> Scanned(flash[p])]
<1>1. at = "off" /\ Typed /\ ram = Ram0 /\ x = Locals0 /\ op.kind = "boot" /\ op # NoCall
  BY DEF Boot, Core, AtOff, Kinds
<1>2. UNCHANGED <<op, res, seen, crashes, fails>>
  BY DEF Boot, Quiet
<1>3. CASE Virgin /\ InitAction \in {"FORCE_CLEAN", "NORMAL_INIT"}
  <2>1. /\ flash' = flash /\ x' = x
        /\ \/ at' = "eraseAll" /\ ram' = [Ram0 EXCEPT !.off = off]
           \/ /\ at' = "markHead" /\ ram' = [Ram0 EXCEPT !.tail = NP - 1]
              /\ InitAction = "NORMAL_INIT"
    BY <1>3, <1>1 DEF Boot, Goto
  <2>2. \A p \in Pages : Scanned(flash[p]) = 0
    BY <1>3, EmptySeq DEF Virgin, Scanned, On
  <2>3. /\ ram' \in RamType /\ ~ram'.failW /\ at' \in {"eraseAll", "markHead"}
        /\ \A p \in Pages : ram'.off[p] = 0
    <3>1. off \in [Pages -> Nat] /\ \A p \in Pages : off[p] = 0
      BY <2>2
    <3> HIDE DEF off
    <3>2. QED BY <2>1, <3>1, EndPages DEF RamType, Ram0
  <2>4. Typed'
    BY <1>1, <1>2, <2>1, <2>3 DEF Typed, Fresh
  <2>5. at' \notin Inside /\ at' \notin Resting
    BY <2>3 DEF Inside, Filling, Cleaning, Resting, Resuming, Calling
  <2>6. (Purpose /\ AtMark /\ Window /\ AtFilling /\ Copying /\ AtSetDst /\ AtCleaning /\ AtSetAct)'
    BY <2>5, NotInside
  <2>7. AtRest' /\ Visited' /\ Writing' /\ Ring' /\ AtOff'
    BY <2>3, <2>5, NotResting DEF Inside, Ring, AtOff
  <2>8. Laid' /\ Unused' /\ Distinct' /\ Faithful'
    <3>1. \A p \in Pages : On(p) = <<>> /\ On(p)' = <<>>
      BY <1>3, <2>1 DEF Virgin, On
    <3>2. \A p \in Pages : Offset(p) = 0 /\ Offset(p)' = 0
      BY <1>1, <2>3, <3>1, EmptySeq DEF Offset
    <3>3. Current' = Current
      BY <1>1, <1>2, <2>3 DEF Current
    <3>4. QED BY <1>1, <3>1, <3>2, <3>3, NothingThere DEF Core
  <2>9. AtFresh'
    <3>1. Virgin'
      BY <1>3, <2>1 DEF Virgin, On, St
    <3>2. at' = "markHead" => (\A p \in Pages : St(p) = NACT)'
      BY <1>1, <2>1, InitActions DEF Core, St
    <3>3. at' = "eraseAll" => x'.pg = 0 /\ 0 \in Pages /\ \A p \in Pages : ~(p < x'.pg)
      BY <1>1, <2>1, RingFacts, EndPages DEF Locals0
    <3>4. QED BY <2>3, <3>1, <3>2, <3>3 DEF AtFresh
  <2>10. Kinds'
    BY <1>1, <1>2, <2>3 DEF Kinds, Fresh, Resuming
  <2>11. QED BY <2>4, <2>6, <2>7, <2>8, <2>9, <2>10 DEF Core
<1>4. CASE InitAction = "NORMAL_RESUME" /\ PgXdst \in Pages /\ Settled(PgXdst) /\ OneReady
  <2> DEFINE t == PgXdst
  <2>1. /\ at' = "resume" /\ x' = x
        /\ ram' = [Ram0 EXCEPT !.off = off, !.tail = t, !.head = Inc(t)]
        /\ State(t, XDST)
    BY <1>4 DEF Boot, Goto
  <2>2. \A p \in Pages : Scanned(flash[p]) = Len(On(p))
    BY <1>1, <1>4, EmptySeq DEF Settled, Scanned, On, St, Unused, Core
  <2>3. /\ ram' \in RamType /\ ~ram'.failW /\ ram'.tail = t /\ ram'.head = Inc(t)
        /\ \A p \in Pages : ram'.off[p] = Len(On(p))
    <3>1. off \in [Pages -> Nat] /\ \A p \in Pages : off[p] = Len(On(p))
      BY <1>1, <2>2, Sizes
    <3>2. t \in Pages /\ Inc(t) \in Pages
      BY <1>4, RingFacts
    <3> HIDE DEF off, t
    <3>3. QED BY <2>1, <3>1, <3>2, EndPages DEF RamType, Ram0
  <2>4. flash' = flash
    BY <1>1, <1>4, <2>1 DEF State, Higher, Settled, St, Typed, PageType
  <2>5. Typed'
    BY <1>1, <1>2, <2>1, <2>3, <2>4 DEF Typed, Resting, Resuming
  <2>6. \A p \in Pages : On(p)' = On(p) /\ St(p)' = St(p)
    BY <2>4 DEF On, St
  <2>7. (Purpose /\ AtMark /\ Window /\ AtFilling /\ Copying /\ AtSetDst /\ AtCleaning /\ AtSetAct)'
    BY <2>1, NotInside DEF Inside, Filling, Cleaning
  <2>8. AtOff' /\ AtFresh'
    BY <2>1, NotStarting DEF Fresh
  <2>9. AtRest' /\ Ring'
    BY <1>4, <2>1, <2>3, <2>4 DEF AtRest, Ring, Settled, OneReady, On, St
  <2>10. Laid' /\ Unused'
    BY <1>1, <2>6, LaidKept DEF Unused, Core
  <2>11. Distinct' /\ Faithful'
    <3>1. \A p \in Pages : Offset(p)' = Offset(p)
      BY <1>1, <2>1, <2>3, <2>6 DEF Offset
    <3>2. On(t) = <<>>
      BY <1>4 DEF Settled
    <3>3. \A p \in Pages : \A i \in 1..Offset(p) : InForce(p, i)' = InForce(p, i)
      <4>1. \A i \in 1..Offset(t) : FALSE
        BY <1>1, <3>2, EmptySeq DEF Offset
      <4>2. QED BY <1>1, <2>1, <2>3, <2>6, <4>1 DEF InForce
    <3>4. Current' = Current
      BY <1>1, <1>2, <2>1 DEF Current
    <3>5. QED BY <2>6, <3>1, <3>3, <3>4, DataKept DEF Core
  <2>12. Kinds' /\ Visited' /\ Writing'
    BY <1>1, <1>2, <2>1, <2>3 DEF Kinds, Visited, Writing, Resuming, Locals0
  <2>13. QED BY <2>5, <2>7, <2>8, <2>9, <2>10, <2>11, <2>12 DEF Core
<1>5. QED BY <1>1, <1>3, <1>4, InitActions DEF Core

\* An empty store is erased page by page (NVOCMP_FORCE_CLEAN).
LEMMA EraseAllStep ==
  ASSUME Core, EraseAll
  PROVE  Core'
<1> USE DEF NACT, XDST, RDY, ACT, FULL, XSRC
<1>1. /\ at = "eraseAll" /\ Typed /\ Virgin /\ x.pg \in Pages /\ op.kind = "boot" /\ op # NoCall
      /\ \A p \in Pages : ram.off[p] = 0 /\ (p < x.pg => St(p) = NACT)
  BY DEF EraseAll, Core, AtFresh, Fresh, Kinds
<1>2. UNCHANGED <<op, res, seen, crashes, fails>>
  BY DEF EraseAll, Quiet
<1>3. /\ flash' = [flash EXCEPT ![x.pg] = Erased] /\ ram' = [ram EXCEPT !.off[x.pg] = 0]
      /\ x' = [x EXCEPT !.pg = @ + 1]
      /\ at' = IF x.pg = NP - 1 THEN "markHead" ELSE "eraseAll"
  BY DEF EraseAll, Erase, Goto
<1>4. x.pg \in 0..(NP - 1) /\ x.pg + 1 \in 0..NP /\ (x.pg # NP - 1 => x.pg + 1 \in Pages)
  BY <1>1, PageInts
<1>5. Typed'
  <2>1. flash' \in [Pages -> PageType] /\ ram' \in RamType
    BY <1>1, EraseTyped DEF EraseAll
  <2>2. QED BY <1>1, <1>2, <1>3, <1>4, <2>1 DEF Typed, LocalsType, Fresh
<1>6. ram'.failW = ram.failW /\ \A p \in Pages : ram'.off[p] = 0
  BY <1>1, <1>3 DEF Typed, RamType
<1>7. /\ flash'[x.pg] = Erased
      /\ \A p \in Pages : p # x.pg => flash'[p] = flash[p]
  BY <1>1, <1>3 DEF Typed
<1>8. \A p \in Pages : St(p)' = IF p = x.pg THEN NACT ELSE St(p)
  BY <1>7 DEF St, Erased
<1>9. Virgin'
  BY <1>1, <1>7 DEF Virgin, Erased, On, St
<1>10. (Purpose /\ AtMark /\ Window /\ AtFilling /\ Copying /\ AtSetDst /\ AtCleaning /\ AtSetAct)'
  BY <1>3, NotInside DEF Inside, Filling, Cleaning
<1>11. AtRest' /\ Visited' /\ Writing' /\ Ring' /\ AtOff'
  BY <1>3, NotResting DEF Inside, Ring, AtOff, Resting, Resuming, Calling, Filling, Cleaning
<1>12. AtFresh'
  <2>1. at' = "eraseAll" => /\ x'.pg \in Pages
                            /\ \A p \in Pages : p < x'.pg => St(p)' = NACT
    <3>1. at' = "eraseAll" => x'.pg = x.pg + 1 /\ x.pg + 1 \in Pages
      BY <1>1, <1>3, <1>4 DEF Typed, LocalsType
    <3>2. \A p \in Pages : p < x.pg + 1 => p < x.pg \/ p = x.pg
      BY <1>4, PageInts
    <3>3. QED BY <1>1, <1>8, <3>1, <3>2
  <2>2. at' = "markHead" => \A p \in Pages : St(p)' = NACT
    <3>1. x.pg = NP - 1 => \A p \in Pages : p < x.pg \/ p = x.pg
      BY <1>4, PageInts
    <3>2. QED BY <1>1, <1>3, <1>8, <3>1
  <2>3. QED BY <1>3, <1>6, <1>9, <2>1, <2>2 DEF AtFresh
<1>13. Laid' /\ Unused' /\ Distinct' /\ Faithful'
  <2>1. \A p \in Pages : On(p) = <<>> /\ On(p)' = <<>>
    BY <1>1, <1>9 DEF Virgin
  <2>2. \A p \in Pages : Offset(p) = 0 /\ Offset(p)' = 0
    BY <1>1, <1>3, <1>6 DEF Offset
  <2>3. Current' = Current
    BY <1>1, <1>2, <1>3 DEF Current
  <2>4. QED BY <1>1, <2>1, <2>2, <2>3, NothingThere DEF Core
<1>14. Kinds'
  BY <1>1, <1>2, <1>3, <1>6 DEF Kinds, Fresh, Resuming, Core
<1>15. QED BY <1>5, <1>9, <1>10, <1>11, <1>12, <1>13, <1>14 DEF Core

\* The first page of an empty store becomes ready.
LEMMA MarkHeadStep ==
  ASSUME Core, MarkHead
  PROVE  Core'
<1> USE DEF NACT, XDST, RDY, ACT, FULL, XSRC
<1>1. /\ at = "markHead" /\ Typed /\ Virgin /\ op.kind = "boot" /\ op # NoCall
      /\ \A p \in Pages : ram.off[p] = 0 /\ St(p) = NACT
  BY DEF MarkHead, Core, AtFresh, Fresh, Kinds
<1>2. UNCHANGED <<op, res, seen, crashes, fails, x>>
  BY DEF MarkHead, Quiet
<1>3. /\ State(0, RDY) /\ ram' = [ram EXCEPT !.head = 0, !.tail = NP - 1, !.act = 0]
      /\ at' = "markTail" /\ 0 \in Pages /\ NP - 1 \in Pages
  BY EndPages DEF MarkHead, Goto
<1>4. Typed'
  <2>1. flash' \in [Pages -> PageType]
    BY <1>1, <1>3, StateTyped
  <2>2. QED BY <1>1, <1>2, <1>3, <2>1 DEF Typed, RamType, Fresh
<1>5. /\ ram'.failW = ram.failW /\ ram'.tail = NP - 1 /\ ram'.head = 0
      /\ \A p \in Pages : ram'.off[p] = 0
  BY <1>1, <1>3 DEF Typed, RamType
<1>6. \A p \in Pages : /\ On(p)' = On(p) /\ St(p)' = (IF p = 0 THEN RDY ELSE NACT)
                       /\ flash'[p].mode = flash[p].mode /\ flash'[p].ofs = flash[p].ofs
  BY <1>1, <1>3, StateKeeps, StateIs DEF Higher
<1>7. Virgin'
  BY <1>1, <1>6 DEF Virgin
<1>8. (Purpose /\ AtMark /\ Window /\ AtFilling /\ Copying /\ AtSetDst /\ AtCleaning /\ AtSetAct)'
  BY <1>3, NotInside DEF Inside, Filling, Cleaning
<1>9. AtRest' /\ Visited' /\ Writing' /\ Ring' /\ AtOff'
  BY <1>3, NotResting DEF Inside, Ring, AtOff, Resting, Resuming, Calling, Filling, Cleaning
<1>10. AtFresh'
  BY <1>3, <1>5, <1>6, <1>7 DEF AtFresh
<1>11. Laid' /\ Unused' /\ Distinct' /\ Faithful'
  <2>1. \A p \in Pages : On(p) = <<>> /\ On(p)' = <<>>
    BY <1>1, <1>7 DEF Virgin
  <2>2. \A p \in Pages : Offset(p) = 0 /\ Offset(p)' = 0
    BY <1>1, <1>3, <1>5 DEF Offset
  <2>3. Current' = Current
    BY <1>1, <1>2, <1>3 DEF Current
  <2>4. QED BY <1>1, <2>1, <2>2, <2>3, NothingThere DEF Core
<1>12. Kinds'
  BY <1>1, <1>2, <1>3, <1>5 DEF Kinds, Fresh, Resuming, Core
<1>13. QED BY <1>4, <1>8, <1>9, <1>10, <1>11, <1>12 DEF Core

\* The last page of an empty store becomes the tail: from here on the pages are settled.
LEMMA MarkTailStep ==
  ASSUME Core, MarkTail
  PROVE  Core'
<1> USE DEF NACT, XDST, RDY, ACT, FULL, XSRC
<1>1. /\ at = "markTail" /\ Typed /\ Virgin /\ op.kind = "boot" /\ op # NoCall
      /\ ram.tail = NP - 1 /\ ram.head = 0 /\ ram.tail \in Pages
      /\ \A p \in Pages : ram.off[p] = 0 /\ St(p) = IF p = 0 THEN RDY ELSE NACT
  BY EndPages DEF MarkTail, Core, AtFresh, Fresh, Kinds
<1>2. /\ UNCHANGED <<op, res, seen, crashes, fails, x, ram>> /\ State(ram.tail, XDST)
      /\ at' = "booted"
  BY DEF MarkTail, Quiet, Goto
<1>3. Typed'
  <2>1. flash' \in [Pages -> PageType]
    BY <1>1, <1>2, StateTyped
  <2>2. QED BY <1>1, <1>2, <2>1 DEF Typed, RamType, Resting, Resuming
<1>4. NP - 1 # 0
  BY NvAssumption
<1>5. \A p \in Pages : /\ On(p)' = On(p)
                       /\ St(p)' = (IF p = NP - 1 THEN XDST ELSE IF p = 0 THEN RDY ELSE NACT)
                       /\ flash'[p].mode = flash[p].mode /\ flash'[p].ofs = flash[p].ofs
  <2>1. \A p \in Pages : On(p)' = On(p) /\ flash'[p].ofs = flash[p].ofs
    BY <1>1, <1>2, StateKeeps
  <2>2. \A p \in Pages : /\ St(p)' = IF p = NP - 1 THEN Higher(St(p), XDST) ELSE St(p)
                         /\ flash'[p].mode = flash[p].mode
    BY <1>1, <1>2, StateIs
  <2>3. Higher(NACT, XDST) = XDST
    BY DEF Higher
  <2>4. QED BY <1>1, <1>4, <2>1, <2>2, <2>3
<1>6. (Purpose /\ AtMark /\ Window /\ AtFilling /\ Copying /\ AtSetDst /\ AtCleaning /\ AtSetAct)'
  BY <1>2, NotInside DEF Inside, Filling, Cleaning
<1>7. AtOff' /\ AtFresh'
  BY <1>2, NotStarting DEF Fresh
<1>8. AtRest' /\ Ring'
  <2>1. Settled(ram.tail)' /\ OneReady'
    BY <1>1, <1>2, <1>5 DEF Settled, OneReady, Virgin
  <2>2. \A p \in Pages : ram'.off[p] = Len(On(p)')
    BY <1>1, <1>2, <1>5, EmptySeq DEF Virgin
  <2>3. Inc(NP - 1) = 0
    BY RingIs, EndPages
  <2>4. QED BY <1>1, <1>2, <2>1, <2>2, <2>3 DEF AtRest, Ring
<1>9. Laid' /\ Unused' /\ Distinct' /\ Faithful'
  <2>1. \A p \in Pages : On(p) = <<>> /\ On(p)' = <<>>
    BY <1>1, <1>5 DEF Virgin
  <2>2. \A p \in Pages : Offset(p) = 0 /\ Offset(p)' = 0
    BY <1>1, <1>2 DEF Offset
  <2>3. Current' = Current
    BY <1>1, <1>2 DEF Current
  <2>4. QED BY <1>1, <2>1, <2>2, <2>3, NothingThere DEF Core
<1>10. Kinds' /\ Visited' /\ Writing'
  BY <1>1, <1>2 DEF Kinds, Visited, Writing, Fresh, Resuming, Core
<1>11. QED BY <1>3, <1>6, <1>7, <1>8, <1>9, <1>10 DEF Core

\* The beginning of a compaction.
LEMMA CompactStep ==
  ASSUME Core, at \in {"idle", "getDst", "resume"},
         flash' = flash, seen' = seen, res' = res, crashes' = crashes, fails' = fails,
         ram' \in RamType, ram'.head = ram.head, ram'.tail = ram.tail, ram'.off = ram.off,
         ram'.failW = ram.failW,
         op' \in Map!Calls, op' # NoCall,
         NEW nb \in 0..Cap, NEW ret \in {"return", "booted", "compacted"}, Compact(nb, ret),
         \/ nb = 0 /\ ret = "return" /\ op'.kind = "compact"
         \/ nb = 0 /\ ret = "booted" /\ op'.kind = "boot"
         \/ ret = "compacted" /\ op'.kind = "write" /\ nb = Len(op'.val),
         nb > 0 => x.free < nb /\ \A p \in Pages \ {ram.tail} : St(p) = FULL
  PROVE  Core'
<1> USE DEF NACT, XDST, RDY, ACT, FULL, XSRC
<1>1. /\ Typed /\ at \in Resting /\ ram.head = Inc(ram.tail) /\ ram.tail \in Pages
      /\ \A p \in Pages : ram.off[p] = Len(On(p))
  BY DEF Core, AtRest, Ring, Resting, Resuming, Calling, Typed, RamType
<1>2. /\ at' = "mark"
      /\ x' = [x EXCEPT !.nBytes = nb, !.ret = ret, !.pg = 0, !.skip = 0, !.room = FALSE,
                        !.src = ram.head, !.dst = ram.tail, !.left = NP - 1,
                        !.srcPages = IF nb > 0 THEN 1 ELSE NP - 1]
  BY DEF Compact
<1>3. /\ x'.nBytes = nb /\ x'.ret = ret /\ x'.skip = 0 /\ x'.room = FALSE /\ x'.src = ram.head
      /\ x'.dst = ram.tail /\ x'.left = NP - 1 /\ x'.free = x.free
      /\ x'.srcPages = IF nb > 0 THEN 1 ELSE NP - 1
      /\ x' \in LocalsType
  <2>1. /\ 0 \in 0..NP /\ NP - 1 \in Int /\ (IF nb > 0 THEN 1 ELSE NP - 1) \in Int /\ 0 \in Nat
        /\ ram.head \in Pages /\ ram.tail \in Pages
    BY <1>1, PageInts DEF Typed, RamType
  <2>2. x \in LocalsType
    BY <1>1 DEF Typed
  <2> DEFINE sp == IF nb > 0 THEN 1 ELSE NP - 1
  <2>3. x' = [x EXCEPT !.nBytes = nb, !.ret = ret, !.pg = 0, !.skip = 0, !.room = FALSE,
                        !.src = ram.head, !.dst = ram.tail, !.left = NP - 1, !.srcPages = sp]
    BY <1>2
  <2>4. sp \in Int
    BY <2>1
  <2> HIDE DEF sp
  <2>5. x' \in LocalsType /\ x'.nBytes = nb /\ x'.ret = ret /\ x'.skip = 0 /\ x'.room = FALSE
    BY <2>1, <2>2, <2>3, <2>4 DEF LocalsType
  <2>6. /\ x'.src = ram.head
        /\ x'.dst = ram.tail /\ x'.left = NP - 1 /\ x'.free = x.free /\ x'.srcPages = sp
    BY <2>1, <2>2, <2>3, <2>4 DEF LocalsType
  <2>7. QED BY <2>5, <2>6 DEF sp
<1>4. Typed'
  BY <1>1, <1>2, <1>3 DEF Typed, Inside
<1>5. \A p \in Pages : On(p)' = On(p) /\ St(p)' = St(p)
  BY DEF On, St
<1>6. Laid' /\ Unused'
  BY <1>5, LaidKept DEF Unused, Core
<1>7. AtRest' /\ Ring'
  BY <1>1, <1>2, <1>5 DEF Core, AtRest, Ring, Settled, OneReady
<1>8. AtOff' /\ AtFresh'
  BY <1>2, NotStarting DEF Fresh
<1>9. Distinct' /\ Faithful'
  <2>1. Current' = Current
    BY <1>2 DEF Current
  <2>2. \A p \in Pages : Offset(p)' = Offset(p)
    BY <1>2 DEF Offset
  <2>3. \A p \in Pages : \A i \in 1..Offset(p) : InForce(p, i)' = InForce(p, i)
    BY <1>2, <1>5 DEF InForce, Cleaning
  <2>4. QED BY <1>5, <2>1, <2>2, <2>3, DataKept DEF Core
<1>10. Purpose'
  BY <1>2, <1>3, <1>5 DEF Purpose, Filling, Cleaning
<1>11. AtMark' /\ Window' /\ AtFilling' /\ Copying' /\ AtSetDst' /\ AtCleaning' /\ AtSetAct'
  BY <1>1, <1>2, <1>3 DEF AtMark, Window, AtFilling, Copying, AtSetDst, AtCleaning, AtSetAct,
                          Filling, Cleaning
<1>12. Kinds' /\ Visited' /\ Writing'
  BY <1>2 DEF Kinds, Visited, Writing, Fresh, Resuming, Core
<1>13. QED BY <1>4, <1>6, <1>7, <1>8, <1>9, <1>10, <1>11, <1>12 DEF Core

\* Resuming looks at the last item of the active page.
LEMMA ResumeStep ==
  ASSUME Core, Resume
  PROVE  Core'
<1> USE DEF NACT, XDST, RDY, ACT, FULL, XSRC
<1> DEFINE a == ram'.act
           n == ram.off[a]
<1>1. /\ at = "resume" /\ Typed /\ op.kind = "boot" /\ op # NoCall /\ x.ret = "return"
      /\ Settled(ram.tail) /\ OneReady /\ ram.head = Inc(ram.tail) /\ ram.tail \in Pages
      /\ \A p \in Pages : ram.off[p] = Len(On(p))
  BY DEF Resume, Core, AtRest, Ring, Kinds, Writing, Resting, Resuming, Typed, RamType
<1>2. /\ UNCHANGED <<flash, op, res, seen, crashes, fails>>
      /\ ram' = [ram EXCEPT !.act = IF With(ACT) # {} THEN Max(With(ACT))
                                    ELSE IF With(RDY) # {} THEN Max(With(RDY)) ELSE ram.head]
  BY DEF Resume, Quiet
<1>3. \A st : With(st) \subseteq Pages /\ \A p \in With(st) : St(p) = st
  BY DEF With, St
<1>4. a \in Pages /\ (With(ACT) # {} => St(a) = ACT)
  <2>1. a = IF With(ACT) # {} THEN Max(With(ACT))
            ELSE IF With(RDY) # {} THEN Max(With(RDY)) ELSE ram.head
    BY <1>1, <1>2 DEF Typed, RamType
  <2>2. ram.head \in Pages
    BY <1>1 DEF Typed, RamType
  <2>3. QED BY <1>3, <2>1, <2>2, ExtremePages
<1>5. /\ ram'.off = ram.off /\ ram'.tail = ram.tail /\ ram'.head = ram.head
      /\ ram'.failW = ram.failW /\ ram' \in RamType
  BY <1>1, <1>2, <1>4 DEF Typed, RamType
<1>6. \/ /\ at' = "booted" /\ x' = x
      \/ /\ With(ACT) # {} /\ n # 0 /\ On(a)[n].active
         /\ at' = "dropOlder" /\ x' = [x EXCEPT !.key = On(a)[n].key]
      \/ Compact(0, "booted")
  BY DEF Resume, Goto, On
<1>7. \A p \in Pages : On(p)' = On(p) /\ St(p)' = St(p)
  BY <1>2 DEF On, St
<1>8. Laid' /\ Unused'
  BY <1>1, <1>7, LaidKept DEF Unused, Core
<1>9. Settled(ram.tail)' /\ OneReady'
  BY <1>1, <1>2, <1>5 DEF Settled, OneReady, On, St
<1>10. ASSUME at' \in {"booted", "dropOlder", "mark"}
       PROVE  AtOff' /\ AtFresh' /\ AtRest' /\ Ring' /\ Distinct' /\ Faithful'
  <2>1. AtOff' /\ AtFresh'
    BY <1>10, NotStarting DEF Fresh
  <2>2. AtRest' /\ Ring'
    BY <1>1, <1>2, <1>5, <1>7, <1>9, <1>10 DEF AtRest, Ring
  <2>3. Current' = Current
    BY <1>1, <1>2, <1>10 DEF Current
  <2>4. \A p \in Pages : Offset(p)' = Offset(p)
    BY <1>1, <1>5, <1>10 DEF Offset
  <2>5. \A p \in Pages : \A i \in 1..Offset(p) : InForce(p, i)' = InForce(p, i)
    BY <1>1, <1>5, <1>7, <1>10 DEF InForce, Cleaning
  <2>6. QED BY <1>7, <2>1, <2>2, <2>3, <2>4, <2>5, DataKept DEF Core
<1>11. CASE at' = "booted" /\ x' = x
  <2>1. Typed'
    BY <1>1, <1>2, <1>5, <1>11 DEF Typed, Resting, Resuming
  <2>2. (Purpose /\ AtMark /\ Window /\ AtFilling /\ Copying /\ AtSetDst /\ AtCleaning /\ AtSetAct)'
    BY <1>11, NotInside DEF Inside, Filling, Cleaning
  <2>3. Kinds' /\ Visited' /\ Writing'
    BY <1>1, <1>2, <1>5, <1>11 DEF Kinds, Visited, Writing, Resuming, Core
  <2>4. QED BY <1>8, <1>10, <1>11, <2>1, <2>2, <2>3 DEF Core
<1>12. CASE /\ With(ACT) # {} /\ n # 0 /\ On(a)[n].active
            /\ at' = "dropOlder" /\ x' = [x EXCEPT !.key = On(a)[n].key]
  <2>1. n \in 1..Len(On(a)) /\ n \in Nat
    BY <1>1, <1>4, <1>12 DEF Typed, RamType
  <2>2. On(a)[n].key \in Keys
    BY <1>1, <1>4, <2>1, Sizes DEF Items
  <2>3. Typed'
    BY <1>1, <1>2, <1>5, <1>12, <2>2 DEF Typed, Resting, Resuming, LocalsType
  <2>4. (Purpose /\ AtMark /\ Window /\ AtFilling /\ Copying /\ AtSetDst /\ AtCleaning /\ AtSetAct)'
    BY <1>12, NotInside DEF Inside, Filling, Cleaning
  <2>5. a # ram.tail
    BY <1>1, <1>4, <1>12 DEF Settled
  <2>6. x'.key = On(a)[n].key /\ x'.ret = x.ret
    BY <1>1, <1>12 DEF Typed, LocalsType
  <2>7. Kinds' /\ Visited'
    BY <1>1, <1>2, <1>5, <1>12 DEF Kinds, Visited, Resuming, Core
  <2>8. IsAt(<<ram.act, ram.off[ram.act]>>, x.key)'
    BY <1>4, <1>5, <1>7, <1>12, <2>1, <2>6 DEF IsAt
  <2>9. Writing'
    BY <1>1, <1>5, <1>12, <2>5, <2>6, <2>8 DEF Writing
  <2>10. QED BY <1>8, <1>10, <1>12, <2>3, <2>4, <2>7, <2>9 DEF Core
<1>13. CASE Compact(0, "booted")
  <2>1. 0 \in 0..Cap /\ op \in Map!Calls
    BY <1>1, NvAssumption DEF Typed
  <2>2. QED BY <1>1, <1>2, <1>5, <1>13, <2>1, CompactStep
<1>14. QED BY <1>6, <1>11, <1>12, <1>13
-----------------------------------------------------------------------------
(* Calls *)

\* A step between compactions that leaves the flash alone.
LEMMA RestStep ==
  ASSUME Core, at \in Resting \cup {"mark"}, at' \in Resting, at # "writeHeader", at' # "writeHeader",
         flash' = flash, ram' \in RamType, ram'.tail = ram.tail, ram'.head = ram.head,
         ram'.off = ram.off, x' \in LocalsType, op' \in Map!Calls \cup {NoCall},
         res' \in {"ok", "fail", "lost"}, seen' \in [Keys -> Values \cup {NoValue}],
         crashes' = crashes, fails' = fails
  PROVE  /\ Typed' /\ Laid' /\ Unused' /\ AtOff' /\ AtFresh' /\ AtRest' /\ Ring'
         /\ (Purpose /\ AtMark /\ Window /\ AtFilling /\ Copying /\ AtSetDst /\ AtCleaning /\ AtSetAct)'
         /\ Current' = Current /\ at # "setInactive" /\ at' # "setInactive" => Distinct' /\ Faithful'
<1>1. Typed'
  BY DEF Core, Typed
<1>2. \A p \in Pages : On(p)' = On(p) /\ St(p)' = St(p)
  BY DEF On, St
<1>3. Laid' /\ Unused'
  BY <1>2, LaidKept DEF Core, Unused
<1>4. at' \notin Inside /\ at' \notin {"off"} \cup Fresh /\ at \notin Cleaning /\ at # "off"
      /\ at' \notin Cleaning
  BY DEF Resting, Resuming, Calling, Inside, Filling, Cleaning, Fresh
<1>5. AtOff' /\ AtFresh'
  BY <1>4, NotStarting
<1>6. (Purpose /\ AtMark /\ Window /\ AtFilling /\ Copying /\ AtSetDst /\ AtCleaning /\ AtSetAct)'
  BY <1>4, NotInside
<1>7. AtRest' /\ Ring'
  <2>1. /\ Settled(ram.tail) /\ OneReady /\ ram.head = Inc(ram.tail)
        /\ \A p \in Pages : ram.off[p] = Len(On(p))
    BY DEF Core, AtRest, Ring, Inside
  <2>2. Settled(ram.tail)' /\ OneReady'
    BY <2>1 DEF Settled, OneReady, On, St
  <2>3. QED BY <1>2, <2>1, <2>2 DEF AtRest, Ring
<1>8. ASSUME Current' = Current, at # "setInactive", at' # "setInactive"
      PROVE  Distinct' /\ Faithful'
  <2>1. \A p \in Pages : Offset(p)' = Offset(p)
    BY <1>4, <1>5 DEF Offset
  <2>2. \A p \in Pages : \A i \in 1..Offset(p) : InForce(p, i)' = InForce(p, i)
    BY <1>2, <1>4, <1>8 DEF InForce
  <2>3. QED BY <1>2, <1>8, <2>1, <2>2, DataKept DEF Core
<1>9. QED BY <1>1, <1>3, <1>5, <1>6, <1>7, <1>8

\* A call is made.
LEMMA CallStep ==
  ASSUME Core, NEW c \in Map!Calls, NEW a \in {"getDst", "find"}, Call(c, a),
         a = "getDst" => c.kind = "write", a = "find" => c.kind \in {"delete", "read"}
  PROVE  Core'
<1>1. /\ at = "idle" /\ Typed /\ op = NoCall /\ ~ram.failW /\ ram.act \in Pages
  BY DEF Call, Core, Kinds, Typed, RamType
<1>2. /\ op' = c /\ at' = a /\ x' = [Locals0 EXCEPT !.pg = ram.act]
      /\ UNCHANGED <<flash, ram, res, seen, crashes, fails>>
  BY DEF Call
<1>3. x'.pg = ram.act /\ x'.free = 0 /\ x'.n = 0 /\ Locals0 \in LocalsType /\ x' \in LocalsType
  <2>1. 0 \in 0..NP /\ 0 \in 0..Cap /\ 0 \in Int /\ 0 \in Nat /\ ram.act \in 0..NP
    BY <1>1, NvAssumption DEF Pages
  <2>2. Locals0 \in LocalsType
    BY <2>1, EndPages DEF Locals0, LocalsType
  <2>3. x'.pg = ram.act /\ x'.free = 0 /\ x'.n = 0
    BY <1>2 DEF Locals0
  <2>4. x' \in LocalsType
    BY <1>2, <2>1, <2>2 DEF LocalsType
  <2>5. QED BY <2>2, <2>3, <2>4
<1>4. op' # NoCall /\ c.kind # "none"
  BY <1>2 DEF NoCall, Map!Calls
<1>5. Current' = Current
  BY <1>1, <1>2 DEF Current
<1>6. /\ Typed' /\ Laid' /\ Unused' /\ AtOff' /\ AtFresh' /\ AtRest' /\ Ring'
      /\ (Purpose /\ AtMark /\ Window /\ AtFilling /\ Copying /\ AtSetDst /\ AtCleaning /\ AtSetAct)'
      /\ Distinct' /\ Faithful'
  BY <1>1, <1>2, <1>3, <1>5, RestStep DEF Resting, Calling, Typed
<1>7. Kinds'
  BY <1>1, <1>2, <1>4 DEF Kinds, Resuming, Fresh
<1>8. Visited'
  <2>1. a = "getDst" => 0 < Len(c.val)
    <3>1. a = "getDst" => c.val \in Values
      BY DEF Map!Calls
    <3>2. QED BY <3>1, NvAssumption
  <2>2. \A p \in Pages : Dist(p, x'.pg) \notin 1..x'.n /\ x'.n # NP
    BY <1>3, PageInts
  <2>3. QED BY <1>1, <1>2, <1>3, <2>1, <2>2 DEF Visited
<1>9. Writing'
  BY <1>2 DEF Writing
<1>10. QED BY <1>6, <1>7, <1>8, <1>9 DEF Core

\* A call of the API starts.
LEMMA CallsStep ==
  ASSUME Core, Calls
  PROVE  Core'
<1>1. ASSUME NEW k \in Keys, NEW v \in Values, WriteItem(k, v)
      PROVE  Core'
  <2>1. [kind |-> "write", key |-> k, val |-> v] \in Map!Calls
    BY DEF Map!Calls
  <2>2. QED BY <1>1, <2>1, CallStep DEF WriteItem
<1>2. ASSUME NEW k \in Keys, DeleteItem(k)
      PROVE  Core'
  <2>1. [kind |-> "delete", key |-> k] \in Map!Calls
    BY DEF Map!Calls
  <2>2. QED BY <1>2, <2>1, CallStep DEF DeleteItem
<1>3. ASSUME NEW k \in Keys, ReadItem(k)
      PROVE  Core'
  <2>1. [kind |-> "read", key |-> k] \in Map!Calls
    BY DEF Map!Calls
  <2>2. QED BY <1>3, <2>1, CallStep DEF ReadItem
<1>4. CASE CompactNv
  <2>1. /\ at = "idle" /\ op' = [kind |-> "compact"] /\ Compact(0, "return")
        /\ UNCHANGED <<flash, ram, res, seen, crashes, fails>>
    BY <1>4 DEF CompactNv
  <2>2. op' \in Map!Calls /\ op' # NoCall /\ 0 \in 0..Cap /\ op'.kind = "compact"
    BY <2>1, NvAssumption DEF Map!Calls, NoCall
  <2>3. ram' \in RamType
    BY <2>1 DEF Core, Typed
  <2>4. QED BY <2>1, <2>2, <2>3, CompactStep
<1>5. QED BY <1>1, <1>2, <1>3, <1>4 DEF Calls

\* With no id active twice, nothing is left to drop.
LEMMA DropOlderStep ==
  ASSUME Core, DropOlder
  PROVE  Core'
<1> DEFINE last == <<ram.act, ram.off[ram.act]>>
           S == Locations \ {last}
<1>1. /\ at = "dropOlder" /\ Typed /\ Laid /\ AtRest /\ Distinct /\ x.ret = "return"
      /\ IsAt(last, x.key) /\ ram.act # ram.tail /\ ram.act \in Pages /\ op.kind = "boot"
      /\ op # NoCall /\ ~ram.failW
  BY DEF DropOlder, Core, Writing, Typed, RamType, Kinds, Resuming
<1>2. last \in Locations /\ last = <<last[1], last[2]>> /\ last[1] = ram.act
      /\ last[2] \in 1..ram.off[ram.act]
  BY <1>1 DEF IsAt, Locations
<1>3. last \in Matches(x.key, Locations)
  <2>1. ram.off[ram.act] = Len(On(ram.act))
    BY <1>1 DEF AtRest, Resting, Resuming
  <2>2. ~On(ram.act)[ram.off[ram.act]].torn
    BY <1>1, <1>2, <2>1 DEF Laid
  <2>3. QED BY <1>1, <1>2, <2>2 DEF Matches, IsAt, At, On
<1>4. Found(x.key, S) = <<>> /\ ~Corrupted(x.key, S)
  <2>1. \A l, m \in Matches(x.key, Locations) : l = m
    BY <1>1, FoundIs
  <2>2. Matches(x.key, S) = {}
    BY <1>3, <2>1 DEF Matches
  <2>3. ~Corrupted(x.key, S) /\ (Found(x.key, S) # <<>> => Found(x.key, S) \in Matches(x.key, S))
    BY <1>1, FoundIs
  <2>4. QED BY <2>2, <2>3
<1>5. at' = "booted" /\ UNCHANGED <<x, flash, ram, op, res, seen, crashes, fails>>
  BY <1>1, <1>4 DEF DropOlder, Goto, Quiet
<1>6. Current' = Current
  BY <1>1, <1>5 DEF Current
<1>7. /\ Typed' /\ Laid' /\ Unused' /\ AtOff' /\ AtFresh' /\ AtRest' /\ Ring'
      /\ (Purpose /\ AtMark /\ Window /\ AtFilling /\ Copying /\ AtSetDst /\ AtCleaning /\ AtSetAct)'
      /\ Distinct' /\ Faithful'
  BY <1>1, <1>5, <1>6, RestStep DEF Resting, Resuming, Typed
<1>8. Kinds' /\ Visited' /\ Writing'
  BY <1>1, <1>5 DEF Kinds, Visited, Writing, Resuming
<1>9. QED BY <1>7, <1>8 DEF Core

-----------------------------------------------------------------------------
(* A write looks for a page *)

\* The search for room passes full pages only, and ends on a page with room or in a
\* compaction.
LEMMA GetDstPageStep ==
  ASSUME Core, GetDstPage
  PROVE  Core'
<1> USE DEF NACT, XDST, RDY, ACT, FULL, XSRC
<1> DEFINE p == x.pg
           next == [x EXCEPT !.pg = Inc(p), !.n = @ + 1]
<1>1. /\ at = "getDst" /\ Typed /\ op.kind = "write" /\ op # NoCall /\ op.val \in Values
      /\ op \in Map!Calls /\ Len(op.val) \in 1..Cap /\ ~ram.failW
      /\ Settled(ram.tail) /\ OneReady /\ ram.head = Inc(ram.tail) /\ ram.tail \in Pages
      /\ p \in Pages /\ x.free < Len(op.val) /\ Unused /\ x.n \in 0..NP
      /\ \A q \in Pages : ram.off[q] = Len(On(q))
      /\ \A q \in Pages : x.n = NP \/ Dist(q, p) \in 1..x.n => q = ram.tail \/ St(q) = FULL
  <2>1. at = "getDst" /\ Typed /\ op.kind = "write" /\ op # NoCall /\ ~ram.failW
    BY DEF GetDstPage, Core, Kinds
  <2>2. op.val \in Values /\ op \in Map!Calls /\ Len(op.val) \in 1..Cap
    BY <2>1, OpIs, Sizes DEF Typed
  <2>3. /\ Settled(ram.tail) /\ OneReady /\ ram.head = Inc(ram.tail) /\ ram.tail \in Pages
        /\ \A q \in Pages : ram.off[q] = Len(On(q))
    BY <2>1 DEF Core, AtRest, Ring, Resting, Calling, Typed, RamType
  <2>4. QED BY <2>1, <2>2, <2>3 DEF Core, Visited, Typed, LocalsType
<1>2. UNCHANGED <<op, res, seen, crashes, fails>>
  BY DEF GetDstPage, Quiet
<1>3. ASSUME x.n < NP
      PROVE  /\ next \in LocalsType /\ next.free = x.free /\ next.pg = Inc(p) /\ next.n = x.n + 1
             /\ next.pg \in Pages
             /\ \A q \in Pages : next.n = NP \/ Dist(q, next.pg) \in 1..next.n
                                 => q = ram.tail \/ q = p \/ St(q) = FULL
  <2>1. Inc(p) \in Pages /\ Inc(p) \in 0..NP /\ x.n + 1 \in 0..NP /\ x \in LocalsType
    <3>1. Inc(p) \in Pages
      BY <1>1, RingFacts
    <3>2. QED BY <1>1, <1>3, <3>1, PageInts DEF Typed
  <2>2. next \in LocalsType /\ next.free = x.free /\ next.pg = Inc(p) /\ next.n = x.n + 1
    BY <2>1 DEF LocalsType
  <2>3. ASSUME NEW q \in Pages, x.n + 1 = NP \/ Dist(q, Inc(p)) \in 1..(x.n + 1)
        PROVE  q = p \/ Dist(q, p) \in 1..x.n
    <3>1. p \in Int /\ 0 <= p /\ p < NP /\ q \in Int /\ 0 <= q /\ q < NP /\ NP \in Int /\ x.n \in Int
      BY <1>1, PageInts
    <3>2. /\ Inc(p) = IF p = NP - 1 THEN 0 ELSE p + 1
          /\ Dist(q, p) = IF p >= q THEN p - q ELSE p + NP - q
          /\ Dist(q, Inc(p)) = IF Inc(p) >= q THEN Inc(p) - q ELSE Inc(p) + NP - q
      BY <1>1, <2>1, RingIs
    <3>3. QED BY <2>3, <3>1, <3>2
  <2>4. QED BY <1>1, <1>3, <2>1, <2>2, <2>3
<1>4. CASE x.n < NP /\ (p = ram.tail \/ flash[p].st = FULL) /\ x' = next /\ UNCHANGED <<flash, ram, at>>
  <2>1. Current' = Current /\ St(p) = flash[p].st
    BY <1>1, <1>2, <1>4 DEF Current, St
  <2>2. /\ Typed' /\ Laid' /\ Unused' /\ AtOff' /\ AtFresh' /\ AtRest' /\ Ring'
        /\ (Purpose /\ AtMark /\ Window /\ AtFilling /\ Copying /\ AtSetDst /\ AtCleaning /\ AtSetAct)'
        /\ Distinct' /\ Faithful'
    BY <1>1, <1>2, <1>3, <1>4, <2>1, RestStep DEF Resting, Calling, Typed
  <2>3. Kinds'
    BY <1>1, <1>2, <1>4 DEF Kinds, Resuming, Fresh
  <2>4. Visited'
    BY <1>1, <1>2, <1>3, <1>4, <2>1 DEF Visited, St
  <2>5. Writing'
    BY <1>1, <1>4 DEF Writing
  <2>6. QED BY <2>2, <2>3, <2>4, <2>5 DEF Core
<1>5. ASSUME NEW st \in {ACT, FULL}, State(p, st), p # ram.tail, at' = "getDst",
             St(p) \in {NACT, RDY, ACT}, st = FULL => St(p) = ACT,
             ram' = [ram EXCEPT !.failW = FALSE, !.act = p],
             x' \in LocalsType, x'.pg \in Pages, x'.free = x.free,
             \A q \in Pages : x'.n = NP \/ Dist(q, x'.pg) \in 1..x'.n
                              => q = ram.tail \/ St(q)' = FULL
      PROVE  Core'
  <2>1. /\ \A q \in Pages : /\ On(q)' = On(q) /\ flash'[q].ofs = flash[q].ofs
                            /\ flash'[q].mode = flash[q].mode
                            /\ St(q)' = IF q = p THEN st ELSE St(q)
    <3>1. Higher(St(p), st) = st
      BY <1>5 DEF Higher
    <3>2. \A q \in Pages : St(q)' = IF q = p THEN Higher(St(q), st) ELSE St(q)
      BY <1>1, <1>5, StateIs
    <3>3. \A q \in Pages : On(q)' = On(q) /\ flash'[q].ofs = flash[q].ofs
      BY <1>1, <1>5, StateKeeps
    <3>4. \A q \in Pages : flash'[q].mode = flash[q].mode
      BY <1>1, <1>5, StateIs
    <3>5. \A q \in Pages : St(q)' = IF q = p THEN st ELSE St(q)
      BY <3>1, <3>2
    <3>6. QED BY <3>3, <3>4, <3>5
  <2>2. /\ ram' \in RamType /\ ram'.tail = ram.tail /\ ram'.head = ram.head
        /\ ram'.off = ram.off /\ ~ram'.failW
    BY <1>1, <1>5 DEF Typed, RamType
  <2>3. Typed'
    <3>1. flash' \in [Pages -> PageType]
      BY <1>1, <1>5, StateTyped
    <3>2. QED BY <1>1, <1>2, <1>5, <2>2, <3>1 DEF Typed
  <2>4. Laid' /\ Unused'
    <3>1. Unused'
      BY <1>1, <1>5, <2>1 DEF Unused
    <3>2. QED BY <1>1, <2>1, <3>1, LaidKept DEF Core
  <2>5. AtOff' /\ AtFresh'
    BY <1>5, NotStarting DEF Fresh
  <2>6. AtRest' /\ Ring'
    <3>1. Settled(ram.tail)' /\ OneReady'
      BY <1>1, <1>5, <2>1, <2>2 DEF Settled, OneReady
    <3>2. QED BY <1>1, <1>5, <2>1, <2>2, <3>1 DEF AtRest, Ring
  <2>7. (Purpose /\ AtMark /\ Window /\ AtFilling /\ Copying /\ AtSetDst /\ AtCleaning /\ AtSetAct)'
    BY <1>5, NotInside DEF Inside, Filling, Cleaning
  <2>8. Distinct' /\ Faithful'
    <3>1. Current' = Current
      BY <1>1, <1>2, <1>5 DEF Current
    <3>2. \A q \in Pages : Offset(q)' = Offset(q)
      BY <1>1, <1>5, <2>2 DEF Offset
    <3>3. \A q \in Pages : \A i \in 1..Offset(q) : InForce(q, i)' = InForce(q, i)
      BY <1>1, <1>5, <2>1, <2>2 DEF InForce, Cleaning
    <3>4. QED BY <2>1, <3>1, <3>2, <3>3, DataKept DEF Core
  <2>9. Kinds' /\ Writing'
    BY <1>1, <1>2, <1>5, <2>2 DEF Kinds, Resuming, Fresh, Writing
  <2>10. Visited'
    BY <1>1, <1>2, <1>5, <2>2 DEF Visited
  <2>11. QED BY <2>3, <2>4, <2>5, <2>6, <2>7, <2>8, <2>9, <2>10 DEF Core
<1>6. CASE x.n < NP /\ p # ram.tail /\ flash[p].st \in {NACT, RDY} /\ ChangeState(p, ACT)
           /\ UNCHANGED <<at, x>>
  <2>1. /\ State(p, ACT) /\ ram' = [ram EXCEPT !.failW = FALSE, !.act = p] /\ St(p) = flash[p].st
        /\ ACT \in {ACT, FULL}
    BY <1>6 DEF ChangeState, St
  <2>2. \A q \in Pages : St(q) = FULL => St(q)' = FULL
    <3>1. \A q \in Pages : q # p => St(q)' = St(q)
      BY <1>1, <2>1, StateKeeps DEF St
    <3>2. QED BY <1>6, <2>1, <3>1
  <2>3. QED BY <1>1, <1>5, <1>6, <2>1, <2>2 DEF Typed
<1>7. CASE /\ x.n < NP /\ p # ram.tail /\ flash[p].st \notin {NACT, RDY, FULL}
           /\ IF Room(p) >= Len(op.val)
              THEN /\ Goto("find") /\ UNCHANGED <<flash, x>>
                   /\ ram' = [ram EXCEPT !.act = p]
              ELSE /\ State(p, FULL) /\ x' = next /\ UNCHANGED at
                   /\ ram' = [ram EXCEPT !.act = p, !.failW = FALSE]
  <2>1. St(p) = ACT /\ St(p) = flash[p].st
    <3>1. St(p) \in 0..5 /\ St(p) = flash[p].st
      BY <1>1 DEF Typed, PageType, St
    <3>2. St(p) # XDST /\ St(p) # XSRC
      BY <1>1, <1>7 DEF Settled
    <3>3. QED BY <1>7, <3>1, <3>2
  <2>2. CASE Room(p) >= Len(op.val)
    <3>1. at' = "find" /\ flash' = flash /\ x' = x /\ ram' = [ram EXCEPT !.act = p]
      BY <1>7, <2>2 DEF Goto
    <3>2. /\ ram' \in RamType /\ ram'.tail = ram.tail /\ ram'.head = ram.head
          /\ ram'.off = ram.off /\ ~ram'.failW /\ ram'.act = p
      BY <1>1, <3>1 DEF Typed, RamType
    <3>3. Current' = Current
      BY <1>1, <1>2, <3>1 DEF Current
    <3>4. /\ Typed' /\ Laid' /\ Unused' /\ AtOff' /\ AtFresh' /\ AtRest' /\ Ring'
          /\ (Purpose /\ AtMark /\ Window /\ AtFilling /\ Copying /\ AtSetDst /\ AtCleaning /\ AtSetAct)'
          /\ Distinct' /\ Faithful'
      BY <1>1, <1>2, <3>1, <3>2, <3>3, RestStep DEF Resting, Calling, Typed
    <3>5. Kinds' /\ Visited'
      BY <1>1, <1>2, <3>1, <3>2 DEF Kinds, Resuming, Fresh, Visited
    <3>6. Fits'
      <4>1. Room(ram.act)' = Room(p) /\ St(ram.act)' = ACT
        BY <2>1, <3>1, <3>2 DEF Room, Used, St
      <4>2. QED BY <1>2, <1>7, <2>2, <3>2, <4>1 DEF Fits
    <3>7. Writing'
      BY <3>1, <3>6 DEF Writing
    <3>8. QED BY <3>4, <3>5, <3>7 DEF Core
  <2>3. CASE ~(Room(p) >= Len(op.val))
    <3>1. /\ State(p, FULL) /\ x' = next /\ at' = at
          /\ ram' = [ram EXCEPT !.failW = FALSE, !.act = p] /\ FULL \in {ACT, FULL}
      BY <1>7, <2>3
    <3>2. \A q \in Pages : St(q)' = IF q = p THEN FULL ELSE St(q)
      <4>1. \A q \in Pages : St(q)' = IF q = p THEN Higher(St(q), FULL) ELSE St(q)
        BY <1>1, <3>1, StateIs
      <4>2. Higher(St(p), FULL) = FULL
        BY <2>1 DEF Higher
      <4>3. QED BY <4>1, <4>2
    <3> DEFINE y == next
    <3>3. /\ y \in LocalsType /\ y.free = x.free /\ y.pg \in Pages
          /\ \A q \in Pages : y.n = NP \/ Dist(q, y.pg) \in 1..y.n => q = ram.tail \/ q = p \/ St(q) = FULL
      BY <1>3, <1>7
    <3> HIDE DEF y
    <3>4. x' = y
      BY <3>1 DEF y
    <3>5. \A q \in Pages : x'.n = NP \/ Dist(q, x'.pg) \in 1..x'.n => q = ram.tail \/ St(q)' = FULL
      BY <1>1, <3>2, <3>3, <3>4
    <3>6. QED BY <1>1, <1>5, <1>7, <2>1, <3>1, <3>3, <3>4, <3>5
  <2>4. QED BY <2>2, <2>3
<1>8. CASE x.n = NP /\ UNCHANGED <<flash, ram>> /\ Compact(Len(op.val), "compacted")
  <2>1. Len(op.val) \in 0..Cap /\ \A q \in Pages \ {ram.tail} : St(q) = FULL
    BY <1>1, <1>8
  <2>2. ram' \in RamType
    BY <1>1, <1>8 DEF Typed
  <2>3. QED BY <1>1, <1>2, <1>8, <2>1, <2>2, CompactStep
<1>9. QED BY <1>4, <1>6, <1>7, <1>8 DEF GetDstPage, St

\* A compaction that freed enough has left the item a page to go to.
LEMMA CompactedStep ==
  ASSUME Core, Compacted
  PROVE  Core'
<1>1. /\ at = "compacted" /\ Typed /\ op.kind = "write" /\ op # NoCall /\ ~ram.failW
      /\ x.free < Len(op.val) \/ Fits
      /\ x.free \in Int /\ Len(op.val) \in Int
  <2>1. at = "compacted" /\ Typed /\ op.kind = "write" /\ op # NoCall /\ ~ram.failW
    BY DEF Compacted, Core, Kinds
  <2>2. op.val \in Values /\ Len(op.val) \in 1..Cap /\ x.free \in Int
    BY <2>1, OpIs, Sizes DEF Typed, LocalsType
  <2>3. x.free >= Len(op.val) => Fits
    BY <2>1 DEF Core, Writing
  <2>4. QED BY <2>1, <2>2, <2>3
<1>2. /\ UNCHANGED <<flash, ram, x, op, res, seen, crashes, fails>>
      /\ at' = IF x.free < Len(op.val) THEN "fail" ELSE "find"
  BY DEF Compacted, Quiet, Goto
<1>3. Current' = Current
  BY <1>1, <1>2 DEF Current
<1>4. /\ Typed' /\ Laid' /\ Unused' /\ AtOff' /\ AtFresh' /\ AtRest' /\ Ring'
      /\ (Purpose /\ AtMark /\ Window /\ AtFilling /\ Copying /\ AtSetDst /\ AtCleaning /\ AtSetAct)'
      /\ Distinct' /\ Faithful'
  BY <1>1, <1>2, <1>3, RestStep DEF Resting, Calling, Typed
<1>5. Kinds' /\ Visited'
  BY <1>1, <1>2 DEF Kinds, Resuming, Fresh, Visited
<1>6. Writing'
  <2>1. Fits => Fits'
    BY <1>2 DEF Fits, St, Room, Used
  <2>2. QED BY <1>1, <1>2, <2>1 DEF Writing
<1>7. QED BY <1>4, <1>5, <1>6 DEF Core

-----------------------------------------------------------------------------
(* Writing, deleting and reading an item *)

\* The item of k, where a call looks for it, and its value.
LEMMA SearchIs ==
  ASSUME Core, at \in {"find", "verify", "return", "fail", "booted"}, NEW k \in Keys
  PROVE  /\ ~Corrupted(k, Locations)
         /\ Found(k, Locations) = <<>> =>
              /\ Current[k] = NoValue
              /\ \A p \in Pages : \A i \in 1..ram.off[p] : ~IsAt(<<p, i>>, k)
         /\ Found(k, Locations) # <<>> =>
              LET f == Found(k, Locations) IN
              /\ IsAt(f, k) /\ Current[k] = At(f).val /\ Current[k] \in Values /\ f[1] # ram.tail
              /\ f = <<f[1], f[2]>>
<1> DEFINE f == Found(k, Locations)
<1>1. /\ Typed /\ Laid /\ AtRest /\ Distinct /\ Faithful /\ Settled(ram.tail)
      /\ \A p \in Pages : ram.off[p] = Len(On(p))
  BY DEF Core, AtRest, Resting, Resuming, Calling
<1>2. /\ ~Corrupted(k, Locations) /\ (f = <<>> => Matches(k, Locations) = {})
      /\ (f # <<>> => f \in Matches(k, Locations))
  BY <1>1, FoundIs
<1>3. \A p \in Pages : \A i \in 1..ram.off[p] :
        On(p)[i].active => p # ram.tail /\ InForce(p, i) /\ Offset(p) = ram.off[p]
  <2>1. \A i \in 1..ram.off[ram.tail] : FALSE
    BY <1>1, EmptySeq DEF Settled, Typed, RamType
  <2>2. QED BY <2>1 DEF InForce, Offset
<1>4. ASSUME f = <<>>
      PROVE  /\ Current[k] = NoValue
             /\ \A p \in Pages : \A i \in 1..ram.off[p] : ~IsAt(<<p, i>>, k)
  <2>1. ASSUME NEW p \in Pages, NEW i \in 1..ram.off[p], On(p)[i].active, On(p)[i].key = k
        PROVE  FALSE
    <3>1. <<p, i>> \in Locations
      BY <1>3, <2>1 DEF Locations
    <3>2. ~On(p)[i].torn
      BY <1>1 DEF Laid
    <3>3. <<p, i>> \in Matches(k, Locations)
      BY <2>1, <3>1, <3>2 DEF Matches, At, On
    <3>4. QED BY <1>2, <1>4, <3>3
  <2>2. \A p \in Pages : \A i \in 1..Offset(p) : ~(InForce(p, i) /\ On(p)[i].key = k)
    BY <2>1 DEF InForce, Offset
  <2>3. Current[k] = NoValue
    BY <1>1, <2>2 DEF Faithful
  <2>4. QED BY <2>1, <2>3 DEF IsAt
<1>5. ASSUME f # <<>>
      PROVE  /\ IsAt(f, k) /\ Current[k] = At(f).val /\ Current[k] \in Values /\ f[1] # ram.tail
             /\ f = <<f[1], f[2]>>
  <2>1. f \in Locations /\ At(f).active /\ At(f).key = k
    BY <1>2, <1>5 DEF Matches
  <2>2. f \in Pages \X Nat /\ f[1] # ram.tail /\ f[2] \in 1..ram.off[f[1]] /\ f = <<f[1], f[2]>>
        /\ At(f) = On(f[1])[f[2]]
    BY <1>1, <2>1 DEF Locations, Typed, RamType, At, On
  <2>3. InForce(f[1], f[2]) /\ f[2] \in 1..Offset(f[1]) /\ f[2] \in 1..Len(On(f[1]))
    BY <1>1, <1>3, <2>1, <2>2
  <2>4. Current[k] = At(f).val /\ At(f).val \in Values
    BY <1>1, <2>1, <2>2, <2>3, Sizes DEF Faithful, Items
  <2>5. QED BY <2>1, <2>2, <2>4 DEF IsAt
<1>6. QED BY <1>2, <1>4, <1>5

\* The search finds the item of the key, if there is one.
LEMMA FindItemStep ==
  ASSUME Core, FindItem
  PROVE  Core'
<1> DEFINE k == op.key
           f == Found(k, Locations)
           ret == IF op.kind = "delete" THEN "verify" ELSE "return"
<1>1. /\ at = "find" /\ Typed /\ op.kind \in {"write", "delete", "read"} /\ op # NoCall
      /\ ~ram.failW /\ k \in Keys /\ Distinct /\ Faithful /\ Current = seen
      /\ \A p \in Pages : ram.off[p] = Len(On(p))
      /\ op.kind = "write" => Fits
  <2>1. at = "find" /\ Typed /\ op.kind \in {"write", "delete", "read"} /\ op # NoCall /\ ~ram.failW
    BY DEF FindItem, Core, Kinds
  <2>2. QED BY <2>1, OpIs DEF Core, AtRest, Resting, Calling, Writing, Current
<1>2. /\ ~Corrupted(k, Locations)
      /\ f = <<>> => /\ seen[k] = NoValue
                     /\ \A p \in Pages : \A i \in 1..ram.off[p] : ~IsAt(<<p, i>>, k)
      /\ f # <<>> => /\ IsAt(f, k) /\ seen[k] = At(f).val /\ seen[k] # NoValue
                     /\ f = <<f[1], f[2]>> /\ f[1] # ram.tail
  BY <1>1, SearchIs, NvAssumption
<1>3. /\ x' = [x EXCEPT !.found = f, !.ret = ret]
      /\ at' = CASE op.kind = "write" -> IF f # <<>> /\ Same(At(f).val, op.val)
                                         THEN "return" ELSE "writeData"
                 [] op.kind = "delete" /\ f # <<>> -> "setInactive"
                 [] OTHER -> "return"
      /\ UNCHANGED <<flash, ram, op, res, seen, crashes, fails>>
  BY <1>1, <1>2 DEF FindItem, Quiet, Goto
<1>4. x' \in LocalsType /\ x'.found = f /\ x'.ret = ret
  <2>1. ret \in {"return", "verify", "compacted", "booted"} /\ x \in LocalsType
    BY <1>1 DEF Typed
  <2>2. f \in {<<>>} \cup (Pages \X Nat)
    BY <1>2 DEF IsAt
  <2> HIDE DEF f, ret
  <2>3. QED BY <1>3, <2>1, <2>2 DEF LocalsType
<1>5. at' \in {"return", "writeData", "setInactive"}
  BY <1>3
<1>6. /\ Typed' /\ Laid' /\ Unused' /\ AtOff' /\ AtFresh' /\ AtRest' /\ Ring'
      /\ (Purpose /\ AtMark /\ Window /\ AtFilling /\ Copying /\ AtSetDst /\ AtCleaning /\ AtSetAct)'
      /\ (Current' = Current /\ at' # "setInactive" => Distinct' /\ Faithful')
  BY <1>1, <1>3, <1>4, <1>5, RestStep DEF Resting, Calling, Typed
<1>7. Kinds' /\ Visited'
  BY <1>1, <1>3, <1>4 DEF Kinds, Resuming, Fresh, Visited
<1>8. Writing'
  <2>1. Fits => Fits'
    BY <1>3 DEF Fits, St, Room, Used
  <2>2. f # <<>> => IsAt(x.found, op.key)'
    <3>1. op'.key = k /\ (f # <<>> => IsAt(f, k))
      BY <1>2, <1>3
    <3> HIDE DEF f
    <3>2. QED BY <1>3, <1>4, <3>1 DEF IsAt, On
  <2>3. at' = "writeData" => /\ op.kind = "write"
                             /\ f # <<>> => ~Same(At(f).val, op.val)
    <3> HIDE DEF f
    <3>1. QED BY <1>3
  <2>4. at' = "writeData" => (seen[k] # NoValue => ~Same(seen[k], op.val))
    <3>1. seen[k] # NoValue => f # <<>> /\ seen[k] = At(f).val
      BY <1>2
    <3> HIDE DEF f, k
    <3>2. QED BY <2>3, <3>1
  <2>5. at' = "setInactive" => f # <<>>
    <3> HIDE DEF f
    <3>1. QED BY <1>3
  <2>6. op'.key = k /\ op'.val = op.val /\ op'.kind = op.kind /\ seen' = seen
    BY <1>3
  <2>7. f = <<>> => seen[k] = NoValue
    BY <1>2
  <2> HIDE DEF f, k, ret
  <2>8. ret = "return" \/ op.kind = "delete"
    BY DEF ret
  <2>9. QED BY <1>1, <1>3, <1>4, <1>5, <2>1, <2>2, <2>3, <2>4, <2>5, <2>6, <2>7, <2>8 DEF Writing
<1>9. Distinct' /\ Faithful'
  <2>1. CASE op.kind = "write"
    <3>1. at' = "return" => seen[k] # NoValue /\ Same(seen[k], op.val)
      BY <1>2, <1>3, <2>1
    <3>2. at' # "setInactive"
      BY <1>3, <2>1
    <3>3. Current' = Current
      BY <1>1, <1>3, <1>5, <2>1, <3>1, <3>2 DEF Current, Outcome
    <3>4. QED BY <1>6, <3>2, <3>3
  <2>2. CASE op.kind = "read"
    <3>1. at' = "return"
      BY <1>3, <2>2
    <3>2. Outcome' = seen
      BY <1>3, <2>2 DEF Outcome, Map!Applied
    <3>3. QED BY <1>1, <1>6, <3>1, <3>2 DEF Current
  <2>3. CASE op.kind = "delete"
    <3>1. Outcome' = [seen EXCEPT ![k] = NoValue] /\ Current' = Outcome'
      BY <1>3, <1>5, <2>3 DEF Outcome, Map!Applied, Current
    <3>2. CASE f = <<>>
      <4>1. at' = "return"
        BY <1>3, <2>3, <3>2
      <4>2. [seen EXCEPT ![k] = NoValue] = seen
        BY <1>1, <1>2, <3>2 DEF Typed
      <4>3. QED BY <1>1, <1>6, <3>1, <4>1, <4>2
    <3>3. CASE f # <<>>
      <4>1. at' = "setInactive"
        BY <1>3, <2>3, <3>3
      <4>2. \A p \in Pages : On(p)' = On(p) /\ Offset(p)' = Offset(p) /\ Offset(p) = ram.off[p]
        BY <1>1, <1>3, <4>1 DEF On, Offset
      <4>3. \A p \in Pages : \A i \in 1..Offset(p) :
              InForce(p, i)' <=> InForce(p, i) /\ <<p, i>> # f
        BY <1>1, <1>3, <1>4, <4>1, <4>2 DEF InForce, Cleaning
      <4>4. \A p \in Pages : \A i \in 1..Offset(p) :
              InForce(p, i)' => InForce(p, i) /\ On(p)[i].key # k
        <5>1. f[1] \in Pages /\ f[2] \in 1..Offset(f[1]) /\ InForce(f[1], f[2])
              /\ On(f[1])[f[2]].key = k /\ f = <<f[1], f[2]>>
          BY <1>1, <1>2, <3>3, <4>2 DEF IsAt, InForce
        <5> HIDE DEF f
        <5>2. QED BY <1>1, <4>3, <5>1 DEF Distinct
      <4>5. Distinct'
        BY <1>1, <4>2, <4>4 DEF Distinct
      <4>6. \A kk \in Keys : Current'[kk] = IF kk = k THEN NoValue ELSE Current[kk]
        BY <1>1, <3>1 DEF Typed
      <4>7. \A p \in Pages : \A i \in 1..Offset(p) : On(p)[i].key \in Keys
        BY <1>1, <4>2, Sizes DEF Items
      <4>8. ASSUME NEW kk \in Keys, Current'[kk] # NoValue
            PROVE  \E p \in Pages : \E i \in 1..Offset(p)' : InForce(p, i)' /\ On(p)'[i].key = kk
        <5>1. kk # k /\ Current[kk] # NoValue
          BY <4>6, <4>8
        <5>2. PICK p \in Pages : \E i \in 1..Offset(p) : InForce(p, i) /\ On(p)[i].key = kk
          BY <1>1, <5>1 DEF Faithful
        <5>3. PICK i \in 1..Offset(p) : InForce(p, i) /\ On(p)[i].key = kk
          BY <5>2
        <5>4. <<p, i>> # f
          BY <1>2, <3>3, <5>1, <5>3 DEF IsAt
        <5>5. QED BY <4>2, <4>3, <5>3, <5>4
      <4>9. Faithful'
        BY <1>1, <4>2, <4>4, <4>6, <4>7, <4>8 DEF Faithful
      <4>10. QED BY <4>5, <4>9
    <3>4. QED BY <3>2, <3>3
  <2>4. QED BY <1>1, <2>1, <2>2, <2>3
<1>10. QED BY <1>6, <1>7, <1>8, <1>9 DEF Core

\* The item written is the last one, and ends behind the others.
LEMMA PutIs ==
  ASSUME Typed, NEW p \in Pages, NEW i \in [key : Keys, val : Values, active : BOOLEAN,
                                            torn : BOOLEAN, end : 0..Cap], Put(p, i)
  PROVE  LET n == Len(On(p)) IN
         /\ n \in Nat /\ Len(On(p)') = n + 1 /\ n + 1 \in 1..(n + 1)
         /\ \A j \in 1..n : On(p)'[j] = On(p)[j]
         /\ On(p)'[n + 1] = [i EXCEPT !.end = Used(p, n) + Len(i.val)]
         /\ \A j \in 0..n : Used(p, j)' = Used(p, j)
         /\ \A j : j = n + 1 => Used(p, j)' = Used(p, n) + Len(i.val)
         /\ \A q \in Pages : /\ St(q)' = St(q) /\ flash'[q].mode = flash[q].mode
                             /\ flash'[q].ofs = flash[q].ofs /\ flash'[q].s = flash[q].s
                             /\ flash'[q].e = flash[q].e /\ flash'[q].eOfs = flash[q].eOfs
                             /\ flash'[q].allActive = flash[q].allActive
         /\ \A q \in Pages \ {p} : On(q)' = On(q) /\ \A j : Used(q, j)' = Used(q, j)
<1> DEFINE n == Len(On(p))
           m == [i EXCEPT !.end = Used(p, n) + Len(i.val)]
<1>1. n \in Nat /\ On(p) \in Seq(Items)
  BY Sizes
<1>2. flash' = [flash EXCEPT ![p].items = Append(On(p), m)]
  BY DEF Put, On
<1>3. flash \in [Pages -> PageType]
  BY DEF Typed
<1>4. On(p)' = Append(On(p), m)
  BY <1>2, <1>3 DEF On, PageType
<1>5. m.end = Used(p, n) + Len(i.val)
  OBVIOUS
<1> HIDE DEF m
<1>6. Len(On(p)') = n + 1 /\ On(p)'[n + 1] = m /\ \A j \in 1..n : On(p)'[j] = On(p)[j]
  BY <1>1, <1>4
<1>7. \A q \in Pages : /\ St(q)' = St(q) /\ flash'[q].mode = flash[q].mode
                       /\ flash'[q].ofs = flash[q].ofs /\ flash'[q].s = flash[q].s
                       /\ flash'[q].e = flash[q].e /\ flash'[q].eOfs = flash[q].eOfs
                       /\ flash'[q].allActive = flash[q].allActive
  BY <1>2, <1>3 DEF PageType, St
<1>8. \A q \in Pages \ {p} : On(q)' = On(q) /\ \A j : Used(q, j)' = Used(q, j)
  BY <1>2, <1>3 DEF On, Used
<1>9. ASSUME NEW j \in 0..n
      PROVE  Used(p, j)' = Used(p, j)
  <2>1. j = 0 \/ j \in 1..n
    BY <1>1
  <2>2. QED BY <1>6, <2>1 DEF Used, On
<1>10. ASSUME NEW j, j = n + 1
       PROVE  Used(p, j)' = Used(p, n) + Len(i.val)
  <2>1. j # 0
    BY <1>1, <1>10
  <2>2. Used(p, j)' = On(p)'[j].end
    BY <2>1 DEF Used, On
  <2>3. QED BY <1>5, <1>6, <1>10, <2>2
<1>11. n + 1 \in 1..(n + 1)
  BY <1>1
<1>12. QED BY <1>1, <1>6, <1>7, <1>8, <1>9, <1>10, <1>11 DEF m

\* There is room for the data, and the item has no header yet.
LEMMA WriteDataStep ==
  ASSUME Core, WriteData
  PROVE  Core'
<1> USE DEF NACT, XDST, RDY, ACT, FULL, XSRC
<1> DEFINE it == Item(op.key, op.val)
<1>1. /\ at = "writeData" /\ Typed /\ op.kind = "write" /\ op # NoCall /\ ~ram.failW
      /\ x.ret = "return" /\ Fits /\ Laid /\ Unused /\ Settled(ram.tail) /\ OneReady
      /\ ram.head = Inc(ram.tail) /\ op.key \in Keys /\ op.val \in Values
      /\ \A q \in Pages : ram.off[q] = Len(On(q))
      /\ x.found # <<>> => IsAt(x.found, op.key)
      /\ x.found = <<>> => seen[op.key] = NoValue
      /\ seen[op.key] # NoValue => ~Same(seen[op.key], op.val)
  <2>1. at = "writeData" /\ Typed /\ op.kind = "write" /\ op # NoCall /\ ~ram.failW /\ x.ret = "return"
    BY DEF WriteData, Core, Kinds
  <2>2. QED BY <2>1, OpIs DEF Core, Writing, AtRest, Ring, Resting, Calling
<1>2. PICK p \in Pages : p = ram.act
  BY <1>1 DEF Typed, RamType
<1> DEFINE n == Len(On(p))
<1>3. /\ Put(p, it) /\ at' = "writeHeader" /\ ram' = [ram EXCEPT !.failW = FALSE]
      /\ UNCHANGED <<x, op, res, seen, crashes, fails>>
  BY <1>1, <1>2 DEF WriteData, Quiet, Goto, Fits, St
<1>4. /\ it \in [key : Keys, val : Values, active : BOOLEAN, torn : BOOLEAN, end : 0..Cap]
      /\ it.key = op.key /\ it.val = op.val /\ it.active /\ it.torn
  BY <1>1, NvAssumption DEF Item
<1>5. ram' = ram
  BY <1>1, <1>3 DEF Typed, RamType
<1>6. /\ n \in Nat /\ Len(On(p)') = n + 1 /\ n + 1 \in 1..(n + 1)
      /\ \A j \in 1..n : On(p)'[j] = On(p)[j]
      /\ On(p)'[n + 1] = [it EXCEPT !.end = Used(p, n) + Len(it.val)]
      /\ \A j \in 0..n : Used(p, j)' = Used(p, j)
      /\ \A q \in Pages : /\ St(q)' = St(q) /\ flash'[q].mode = flash[q].mode
                          /\ flash'[q].ofs = flash[q].ofs
      /\ \A q \in Pages \ {p} : On(q)' = On(q) /\ \A j : Used(q, j)' = Used(q, j)
  <2> HIDE DEF it
  <2>1. QED BY <1>1, <1>3, <1>4, PutIs
<1>7. LET m == On(p)'[n + 1] IN /\ m.key = op.key /\ m.val = op.val /\ m.active /\ m.torn
                                /\ m.end = Used(p, n) + Len(op.val)
  BY <1>4, <1>6 DEF Item
<1>8. Used(p, n) \in 0..Cap /\ Len(op.val) \in 1..Cap /\ Used(p, n) + Len(op.val) <= Cap
      /\ n <= Used(p, n)
  <2>1. Len(op.val) \in 1..Cap /\ (n > 0 => Used(p, n) \in 1..Cap) /\ Used(p, 0) = 0
    BY <1>1, <1>6, Sizes
  <2>2. Used(p, n) \in 0..Cap
    BY <1>6, <2>1, NvAssumption
  <2>3. n > 0 => n <= Used(p, n)
    <3>1. n > 0 => n \in 1..n
      BY <1>6
    <3>2. n > 0 => n <= On(p)[n].end /\ Used(p, n) = On(p)[n].end
      BY <1>1, <3>1, Sizes DEF Laid
    <3>3. QED BY <3>2
  <2>4. Cap - Used(p, n) >= Len(op.val) /\ Cap \in Int
    BY <1>1, <1>2, NvAssumption DEF Fits, Room
  <2>5. QED BY <1>6, <2>1, <2>2, <2>3, <2>4
<1>9. Typed'
  <2>1. flash' \in [Pages -> PageType]
    <3> HIDE DEF it
    <3>1. Used(p, Len(On(p))) + Len(it.val) <= Cap
      BY <1>4, <1>8
    <3>2. QED BY <1>1, <1>3, <1>4, <3>1, PutTyped
  <2>2. QED BY <1>1, <1>3, <1>5, <2>1 DEF Typed, Resting, Calling
<1>10. Laid'
  <2>1. ASSUME NEW q \in Pages, NEW i \in 1..Len(On(q)')
        PROVE  /\ On(q)'[i].end = Used(q, i - 1)' + Len(On(q)'[i].val)
               /\ i <= On(q)'[i].end
               /\ On(q)'[i].torn => q = p /\ i = Len(On(q)')
    <3>1. CASE q # p
      BY <1>1, <1>6, <2>1, <3>1 DEF Laid
    <3>2. CASE q = p /\ i \in 1..n
      <4>1. i - 1 \in 0..n
        BY <1>6, <3>2
      <4>2. On(p)'[i] = On(p)[i] /\ Used(p, i - 1)' = Used(p, i - 1)
        BY <1>6, <3>2, <4>1
      <4>3. QED BY <1>1, <3>2, <4>2 DEF Laid
    <3>3. CASE q = p /\ i = n + 1
      <4>1. i - 1 = n /\ n \in 0..n
        BY <1>6, <3>3
      <4>2. Used(p, i - 1)' = Used(p, n)
        BY <1>6, <4>1
      <4>3. On(q)'[i] = On(p)'[n + 1] /\ i = Len(On(q)')
        BY <1>6, <3>3
      <4>4. i <= Used(p, n) + Len(op.val)
        BY <1>6, <1>8, <3>3
      <4>5. QED BY <1>7, <3>3, <4>2, <4>3, <4>4
    <3>4. QED BY <1>6, <2>1, <3>1, <3>2, <3>3
  <2>2. QED BY <1>2, <1>3, <1>5, <2>1 DEF Laid
<1>11. Unused'
  <2>1. St(p) = ACT
    BY <1>1, <1>2 DEF Fits
  <2>2. QED BY <1>1, <1>6, <2>1 DEF Unused
<1>12. AtOff' /\ AtFresh'
  BY <1>3, NotStarting DEF Fresh
<1>13. (Purpose /\ AtMark /\ Window /\ AtFilling /\ Copying /\ AtSetDst /\ AtCleaning /\ AtSetAct)'
  BY <1>3, NotInside DEF Inside, Filling, Cleaning
<1>14. AtRest' /\ Ring'
  <2>1. p # ram.tail
    BY <1>1, <1>2 DEF Fits
  <2>2. Settled(ram.tail)' /\ OneReady'
    BY <1>1, <1>5, <1>6, <2>1, SettledKept DEF Typed, RamType
  <2>3. \A q \in Pages : ram'.off[q] = IF q = p THEN Len(On(q)') - 1 ELSE Len(On(q)')
    BY <1>1, <1>5, <1>6
  <2>4. QED BY <1>1, <1>2, <1>3, <1>5, <2>2, <2>3 DEF AtRest, Ring
<1>15. Kinds' /\ Visited'
  BY <1>1, <1>3, <1>5 DEF Kinds, Resuming, Fresh, Visited
<1>16. \A q \in Pages : /\ Offset(q)' = Offset(q) /\ Offset(q) = Len(On(q))
                        /\ \A i \in 1..Offset(q) : On(q)'[i] = On(q)[i]
  BY <1>1, <1>3, <1>5, <1>6 DEF Offset
<1>17. Distinct' /\ Faithful'
  <2>1. \A q \in Pages : \A i \in 1..Offset(q) : InForce(q, i)' = InForce(q, i)
    BY <1>1, <1>3, <1>5, <1>16 DEF InForce, Cleaning
  <2>2. Current' = Current
    BY <1>1, <1>3 DEF Current
  <2>3. QED BY <1>16, <2>1, <2>2, ItemsKept DEF Core
<1>18. Writing'
  <2>1. IsAt(x.found, op.key) => IsAt(x.found, op.key)'
    <3>1. ASSUME IsAt(x.found, op.key)
          PROVE  On(x.found[1])'[x.found[2]] = On(x.found[1])[x.found[2]]
      <4>1. x.found[1] \in Pages /\ x.found[2] \in 1..ram.off[x.found[1]]
        BY <3>1 DEF IsAt
      <4>2. QED BY <1>1, <1>3, <1>16, <4>1 DEF On
    <3>2. QED BY <1>3, <1>5, <3>1 DEF IsAt, On
  <2>2. On(ram.act)' = On(p)' /\ ram.act' = p
    BY <1>2, <1>5 DEF On
  <2>3. n + 1 > 0
    BY <1>6
  <2>4. QED BY <1>1, <1>2, <1>3, <1>5, <1>6, <1>7, <2>1, <2>2, <2>3 DEF Writing, Fits
<1>19. QED BY <1>9, <1>10, <1>11, <1>12, <1>13, <1>14, <1>15, <1>17, <1>18 DEF Core

\* One item is replaced by another of the same id and value.
LEMMA ItemIs ==
  ASSUME Typed, NEW p \in Pages, NEW i \in 1..Len(On(p)), NEW v \in Items,
         flash' = [flash EXCEPT ![p].items[i] = v],
         v.key = On(p)[i].key, v.val = On(p)[i].val, v.end = On(p)[i].end
  PROVE  /\ flash' \in [Pages -> PageType]
         /\ \A q \in Pages : /\ Len(On(q)') = Len(On(q))
                             /\ \A j \in 1..Len(On(q)) :
                                  /\ On(q)'[j] = IF q = p /\ j = i THEN v ELSE On(q)[j]
                                  /\ On(q)'[j].key = On(q)[j].key /\ On(q)'[j].val = On(q)[j].val
                                  /\ On(q)'[j].end = On(q)[j].end
                             /\ \A j \in 0..Len(On(q)) : Used(q, j)' = Used(q, j)
                             /\ On(q) = <<>> => On(q)' = <<>>
                             /\ St(q)' = St(q) /\ flash'[q].mode = flash[q].mode
                             /\ flash'[q].ofs = flash[q].ofs
<1>1. /\ \A q \in Pages : Len(On(q)) \in Nat /\ On(q) \in Seq(Items)
      /\ flash \in [Pages -> PageType]
  BY Sizes DEF Typed
<1>2. flash' = [flash EXCEPT ![p].items = [On(p) EXCEPT ![i] = v]]
  BY DEF On
<1>3. On(p)' = [On(p) EXCEPT ![i] = v] /\ \A q \in Pages \ {p} : flash'[q] = flash[q]
  BY <1>1, <1>2 DEF On, PageType
<1>4. [On(p) EXCEPT ![i] = v] \in Seq(Items) /\ Len([On(p) EXCEPT ![i] = v]) = Len(On(p))
  BY <1>1
<1>5. flash' \in [Pages -> PageType]
  BY <1>1, <1>2, <1>4 DEF PageType
<1>6. ASSUME NEW q \in Pages
      PROVE  /\ Len(On(q)') = Len(On(q))
             /\ \A j \in 1..Len(On(q)) : On(q)'[j] = IF q = p /\ j = i THEN v ELSE On(q)[j]
  <2>1. CASE q = p
    <3>1. DOMAIN On(p) = 1..Len(On(p))
      BY <1>1
    <3>2. \A j \in 1..Len(On(p)) : [On(p) EXCEPT ![i] = v][j] = IF j = i THEN v ELSE On(p)[j]
      BY <3>1
    <3> DEFINE e == [On(p) EXCEPT ![i] = v]
    <3>3. Len(e) = Len(On(p)) /\ On(p)' = e /\ \A j \in 1..Len(On(p)) : e[j] = IF j = i THEN v ELSE On(p)[j]
      BY <1>3, <1>4, <3>2
    <3> HIDE DEF e
    <3>4. On(q)' = e /\ On(q) = On(p)
      BY <2>1, <3>3
    <3>5. QED BY <2>1, <3>3, <3>4
  <2>2. CASE q # p
    BY <1>3, <2>2 DEF On
  <2>3. QED BY <2>1, <2>2
<1>7. ASSUME NEW q \in Pages, NEW j \in 1..Len(On(q))
      PROVE  /\ On(q)'[j].key = On(q)[j].key /\ On(q)'[j].val = On(q)[j].val
             /\ On(q)'[j].end = On(q)[j].end
  BY <1>6
<1>8. ASSUME NEW q \in Pages, NEW j \in 0..Len(On(q))
      PROVE  Used(q, j)' = Used(q, j)
  <2>1. j = 0 \/ j \in 1..Len(On(q))
    BY <1>1
  <2>2. QED BY <1>7, <2>1 DEF Used, On
<1>9. ASSUME NEW q \in Pages, On(q) = <<>>
      PROVE  On(q)' = <<>>
  <2>1. Len(On(q)) = 0 /\ i \in 1..Len(On(p))
    BY <1>9, EmptySeq
  <2>2. q # p
    BY <2>1
  <2>3. QED BY <1>3, <1>9, <2>2 DEF On
<1>10. \A q \in Pages : St(q)' = St(q) /\ flash'[q].mode = flash[q].mode /\ flash'[q].ofs = flash[q].ofs
  BY <1>1, <1>2 DEF PageType, St
<1>11. QED BY <1>5, <1>6, <1>7, <1>8, <1>9, <1>10

\* The item gets its header: from now on it is the one of its id.
LEMMA WriteHeaderStep ==
  ASSUME Core, WriteHeader
  PROVE  Core'
<1> USE DEF NACT, XDST, RDY, ACT, FULL, XSRC
<1>1. /\ at = "writeHeader" /\ Typed /\ op.kind = "write" /\ op # NoCall /\ ~ram.failW
      /\ x.ret = "return" /\ Laid /\ Unused /\ Settled(ram.tail) /\ OneReady
      /\ ram.head = Inc(ram.tail) /\ op.key \in Keys /\ op.val \in Values /\ ram.tail \in Pages
      /\ Distinct /\ Faithful /\ Current = seen
      /\ \A q \in Pages : ram.off[q] = IF q = ram.act THEN Len(On(q)) - 1 ELSE Len(On(q))
      /\ x.found # <<>> => IsAt(x.found, op.key)
      /\ x.found = <<>> => seen[op.key] = NoValue
      /\ seen[op.key] # NoValue => ~Same(seen[op.key], op.val)
  <2>1. at = "writeHeader" /\ Typed /\ op.kind = "write" /\ op # NoCall /\ ~ram.failW /\ x.ret = "return"
    BY DEF WriteHeader, Core, Kinds
  <2>2. QED BY <2>1, OpIs DEF Core, Writing, AtRest, Ring, Resting, Calling, Current, Typed, RamType
<1>2. PICK p \in Pages : p = ram.act
  BY <1>1 DEF Typed, RamType
<1>3. PICK n \in Nat : n = Len(On(p))
  BY <1>1, Sizes
<1> DEFINE v == [On(p)[n] EXCEPT !.torn = FALSE]
<1>4. /\ n > 0 /\ n \in 1..n /\ p # ram.tail /\ On(p)[n].key = op.key /\ On(p)[n].val = op.val
      /\ On(p)[n].active
  BY <1>1, <1>2, <1>3 DEF Core, Writing
<1>5. /\ flash' = [flash EXCEPT ![p].items[n] = v] /\ ram' = [ram EXCEPT !.off[p] = @ + 1]
      /\ at' = IF x.found = <<>> THEN "return" ELSE "setInactive"
      /\ UNCHANGED <<x, op, res, seen, crashes, fails>>
  BY <1>2, <1>3 DEF WriteHeader, Goto, Quiet, On
<1>6. v \in Items /\ v.key = op.key /\ v.val = op.val /\ v.end = On(p)[n].end /\ v.active /\ ~v.torn
  BY <1>1, <1>3, <1>4, Sizes DEF Items
<1> HIDE DEF v
<1>7. /\ ram' \in RamType /\ ram'.tail = ram.tail /\ ram'.head = ram.head /\ ~ram'.failW
      /\ ram'.act = p
      /\ \A q \in Pages : ram'.off[q] = IF q = p THEN n ELSE ram.off[q]
  <2>1. ram.off[p] = n - 1 /\ n - 1 + 1 = n
    BY <1>1, <1>2, <1>3
  <2>2. QED BY <1>1, <1>2, <1>5, <2>1 DEF Typed, RamType
<1>8. /\ flash' \in [Pages -> PageType]
      /\ \A q \in Pages : /\ Len(On(q)') = Len(On(q))
                          /\ \A j \in 1..Len(On(q)) :
                                  /\ On(q)'[j] = IF q = p /\ j = n THEN v ELSE On(q)[j]
                                  /\ On(q)'[j].key = On(q)[j].key /\ On(q)'[j].val = On(q)[j].val
                                  /\ On(q)'[j].end = On(q)[j].end
                          /\ \A j \in 0..Len(On(q)) : Used(q, j)' = Used(q, j)
                          /\ On(q) = <<>> => On(q)' = <<>>
                          /\ St(q)' = St(q) /\ flash'[q].mode = flash[q].mode
                          /\ flash'[q].ofs = flash[q].ofs
  <2>1. n \in 1..Len(On(p)) /\ v.key = On(p)[n].key /\ v.val = On(p)[n].val
    BY <1>3, <1>4, <1>6
  <2>2. QED BY <1>1, <1>5, <1>6, <2>1, ItemIs
<1>9. Typed'
  BY <1>1, <1>5, <1>7, <1>8 DEF Typed, Resting, Calling
<1>10. Laid' /\ Unused'
  <2>1. ASSUME NEW q \in Pages, NEW i \in 1..Len(On(q)')
        PROVE  /\ On(q)'[i].end = Used(q, i - 1)' + Len(On(q)'[i].val)
               /\ i <= On(q)'[i].end /\ ~On(q)'[i].torn
    <3>1. i \in 1..Len(On(q)) /\ i - 1 \in 0..Len(On(q))
      BY <1>1, <1>8, Sizes
    <3>2. On(q)[i].end = Used(q, i - 1) + Len(On(q)[i].val) /\ i <= On(q)[i].end
          /\ (On(q)[i].torn => q = p /\ i = n)
      BY <1>1, <1>2, <1>3, <3>1 DEF Laid
    <3>3. QED BY <1>6, <1>8, <3>1, <3>2
  <2>2. QED BY <1>1, <1>8, <2>1 DEF Laid, Unused
<1>11. AtOff' /\ AtFresh'
  BY <1>5, NotStarting DEF Fresh
<1>12. (Purpose /\ AtMark /\ Window /\ AtFilling /\ Copying /\ AtSetDst /\ AtCleaning /\ AtSetAct)'
  BY <1>5, NotInside DEF Inside, Filling, Cleaning
<1>13. \A q \in Pages : ram'.off[q] = Len(On(q)')
  BY <1>1, <1>2, <1>3, <1>7, <1>8
<1>14. AtRest' /\ Ring'
  <2>1. Settled(ram.tail)' /\ OneReady'
    <3>1. \A q \in Pages : q = ram.tail => On(q)' = On(q)
      BY <1>1, <1>8 DEF Settled
    <3>2. QED BY <1>1, <1>7, <1>8, <3>1, SettledKept
  <2>2. QED BY <1>1, <1>5, <1>7, <1>13, <2>1 DEF AtRest, Ring
<1>15. Kinds' /\ Visited'
  BY <1>1, <1>5, <1>7 DEF Kinds, Resuming, Fresh, Visited
<1>16. \A q \in Pages : /\ Offset(q) = ram.off[q] /\ Offset(q)' = ram'.off[q]
                        /\ \A i : i \in 1..Offset(q)' <=> i \in 1..Offset(q) \/ (q = p /\ i = n)
  BY <1>1, <1>2, <1>3, <1>4, <1>5, <1>7 DEF Offset
<1>17. ASSUME x.found # <<>>
       PROVE  /\ x.found = <<x.found[1], x.found[2]>> /\ x.found # <<p, n>>
              /\ x.found[1] \in Pages /\ x.found[2] \in 1..Offset(x.found[1])
              /\ InForce(x.found[1], x.found[2]) /\ On(x.found[1])[x.found[2]].key = op.key
  <2>1. IsAt(x.found, op.key)
    BY <1>1, <1>17
  <2>2. x.found = <<x.found[1], x.found[2]>> /\ x.found[1] \in Pages
        /\ x.found[2] \in 1..ram.off[x.found[1]]
    BY <2>1 DEF IsAt
  <2>3. x.found # <<p, n>>
    BY <1>1, <1>2, <1>3, <2>2
  <2>4. x.found[1] # ram.tail
    <3>1. ram.off[ram.tail] = 0
      BY <1>1, <1>2, <1>4, EmptySeq DEF Settled
    <3>2. QED BY <2>2, <3>1
  <2>5. QED BY <1>1, <1>16, <2>1, <2>2, <2>3, <2>4 DEF IsAt, InForce
<1>18. \A q \in Pages : \A i \in 1..Offset(q) :
         InForce(q, i) /\ On(q)[i].key = op.key => x.found # <<>> /\ <<q, i>> = x.found
  <2> SUFFICES ASSUME NEW q \in Pages, NEW i \in 1..Offset(q), InForce(q, i), On(q)[i].key = op.key
               PROVE  x.found # <<>> /\ <<q, i>> = x.found
    OBVIOUS
  <2>1. i \in 1..Len(On(q))
    BY <1>1, <1>16, Sizes
  <2>2. seen[op.key] = On(q)[i].val /\ On(q)[i].val \in Values
    <3>1. On(q)[i] \in Items
      BY <1>1, <2>1, Sizes
    <3>2. Current[On(q)[i].key] = On(q)[i].val
      BY <1>1 DEF Faithful
    <3>3. QED BY <1>1, <3>1, <3>2 DEF Items
  <2>3. x.found # <<>>
    BY <1>1, <2>2, NvAssumption
  <2>4. QED BY <1>1, <1>17, <2>3 DEF Distinct
<1>19. \A q \in Pages : \A i : \/ ~(i \in 1..Offset(q) /\ InForce(q, i))
                               \/ i \in 1..Len(On(q)) /\ On(q)[i].key \in Keys
  <2>1. \A q \in Pages : \A i \in 1..Offset(q) : i \in 1..Len(On(q))
    BY <1>1, <1>16, Sizes
  <2>2. \A q \in Pages : \A i \in 1..Len(On(q)) : On(q)[i].key \in Keys
    BY <1>1, Sizes DEF Items
  <2>3. QED BY <2>1, <2>2
<1>20. \A q \in Pages : \A i :
         i \in 1..Offset(q)' /\ InForce(q, i)' <=>
           \/ i \in 1..Offset(q) /\ InForce(q, i) /\ On(q)[i].key # op.key
           \/ q = p /\ i = n
  <2> SUFFICES ASSUME NEW q \in Pages, NEW i
               PROVE  i \in 1..Offset(q)' /\ InForce(q, i)' <=>
                        \/ i \in 1..Offset(q) /\ InForce(q, i) /\ On(q)[i].key # op.key
                        \/ q = p /\ i = n
    OBVIOUS
  <2>1. CASE q = p /\ i = n
    <3>1. On(p)'[n] = v
      BY <1>3, <1>4, <1>8
    <3>2. at' = "setInactive" => <<p, n>> # x.found
      BY <1>5, <1>17
    <3>3. QED BY <1>4, <1>5, <1>6, <1>7, <1>16, <2>1, <3>1, <3>2 DEF InForce, Cleaning
  <2>2. CASE ~(q = p /\ i = n) /\ i \in 1..Offset(q)
    <3>1. i \in 1..Len(On(q))
      BY <1>1, <1>16, <2>2, Sizes
    <3>2. On(q)'[i] = On(q)[i]
      BY <1>8, <2>2, <3>1
    <3>3. InForce(q, i)' <=> /\ On(q)[i].active /\ q # ram.tail
                             /\ at' = "setInactive" => <<q, i>> # x.found
      BY <1>5, <1>7, <3>2 DEF InForce, Cleaning
    <3>4. InForce(q, i) <=> On(q)[i].active /\ q # ram.tail
      BY <1>1 DEF InForce, Cleaning
    <3>5. CASE x.found = <<>>
      BY <1>5, <1>16, <1>18, <2>2, <3>3, <3>4, <3>5
    <3>6. CASE x.found # <<>>
      <4>1. at' = "setInactive"
        BY <1>5, <3>6
      <4>2. <<q, i>> = x.found => On(q)[i].key = op.key
        BY <1>17, <3>6
      <4>3. QED BY <1>16, <1>18, <2>2, <3>3, <3>4, <4>1, <4>2
    <3>7. QED BY <3>5, <3>6
  <2>3. QED BY <1>16, <2>1, <2>2
<1>21. \A kk \in Keys : Current'[kk] = IF kk = op.key THEN op.val ELSE Current[kk]
  <2>1. Current' = Outcome'
    BY <1>5 DEF Current
  <2>2. Outcome' = [seen EXCEPT ![op.key] = op.val]
    BY <1>1, <1>5 DEF Outcome, Map!Applied
  <2>3. QED BY <1>1, <2>1, <2>2 DEF Typed
<1>22. On(p)'[n].key = op.key /\ On(p)'[n].val = op.val /\ n \in Int
       /\ \A q \in Pages : \A i \in 1..Offset(q) : On(q)'[i].key = On(q)[i].key /\ On(q)'[i].val = On(q)[i].val
  <2>1. \A q \in Pages : \A i \in 1..Offset(q) : i \in 1..Len(On(q))
    BY <1>1, <1>16, Sizes
  <2>2. QED BY <1>3, <1>4, <1>8, <2>1
<1>23. Distinct'
  <2> SUFFICES ASSUME NEW q \in Pages, NEW r \in Pages, NEW i \in 1..Offset(q)', NEW j \in 1..Offset(r)',
                      InForce(q, i)', InForce(r, j)', On(q)'[i].key = On(r)'[j].key
               PROVE  q = r /\ i = j
    BY DEF Distinct
  <2>1. /\ \/ i \in 1..Offset(q) /\ InForce(q, i) /\ On(q)[i].key # op.key
           \/ q = p /\ i = n
        /\ \/ j \in 1..Offset(r) /\ InForce(r, j) /\ On(r)[j].key # op.key
           \/ r = p /\ j = n
    BY <1>20
  <2>2. QED BY <1>1, <1>22, <2>1 DEF Distinct
<1>24. Faithful'
  <2>1. ASSUME NEW q \in Pages, NEW i \in 1..Offset(q)', InForce(q, i)'
        PROVE  Current'[On(q)'[i].key] = On(q)'[i].val
    <3>1. \/ i \in 1..Offset(q) /\ InForce(q, i) /\ On(q)[i].key # op.key
          \/ q = p /\ i = n
      BY <1>20, <2>1
    <3>2. QED BY <1>1, <1>19, <1>21, <1>22, <3>1 DEF Faithful
  <2>2. ASSUME NEW kk \in Keys, Current'[kk] # NoValue
        PROVE  \E q \in Pages : \E i \in 1..Offset(q)' : InForce(q, i)' /\ On(q)'[i].key = kk
    <3>1. CASE kk = op.key
      BY <1>20, <1>22, <3>1
    <3>2. CASE kk # op.key
      <4>1. Current[kk] # NoValue
        BY <1>21, <2>2, <3>2
      <4>2. PICK q \in Pages : \E i \in 1..Offset(q) : InForce(q, i) /\ On(q)[i].key = kk
        BY <1>1, <4>1 DEF Faithful
      <4>3. PICK i \in 1..Offset(q) : InForce(q, i) /\ On(q)[i].key = kk
        BY <4>2
      <4>4. QED BY <1>20, <1>22, <3>2, <4>3
    <3>3. QED BY <3>1, <3>2
  <2>3. QED BY <2>1, <2>2 DEF Faithful
<1>25. Writing'
  <2>1. x.found # <<>> => IsAt(x.found, op.key)'
    <3>1. ASSUME x.found # <<>>
          PROVE  /\ IsAt(x.found, op.key) /\ x.found[2] \in 1..ram'.off[x.found[1]]
                 /\ On(x.found[1])'[x.found[2]] = On(x.found[1])[x.found[2]]
      <4>1. x.found[1] \in Pages /\ x.found[2] \in 1..Offset(x.found[1]) /\ IsAt(x.found, op.key)
            /\ x.found = <<x.found[1], x.found[2]>>
        BY <1>1, <1>17, <3>1
      <4>2. x.found[2] \in 1..ram'.off[x.found[1]] /\ x.found[2] \in 1..Len(On(x.found[1]))
        BY <1>1, <1>16, <4>1, Sizes
      <4>3. ~(x.found[1] = p /\ x.found[2] = n)
        BY <1>17, <3>1
      <4>4. flash'[x.found[1]].items[x.found[2]] = flash[x.found[1]].items[x.found[2]]
        BY <1>8, <4>1, <4>2, <4>3 DEF On
      <4>5. QED BY <1>5, <4>1, <4>2, <4>4 DEF On
    <3>2. QED BY <1>5, <3>1 DEF IsAt, On
  <2>2. QED BY <1>5, <2>1 DEF Writing
<1>26. QED BY <1>9, <1>10, <1>11, <1>12, <1>14, <1>15, <1>23, <1>24, <1>25 DEF Core

\* The old item leaves the store.
LEMMA SetItemInactiveStep ==
  ASSUME Core, SetItemInactive
  PROVE  Core'
<1> USE DEF NACT, XDST, RDY, ACT, FULL, XSRC
<1>1. /\ at = "setInactive" /\ Typed /\ op.kind \in {"write", "delete"} /\ op # NoCall /\ ~ram.failW
      /\ x.ret = (IF op.kind = "write" THEN "return" ELSE "verify") /\ Laid /\ Unused
      /\ Settled(ram.tail) /\ OneReady /\ ram.head = Inc(ram.tail) /\ ram.tail \in Pages
      /\ IsAt(x.found, op.key) /\ \A q \in Pages : ram.off[q] = Len(On(q))
  <2>1. at = "setInactive" /\ Typed /\ op.kind \in {"write", "delete"} /\ op # NoCall /\ ~ram.failW
        /\ x.ret = IF op.kind = "write" THEN "return" ELSE "verify"
    BY DEF SetItemInactive, Core, Kinds
  <2>2. QED BY <2>1 DEF Core, Writing, AtRest, Ring, Resting, Calling, Typed, RamType
<1>2. PICK p \in Pages : p = x.found[1]
  BY <1>1 DEF IsAt
<1>3. PICK n \in Nat : n = x.found[2]
  BY <1>1 DEF IsAt
<1> DEFINE v == [On(p)[n] EXCEPT !.active = FALSE]
<1>4. n \in 1..Len(On(p)) /\ x.found = <<p, n>>
  BY <1>1, <1>2, <1>3 DEF IsAt
<1>5. /\ flash' = [flash EXCEPT ![p].items[n] = v] /\ ram' = [ram EXCEPT !.failW = FALSE]
      /\ at' \in {"setSomeInactive", x.ret}
      /\ UNCHANGED <<x, op, res, seen, crashes, fails>>
  BY <1>2, <1>3 DEF SetItemInactive, Goto, Quiet, On
<1>6. /\ v \in Items /\ v.key = On(p)[n].key /\ v.val = On(p)[n].val /\ v.end = On(p)[n].end
      /\ ~v.active /\ v.torn = On(p)[n].torn
  BY <1>1, <1>4, Sizes DEF Items
<1> HIDE DEF v
<1>7. ram' = ram
  BY <1>1, <1>5 DEF Typed, RamType
<1>8. /\ flash' \in [Pages -> PageType]
      /\ \A q \in Pages : /\ Len(On(q)') = Len(On(q))
                          /\ \A j \in 1..Len(On(q)) :
                                  /\ On(q)'[j] = IF q = p /\ j = n THEN v ELSE On(q)[j]
                                  /\ On(q)'[j].key = On(q)[j].key /\ On(q)'[j].val = On(q)[j].val
                                  /\ On(q)'[j].end = On(q)[j].end
                          /\ \A j \in 0..Len(On(q)) : Used(q, j)' = Used(q, j)
                          /\ On(q) = <<>> => On(q)' = <<>>
                          /\ St(q)' = St(q) /\ flash'[q].mode = flash[q].mode
                          /\ flash'[q].ofs = flash[q].ofs
  BY <1>1, <1>4, <1>5, <1>6, ItemIs
<1>9. Typed'
  BY <1>1, <1>5, <1>7, <1>8 DEF Typed, Resting, Calling
<1>10. Laid' /\ Unused'
  <2>1. ASSUME NEW q \in Pages, NEW i \in 1..Len(On(q)')
        PROVE  /\ On(q)'[i].end = Used(q, i - 1)' + Len(On(q)'[i].val)
               /\ i <= On(q)'[i].end /\ ~On(q)'[i].torn
    <3>1. i \in 1..Len(On(q)) /\ i - 1 \in 0..Len(On(q))
      BY <1>1, <1>8, Sizes
    <3>2. On(q)[i].end = Used(q, i - 1) + Len(On(q)[i].val) /\ i <= On(q)[i].end /\ ~On(q)[i].torn
      BY <1>1, <3>1 DEF Laid
    <3>3. QED BY <1>6, <1>8, <3>1, <3>2
  <2>2. QED BY <1>1, <1>8, <2>1 DEF Laid, Unused
<1>11. AtOff' /\ AtFresh'
  BY <1>1, <1>5, NotStarting DEF Fresh
<1>12. (Purpose /\ AtMark /\ Window /\ AtFilling /\ Copying /\ AtSetDst /\ AtCleaning /\ AtSetAct)'
  BY <1>1, <1>5, NotInside DEF Inside, Filling, Cleaning
<1>13. AtRest' /\ Ring'
  <2>1. Settled(ram.tail)' /\ OneReady'
    <3>1. \A q \in Pages : q = ram.tail => On(q)' = On(q)
      BY <1>1, <1>8 DEF Settled
    <3>2. QED BY <1>1, <1>7, <1>8, <3>1, SettledKept
  <2>2. \A q \in Pages : ram'.off[q] = Len(On(q)')
    BY <1>1, <1>7, <1>8
  <2>3. QED BY <1>1, <1>5, <1>7, <2>1, <2>2 DEF AtRest, Ring
<1>14. Kinds' /\ Visited' /\ Writing'
  BY <1>1, <1>5, <1>7 DEF Kinds, Resuming, Fresh, Visited, Writing
<1>15. \A q \in Pages : Offset(q) = Len(On(q)) /\ Offset(q)' = Offset(q)
  BY <1>1, <1>5, <1>7 DEF Offset
<1>16. Distinct' /\ Faithful'
  <2>1. ASSUME NEW q \in Pages, NEW i \in 1..Offset(q)
        PROVE  InForce(q, i)' <=> InForce(q, i)
    <3>1. On(q)'[i] = IF q = p /\ i = n THEN v ELSE On(q)[i]
      BY <1>8, <1>15
    <3>2. CASE q = p /\ i = n
      BY <1>1, <1>4, <1>6, <3>1, <3>2 DEF InForce
    <3>3. CASE ~(q = p /\ i = n)
      BY <1>1, <1>4, <1>5, <1>7, <3>1, <3>3 DEF InForce, Cleaning
    <3>4. QED BY <3>2, <3>3
  <2>2. Current' = Current
    BY <1>1, <1>5 DEF Current, Outcome, Map!Applied
  <2>3. \A q \in Pages : \A i \in 1..Offset(q) : On(q)'[i].key = On(q)[i].key /\ On(q)'[i].val = On(q)[i].val
    BY <1>8, <1>15
  <2>4. QED BY <1>15, <2>1, <2>2, <2>3, ItemsKept DEF Core
<1>17. QED BY <1>9, <1>10, <1>11, <1>12, <1>13, <1>14, <1>16 DEF Core

\* The page bit that follows an inactive item.
LEMMA SetSomeInactiveStep ==
  ASSUME Core, SetSomeInactive
  PROVE  Core'
<1> USE DEF NACT, XDST, RDY, ACT, FULL, XSRC
<1>1. /\ at = "setSomeInactive" /\ Typed /\ op.kind \in {"write", "delete"} /\ op # NoCall /\ ~ram.failW
      /\ x.ret = (IF op.kind = "write" THEN "return" ELSE "verify") /\ Laid /\ Unused
      /\ Settled(ram.tail) /\ OneReady /\ ram.head = Inc(ram.tail) /\ ram.tail \in Pages
      /\ \A q \in Pages : ram.off[q] = Len(On(q))
  <2>1. at = "setSomeInactive" /\ Typed /\ op.kind \in {"write", "delete"} /\ op # NoCall /\ ~ram.failW
        /\ x.ret = IF op.kind = "write" THEN "return" ELSE "verify"
    BY DEF SetSomeInactive, Core, Kinds
  <2>2. QED BY <2>1 DEF Core, AtRest, Ring, Resting, Calling, Typed, RamType
<1>2. /\ flash' = [flash EXCEPT ![x.found[1]].allActive = FALSE]
      /\ at' = x.ret /\ UNCHANGED <<ram, x, op, res, seen, crashes, fails>>
  BY DEF SetSomeInactive, Goto, Quiet
<1>3. /\ flash' \in [Pages -> PageType]
      /\ \A q \in Pages : /\ On(q)' = On(q) /\ St(q)' = St(q) /\ flash'[q].mode = flash[q].mode
                          /\ flash'[q].ofs = flash[q].ofs
  <2>1. PICK z : z = x.found[1]
    OBVIOUS
  <2>2. flash \in [Pages -> PageType] /\ flash' = [flash EXCEPT ![z].allActive = FALSE]
    BY <1>1, <1>2, <2>1 DEF Typed
  <2>3. flash' \in [Pages -> PageType]
    BY <2>2 DEF PageType
  <2>4. \A q \in Pages : flash'[q] = IF q = z THEN [flash[q] EXCEPT !.allActive = FALSE] ELSE flash[q]
    BY <2>2
  <2>5. QED BY <2>2, <2>3, <2>4 DEF PageType, On, St
<1>4. Typed'
  BY <1>1, <1>2, <1>3 DEF Typed, Resting, Calling
<1>5. Laid' /\ Unused'
  BY <1>1, <1>3, LaidKept DEF Unused
<1>6. AtOff' /\ AtFresh'
  BY <1>1, <1>2, NotStarting DEF Fresh
<1>7. (Purpose /\ AtMark /\ Window /\ AtFilling /\ Copying /\ AtSetDst /\ AtCleaning /\ AtSetAct)'
  BY <1>1, <1>2, NotInside DEF Inside, Filling, Cleaning
<1>8. AtRest' /\ Ring'
  <2>1. Settled(ram.tail)' /\ OneReady'
    BY <1>1, <1>2, <1>3, SettledKept
  <2>2. QED BY <1>1, <1>2, <1>3, <2>1 DEF AtRest, Ring
<1>9. Kinds' /\ Visited' /\ Writing'
  BY <1>1, <1>2 DEF Kinds, Resuming, Fresh, Visited, Writing
<1>10. Distinct' /\ Faithful'
  <2>1. Current' = Current
    BY <1>1, <1>2 DEF Current, Outcome, Map!Applied
  <2>2. \A p \in Pages : Offset(p)' = Offset(p)
    BY <1>1, <1>2 DEF Offset
  <2>3. \A p \in Pages : \A i \in 1..Offset(p) : InForce(p, i)' = InForce(p, i)
    BY <1>1, <1>2, <1>3 DEF InForce, Cleaning
  <2>4. QED BY <1>3, <2>1, <2>2, <2>3, DataKept DEF Core
<1>11. QED BY <1>4, <1>5, <1>6, <1>7, <1>8, <1>9, <1>10 DEF Core

\* The item that was deleted is gone.
LEMMA VerifyDeleteStep ==
  ASSUME Core, VerifyDelete
  PROVE  Core'
<1>1. /\ at = "verify" /\ Typed /\ op.kind = "delete" /\ op # NoCall /\ ~ram.failW /\ op.key \in Keys
  BY OpIs DEF VerifyDelete, Core, Kinds
<1>2. Current[op.key] = NoValue
  BY <1>1 DEF Current, Outcome, Map!Applied, Typed
<1>3. ~Corrupted(op.key, Locations) /\ Found(op.key, Locations) = <<>>
  BY <1>1, <1>2, SearchIs, NvAssumption
<1>4. at' = "return" /\ UNCHANGED <<flash, ram, x, op, res, seen, crashes, fails>>
  BY <1>3 DEF VerifyDelete, Goto, Quiet
<1>5. Current' = Current
  BY <1>1, <1>4 DEF Current, Outcome, Map!Applied
<1>6. /\ Typed' /\ Laid' /\ Unused' /\ AtOff' /\ AtFresh' /\ AtRest' /\ Ring'
      /\ (Purpose /\ AtMark /\ Window /\ AtFilling /\ Copying /\ AtSetDst /\ AtCleaning /\ AtSetAct)'
      /\ Distinct' /\ Faithful'
  BY <1>1, <1>4, <1>5, RestStep DEF Resting, Calling, Typed
<1>7. Kinds' /\ Visited' /\ Writing'
  BY <1>1, <1>4 DEF Kinds, Resuming, Fresh, Visited, Writing
<1>8. QED BY <1>6, <1>7 DEF Core

\* What can be read when a call ends.
LEMMA ReadIs ==
  ASSUME Core, at \in {"find", "verify", "return", "fail", "booted"}
  PROVE  Read = Current
<1>1. ASSUME NEW k \in Keys
      PROVE  Value(k) = Current[k]
  <2> DEFINE f == Found(k, Locations)
  <2>1. /\ f = <<>> => Current[k] = NoValue
        /\ f # <<>> => Current[k] = At(f).val
    BY SearchIs
  <2>2. Value(k) = IF f = <<>> THEN NoValue ELSE At(f).val
    BY DEF Value
  <2> HIDE DEF f
  <2>3. QED BY <2>1, <2>2
<1>2. Current \in [Keys -> Values \cup {NoValue}]
  BY OpIs DEF Core
<1>3. QED BY <1>1, <1>2 DEF Read

\* A call ends, and the items read as it should have made them.
LEMMA EndsStep ==
  ASSUME Core, Ends
  PROVE  Core' /\ seen' = Current
<1>1. at \in {"return", "fail", "booted"} /\ Typed /\ ~ram.failW
  BY DEF Ends, Core, Kinds
<1>2. /\ at' = "idle" /\ op' = NoCall /\ x' = Locals0 /\ seen' = Read
      /\ UNCHANGED <<flash, ram, crashes, fails>>
      /\ res' = CASE at = "return" -> "ok"
                  [] at = "fail" -> "fail"
                  [] at = "booted" -> IF op.kind = "boot" THEN "ok" ELSE "lost"
  BY DEF Ends
<1>3. Read = Current
  BY <1>1, ReadIs
<1>4. Current' = Current
  BY <1>2, <1>3 DEF Current
<1>5. Locals0 \in LocalsType
  <2>1. 0 \in 0..NP /\ 0 \in 0..Cap /\ 0 \in Int /\ 0 \in Nat
    BY NvAssumption
  <2>2. QED BY <2>1, EndPages DEF Locals0, LocalsType
<1>6. seen' \in [Keys -> Values \cup {NoValue}] /\ res' \in {"ok", "fail", "lost"}
  BY <1>1, <1>2, <1>3, OpIs
<1>7. /\ Typed' /\ Laid' /\ Unused' /\ AtOff' /\ AtFresh' /\ AtRest' /\ Ring'
      /\ (Purpose /\ AtMark /\ Window /\ AtFilling /\ Copying /\ AtSetDst /\ AtCleaning /\ AtSetAct)'
      /\ Distinct' /\ Faithful'
  BY <1>1, <1>2, <1>4, <1>5, <1>6, RestStep DEF Resting, Resuming, Calling, Typed
<1>8. Kinds' /\ Visited' /\ Writing'
  BY <1>1, <1>2 DEF Kinds, Resuming, Fresh, Visited, Writing
<1>9. QED BY <1>2, <1>3, <1>7, <1>8 DEF Core

-----------------------------------------------------------------------------
(* Compaction *)

\* A step of a compaction that moves no item.
LEMMA InsideStep ==
  ASSUME Core, at \in Inside, at' \in Inside, at \in Cleaning <=> at' \in Cleaning,
         \A p \in Pages : On(p)' = On(p), flash' \in [Pages -> PageType],
         ram'.tail = ram.tail, ram'.head = ram.head, ram'.off = ram.off, ~ram'.failW,
         ram' \in RamType, x' \in LocalsType, UNCHANGED <<op, res, seen, crashes, fails>>
  PROVE  /\ Typed' /\ Laid' /\ AtOff' /\ AtFresh' /\ Ring' /\ Kinds' /\ Visited' /\ Writing'
         /\ Distinct' /\ Faithful' /\ (at' # "mark" => AtRest')
<1>1. /\ Typed /\ at \notin Resting /\ at' \notin Resting /\ at' \notin {"off"} \cup Fresh
      /\ at # "off" /\ op # NoCall
  BY DEF Core, Inside, Filling, Cleaning, Resting, Resuming, Calling, Fresh, Kinds
<1>2. Typed'
  BY <1>1 DEF Typed
<1>3. Laid'
  BY <1>1, LaidKept DEF Core, Resting, Calling
<1>4. AtOff' /\ AtFresh' /\ Visited' /\ Writing' /\ (at' # "mark" => AtRest')
  BY <1>1, NotStarting, NotResting
<1>5. Ring'
  BY DEF Core, Ring
<1>6. Kinds'
  BY <1>1 DEF Kinds, Resting, Resuming, Calling
<1>7. Distinct' /\ Faithful'
  <2>1. Current' = Current
    BY <1>1 DEF Current, Resting, Calling
  <2>2. \A p \in Pages : Offset(p)' = Offset(p)
    BY <1>1 DEF Offset
  <2>3. \A p \in Pages : \A i \in 1..Offset(p) : InForce(p, i)' = InForce(p, i)
    BY <1>1 DEF InForce, Resting, Calling
  <2>4. QED BY <2>1, <2>2, <2>3, DataKept DEF Core
<1>8. QED BY <1>2, <1>3, <1>4, <1>5, <1>6, <1>7

\* The mark walk touches compaction modes only.
LEMMA MarkStep ==
  ASSUME Core, Mark
  PROVE  Core'
<1> USE DEF NACT, XDST, RDY, ACT, FULL, XSRC, NORMAL, CDST, CDONE, CSRC
<1>1. /\ at = "mark" /\ Typed /\ Unused /\ Settled(ram.tail) /\ OneReady /\ ram.tail \in Pages
      /\ ram.head = Inc(ram.tail) /\ op # NoCall /\ ~ram.failW /\ ram \in RamType /\ x \in LocalsType
      /\ at \in Inside /\ op \in Map!Calls
      /\ \A p \in Pages : ram.off[p] = Len(On(p))
      /\ x.dst = ram.tail /\ x.src = Inc(ram.tail) /\ x.left = NP - 1 /\ x.skip = 0
      /\ x.srcPages = (IF x.nBytes > 0 THEN 1 ELSE NP - 1) /\ ~x.room
      /\ \/ x.nBytes = 0 /\ x.ret = "return" /\ op.kind = "compact"
         \/ x.nBytes = 0 /\ x.ret = "booted" /\ op.kind = "boot"
         \/ x.ret = "compacted" /\ op.kind = "write" /\ x.nBytes = Len(op.val)
      /\ x.nBytes > 0 => x.free < x.nBytes /\ \A p \in Pages \ {ram.tail} : St(p) = FULL
  <2>1. at = "mark" /\ Typed /\ op # NoCall /\ ~ram.failW /\ op \in Map!Calls
    BY DEF Mark, Core, Kinds, Typed
  <2>2. /\ Settled(ram.tail) /\ OneReady /\ ram.tail \in Pages
        /\ ram.head = Inc(ram.tail) /\ ram \in RamType /\ x \in LocalsType
        /\ at \in Inside /\ \A p \in Pages : ram.off[p] = Len(On(p))
    BY <2>1 DEF Core, AtRest, Ring, Inside, Typed, RamType
  <2>3. x.dst = ram.tail /\ x.src = Inc(ram.tail) /\ x.left = NP - 1 /\ x.skip = 0
        /\ x.srcPages = (IF x.nBytes > 0 THEN 1 ELSE NP - 1)
    BY <2>1 DEF Core, AtMark
  <2>4. QED BY <2>1, <2>2, <2>3 DEF Core, Purpose
<1>2. UNCHANGED <<op, res, seen, crashes, fails>>
  BY DEF Mark, Quiet
<1>3. CASE at' = x.ret /\ x' = [x EXCEPT !.free = 0] /\ UNCHANGED <<flash, ram>>
  <2>1. x' \in LocalsType /\ x'.nBytes = x.nBytes /\ x'.free = 0
    <3>1. x \in LocalsType
      BY <1>1
    <3>2. x' = [x EXCEPT !.free = 0]
      BY <1>3
    <3>3. x' \in LocalsType
      <4>1. PICK z \in Int : z = 0
        OBVIOUS
      <4>2. x' = [x EXCEPT !.free = z]
        BY <3>2, <4>1
      <4>3. QED BY <3>1, <4>2 DEF LocalsType
    <3>4. x'.nBytes = x.nBytes /\ x'.free = 0
      BY <3>1, <3>2 DEF LocalsType
    <3>5. QED BY <3>3, <3>4
  <2>2. Current' = Current
    BY <1>1, <1>2, <1>3 DEF Current, Outcome, Map!Applied
  <2>3. /\ Typed' /\ Laid' /\ Unused' /\ AtOff' /\ AtFresh' /\ AtRest' /\ Ring'
        /\ (Purpose /\ AtMark /\ Window /\ AtFilling /\ Copying /\ AtSetDst /\ AtCleaning /\ AtSetAct)'
        /\ Distinct' /\ Faithful'
    BY <1>1, <1>2, <1>3, <2>1, <2>2, RestStep DEF Resting, Resuming, Calling, Typed
  <2>4. op.kind = "write" => ~(0 >= Len(op.val))
    <3>1. op.kind = "write" => Len(op.val) \in 1..Cap
      BY <1>1, OpIs, Sizes
    <3>2. QED BY <3>1
  <2>5. Kinds' /\ Visited' /\ Writing'
    BY <1>1, <1>2, <1>3, <2>1, <2>4 DEF Kinds, Resuming, Fresh, Visited, Writing
  <2>6. QED BY <2>3, <2>5 DEF Core
<1>4. CASE at' = "loop" /\ UNCHANGED <<flash, ram, x>>
  <2>1. /\ Typed' /\ Laid' /\ AtOff' /\ AtFresh' /\ Ring' /\ Kinds' /\ Visited' /\ Writing'
        /\ Distinct' /\ Faithful' /\ AtRest'
    <3>1. at' \in Inside /\ at' # "mark" /\ at \notin Cleaning /\ at' \notin Cleaning
      BY <1>1, <1>4 DEF Inside, Filling, Cleaning
    <3>2. \A p \in Pages : On(p)' = On(p)
      BY <1>4 DEF On
    <3>3. flash' \in [Pages -> PageType]
      BY <1>1, <1>4 DEF Typed
    <3>4. QED BY <1>1, <1>2, <1>4, <3>1, <3>2, <3>3, InsideStep
  <2>2. Unused' /\ OneReady'
    BY <1>1, <1>4 DEF Unused, OneReady, On, St
  <2>3. Purpose'
    BY <1>1, <1>2, <1>4 DEF Purpose, Filling, Cleaning, St
  <2>4. AtMark' /\ Copying' /\ AtSetDst' /\ AtCleaning' /\ AtSetAct'
    BY <1>4 DEF AtMark, Copying, AtSetDst, AtCleaning, AtSetAct, Cleaning
  <2>5. Window'
    <3>1. NP - 1 >= 0 /\ 0 + 1 + (NP - 1) <= NP /\ Inc(ram.tail) = Add(ram.tail, 0 + 1) /\ NP - 1 > 0
      BY <1>1, PageInts DEF Inc
    <3>2. QED BY <1>1, <1>4, <2>2, <3>1 DEF Window
  <2>6. AtFilling'
    <3>1. Whole(x.dst) /\ Whole(x.src) /\ \A p \in Pages : Whole(p)
      BY <1>1 DEF Whole, Settled, LocalsType
    <3>2. \A p \in Pages : Whole(p)' /\ On(p)' = On(p) /\ St(p)' = St(p)
      BY <1>4, <3>1 DEF Whole, On, St
    <3>3. Whole(x.src)' /\ Empty(x.dst)' /\ St(x.dst)' = XDST
      BY <1>1, <1>4, <3>1 DEF Empty, Settled, Whole, On, St
    <3>4. \A p \in Pages \ {x.dst} : St(p) # XDST /\ St(p) # XSRC
      BY <1>1 DEF Settled
    <3>5. QED BY <1>4, <3>2, <3>3, <3>4 DEF AtFilling
  <2>7. QED BY <2>1, <2>2, <2>3, <2>4, <2>5, <2>6 DEF Core
<1>5. CASE /\ x.pg # NP /\ x' = [x EXCEPT !.pg = @ + 1]
           /\ IF x.pg # ram.tail /\ flash[x.pg].st \in {ACT, FULL}
              THEN Mode(x.pg, CSRC) /\ ram' = [ram EXCEPT !.failW = FALSE]
              ELSE UNCHANGED <<flash, ram>>
           /\ UNCHANGED at
  <2>1. x.pg \in Pages /\ x.pg + 1 \in 0..NP
    BY <1>1, <1>5, PageInts DEF LocalsType
  <2>2. /\ x' \in LocalsType /\ x'.nBytes = x.nBytes /\ x'.free = x.free /\ x'.dst = x.dst
        /\ x'.src = x.src /\ x'.left = x.left /\ x'.skip = x.skip /\ x'.srcPages = x.srcPages
        /\ x'.room = x.room /\ x'.ret = x.ret
    BY <1>1, <1>5, <2>1 DEF LocalsType
  <2>3. ram' = ram /\ at' = "mark"
    <3>1. ram \in RamType /\ ram.failW = FALSE /\ at = "mark"
      BY <1>1 DEF RamType
    <3>2. [ram EXCEPT !.failW = FALSE] = ram
      BY <3>1 DEF RamType
    <3>3. QED BY <1>5, <3>1, <3>2
  <2>4. /\ flash' \in [Pages -> PageType]
        /\ \A q \in Pages : /\ On(q)' = On(q) /\ St(q)' = St(q) /\ flash'[q].ofs = flash[q].ofs
                            /\ q = ram.tail => flash'[q].mode = flash[q].mode
    <3>1. CASE flash' = flash
      BY <1>1, <3>1 DEF Typed, On, St
    <3>2. CASE x.pg # ram.tail /\ Mode(x.pg, CSRC)
      <4>1. CSRC \in NORMAL..CSRC
        OBVIOUS
      <4>2. flash' \in [Pages -> PageType]
        BY <1>1, <2>1, <3>2, <4>1, ModeTyped
      <4>3. \A q \in Pages : On(q)' = On(q) /\ flash'[q].ofs = flash[q].ofs
        BY <1>1, <2>1, <3>2, StateKeeps
      <4>4. \A q \in Pages : /\ flash'[q].mode = (IF q = x.pg THEN Higher(flash[q].mode, CSRC)
                                                  ELSE flash[q].mode)
                             /\ St(q)' = St(q)
        BY <1>1, <2>1, <3>2, ModeIs
      <4>5. QED BY <3>2, <4>2, <4>3, <4>4
    <3>3. QED BY <1>5, <3>1, <3>2
  <2>5. /\ Typed' /\ Laid' /\ AtOff' /\ AtFresh' /\ Ring' /\ Kinds' /\ Visited' /\ Writing'
        /\ Distinct' /\ Faithful'
    BY <1>1, <1>2, <2>2, <2>3, <2>4, InsideStep
  <2>6. Unused' /\ AtRest'
    <3>1. Settled(ram.tail)' /\ OneReady'
      <4>1. flash'[ram.tail].mode = NORMAL /\ On(ram.tail)' = <<>>
        BY <1>1, <2>3, <2>4 DEF Settled, On
      <4>2. QED BY <1>1, <2>3, <2>4, <4>1 DEF Settled, OneReady
    <3>2. QED BY <1>1, <2>3, <2>4, <3>1 DEF AtRest, Unused
  <2>7. Purpose'
    BY <1>1, <1>2, <2>2, <2>3, <2>4 DEF Purpose, Filling, Cleaning
  <2>8. AtMark' /\ Window' /\ AtFilling' /\ Copying' /\ AtSetDst' /\ AtCleaning' /\ AtSetAct'
    BY <1>1, <2>2, <2>3 DEF AtMark, Window, AtFilling, Copying, AtSetDst, AtCleaning, AtSetAct,
                            Filling, Cleaning
  <2>9. QED BY <2>5, <2>6, <2>7, <2>8 DEF Core
<1>6. QED BY <1>3, <1>4, <1>5 DEF Mark, Goto

\* The pages still to be compacted lie between the tail and the tail.
LEMMA WindowIs ==
  ASSUME Typed, Window, at \in Filling \cup Cleaning
  PROVE  /\ x.src \in Pages /\ x.dst \in Pages /\ x.dst = ram.tail /\ x.left \in Nat /\ x.skip \in Nat
         /\ x.left <= NP - 1 /\ x.nBytes \in 0..Cap /\ x.srcPages \in Int
         /\ at # "loop" => 1 <= x.srcPages /\ x.srcPages <= x.left
         /\ \A p \in Pages : Dist(x.src, p) < x.left => p # x.dst
         /\ x.left > 0 => x.src # x.dst
         /\ Dist(x.src, x.src) = 0
<1>1. /\ x.src \in Pages /\ x.dst \in Pages /\ x.left \in Int /\ x.skip \in Nat
      /\ x.nBytes \in 0..Cap /\ x.srcPages \in Int
  BY DEF Typed, LocalsType
<1>2. /\ x.dst = ram.tail /\ x.src = Add(x.dst, x.skip + 1) /\ x.left >= 0
      /\ x.skip + 1 + x.left <= NP /\ (at # "loop" => x.left > 0)
      /\ x.nBytes = 0 => x.skip = 0 /\ x.srcPages = x.left
      /\ x.nBytes > 0 => IF at = "loop" THEN x.srcPages \in {0, 1} ELSE x.srcPages = 1
  BY DEF Window
<1>3. x.left \in Nat /\ x.left <= NP - 1 /\ x.skip + 1 \in 0..NP
  BY <1>1, <1>2, PageInts
<1>4. x.src = IF x.dst + (x.skip + 1) < NP THEN x.dst + (x.skip + 1) ELSE x.dst + (x.skip + 1) - NP
  BY <1>1, <1>2, <1>3, RingIs
<1>5. Dist(x.src, x.dst) = IF x.dst >= x.src THEN x.dst - x.src ELSE x.dst + NP - x.src
  BY <1>1, RingIs
<1>6. x.left > 0 => Dist(x.src, x.dst) >= x.left
  BY <1>1, <1>2, <1>3, <1>4, <1>5, PageInts
<1>7. Dist(x.src, x.src) = 0
  <2>1. Dist(x.src, x.src) = IF x.src >= x.src THEN x.src - x.src ELSE x.src + NP - x.src
    BY <1>1, RingIs
  <2>2. QED BY <1>1, <2>1, PageInts
<1>8. \A p \in Pages : Dist(x.src, p) \in Nat
  BY <1>1, RingFacts
<1>9. \A p \in Pages : Dist(x.src, p) < x.left => p # x.dst
  BY <1>1, <1>3, <1>6, <1>8
<1>10. x.left > 0 => x.src # x.dst
  BY <1>1, <1>7, <1>9
<1>11. at # "loop" => 1 <= x.srcPages /\ x.srcPages <= x.left
  BY <1>1, <1>2, <1>3, NvAssumption
<1>12. QED BY <1>1, <1>2, <1>3, <1>7, <1>9, <1>10, <1>11

\* A page to compact is chosen; those passed over keep their items.
LEMMA CompactLoopStep ==
  ASSUME Core, CompactLoop
  PROVE  Core'
<1> USE DEF NACT, XDST, RDY, ACT, FULL, XSRC, NORMAL, CDST, CDONE, CSRC
<1>1. /\ at = "loop" /\ Typed /\ Unused /\ OneReady /\ op # NoCall /\ ~ram.failW
      /\ ram \in RamType /\ x \in LocalsType /\ at \in Inside /\ flash \in [Pages -> PageType]
  BY DEF CompactLoop, Core, Kinds, Typed, Window, Filling, Inside
<1>2. UNCHANGED <<ram, op, res, seen, crashes, fails>>
  BY DEF CompactLoop, Quiet
<1>3. /\ x.src \in Pages /\ x.dst \in Pages /\ x.dst = ram.tail /\ x.left \in Nat /\ x.skip \in Nat
      /\ x.left <= NP - 1 /\ x.nBytes \in 0..Cap /\ x.srcPages \in Int
      /\ x.left > 0 => x.src # x.dst
      /\ x.src = Add(x.dst, x.skip + 1) /\ x.skip + 1 + x.left <= NP
      /\ x.nBytes = 0 => x.skip = 0 /\ x.srcPages = x.left
      /\ x.nBytes > 0 => x.srcPages \in {0, 1}
  <2>1. at \in Filling \cup Cleaning /\ Window
    BY <1>1 DEF Filling, Core
  <2>2. x.src = Add(x.dst, x.skip + 1) /\ x.skip + 1 + x.left <= NP
        /\ (x.nBytes = 0 => x.skip = 0 /\ x.srcPages = x.left)
        /\ (x.nBytes > 0 => x.srcPages \in {0, 1})
    BY <1>1, <2>1 DEF Window
  <2>3. QED BY <1>1, <2>1, <2>2, WindowIs
<1>4. /\ \A p \in Pages \ {x.dst} : St(p) # XDST /\ St(p) # XSRC /\ (p # x.src => Whole(p))
      /\ ~Whole(x.src) => x.left > 0 /\ x.nBytes = 0 /\ ram.off[x.src] <= Len(On(x.src))
      /\ Empty(x.dst) /\ St(x.dst) \in {NACT, XDST}
  BY <1>1 DEF Core, AtFilling, Filling
<1>5. /\ \/ x.nBytes = 0 /\ x.ret = "return" /\ op.kind = "compact"
         \/ x.nBytes = 0 /\ x.ret = "booted" /\ op.kind = "boot"
         \/ x.ret = "compacted" /\ op.kind = "write" /\ x.nBytes = Len(op.val)
      /\ ~x.room
      /\ x.nBytes > 0 => x.free < x.nBytes /\ \A p \in Pages \ {ram.tail} : St(p) \notin {ACT, RDY}
  BY <1>1 DEF Core, Purpose, Filling
<1> DEFINE sp == Higher(x.srcPages, 1)
<1>6. sp \in Int /\ (x.nBytes > 0 => sp = 1) /\ (x.nBytes = 0 /\ x.left > 0 => sp = x.srcPages)
  BY <1>3 DEF Higher
<1> HIDE DEF sp
<1>7. CASE x.left = 0 /\ at' = "setAct" /\ UNCHANGED <<flash, x>>
  <2>1. /\ Typed' /\ Laid' /\ AtOff' /\ AtFresh' /\ Ring' /\ Kinds' /\ Visited' /\ Writing'
        /\ Distinct' /\ Faithful' /\ AtRest'
    <3>1. at' \in Inside /\ at' # "mark" /\ at \notin Cleaning /\ at' \notin Cleaning
      BY <1>1, <1>7 DEF Inside, Filling, Cleaning
    <3>2. \A p \in Pages : On(p)' = On(p)
      BY <1>7 DEF On
    <3>3. QED BY <1>1, <1>2, <1>7, <3>1, <3>2, InsideStep
  <2>2. Unused' /\ OneReady'
    BY <1>1, <1>7 DEF Unused, OneReady, On, St
  <2>3. \A p \in Pages : On(p)' = On(p) /\ St(p)' = St(p) /\ flash'[p].ofs = flash[p].ofs
                         /\ flash'[p].mode = flash[p].mode /\ Whole(p)
    BY <1>4, <1>7 DEF On, St, Empty
  <2>4. AtSetAct'
    <3>1. \A p \in Pages : Whole(p)' /\ St(p)' # XSRC /\ (St(p)' = XDST => p = ram.tail)
      BY <1>2, <1>3, <1>4, <2>3 DEF Whole
    <3>2. Empty(ram.tail)' /\ St(ram.tail)' \in {NACT, XDST}
      BY <1>2, <1>3, <1>4, <1>7 DEF Empty, Whole, On, St
    <3>3. QED BY <1>2, <2>2, <3>1, <3>2 DEF AtSetAct
  <2>5. Purpose'
    <3>1. ASSUME x.nBytes > 0
          PROVE  x.free < x.nBytes /\ \A p \in Pages : St(p)' # ACT
      BY <1>3, <1>4, <1>5, <2>3, <3>1
    <3>2. x.free < x.nBytes => ~(x.free >= x.nBytes)
      BY <1>1, <1>3 DEF LocalsType
    <3>3. QED BY <1>2, <1>5, <1>7, <3>1, <3>2 DEF Purpose, Filling, Cleaning
  <2>6. AtMark' /\ Window' /\ AtFilling' /\ Copying' /\ AtSetDst' /\ AtCleaning'
    BY <1>7 DEF AtMark, Window, AtFilling, Copying, AtSetDst, AtCleaning, Filling, Cleaning
  <2>7. QED BY <2>1, <2>2, <2>4, <2>5, <2>6 DEF Core
<1>8. CASE /\ x.left > 0 /\ x.nBytes > 0
           /\ x' = [x EXCEPT !.srcPages = sp - 1, !.src = Inc(x.src), !.free = 0,
                             !.left = @ - 1, !.skip = @ + 1]
           /\ UNCHANGED <<flash, at>>
  <2>1. /\ x' \in LocalsType /\ x'.srcPages = 0 /\ x'.src = Inc(x.src) /\ x'.free = 0
        /\ x'.left = x.left - 1 /\ x'.skip = x.skip + 1 /\ x'.dst = x.dst /\ x'.nBytes = x.nBytes
        /\ x'.ret = x.ret /\ x'.room = x.room
    <3>1. PICK z \in Int : z = 0
      OBVIOUS
    <3>2. PICK i \in Pages : i = Inc(x.src)
      BY <1>3, RingFacts
    <3>3. PICK l \in Int : l = x.left - 1
      BY <1>3
    <3>4. PICK m \in Nat : m = x.skip + 1
      BY <1>3
    <3>5. sp - 1 = z
      BY <1>6, <1>8, <3>1
    <3>6. x' = [x EXCEPT !.srcPages = z, !.src = i, !.free = z, !.left = l, !.skip = m]
      BY <1>8, <3>1, <3>2, <3>3, <3>4, <3>5
    <3>7. x' \in LocalsType
      BY <1>1, <3>6 DEF LocalsType
    <3>8. /\ x'.srcPages = z /\ x'.src = i /\ x'.free = z /\ x'.left = l /\ x'.skip = m
          /\ x'.dst = x.dst /\ x'.nBytes = x.nBytes /\ x'.ret = x.ret /\ x'.room = x.room
      BY <1>1, <3>6 DEF LocalsType
    <3>9. QED BY <3>1, <3>2, <3>3, <3>4, <3>7, <3>8
  <2>2. /\ Typed' /\ Laid' /\ AtOff' /\ AtFresh' /\ Ring' /\ Kinds' /\ Visited' /\ Writing'
        /\ Distinct' /\ Faithful' /\ AtRest'
    <3>1. at' \in Inside /\ at' # "mark"
      BY <1>1, <1>8
    <3>2. \A p \in Pages : On(p)' = On(p)
      BY <1>8 DEF On
    <3>3. QED BY <1>1, <1>2, <1>8, <2>1, <3>1, <3>2, InsideStep
  <2>3. Unused' /\ OneReady'
    BY <1>1, <1>8 DEF Unused, OneReady, On, St
  <2>4. \A p \in Pages : On(p)' = On(p) /\ St(p)' = St(p) /\ flash'[p].ofs = flash[p].ofs
                         /\ flash'[p].mode = flash[p].mode /\ Whole(p) /\ Whole(p)'
    <3>1. \A p \in Pages : Whole(p)
      BY <1>4, <1>8 DEF Empty
    <3>2. QED BY <1>2, <1>8, <3>1 DEF On, St, Whole
  <2>5. Window'
    <3>1. Inc(x.src) = Add(x.dst, x.skip + 2) /\ x.skip + 2 + (x.left - 1) <= NP /\ x.left - 1 >= 0
      <4>1. x.skip + 1 \in 0..NP /\ x.skip + 2 \in 0..NP
        BY <1>3, <1>8, PageInts
      <4>2. /\ Inc(x.src) = IF x.src = NP - 1 THEN 0 ELSE x.src + 1
            /\ Add(x.dst, x.skip + 2) = IF x.dst + (x.skip + 2) < NP THEN x.dst + (x.skip + 2)
                                        ELSE x.dst + (x.skip + 2) - NP
            /\ Add(x.dst, x.skip + 1) = IF x.dst + (x.skip + 1) < NP THEN x.dst + (x.skip + 1)
                                        ELSE x.dst + (x.skip + 1) - NP
        BY <1>3, <4>1, RingIs
      <4>3. QED BY <1>3, <1>8, <4>1, <4>2, PageInts
    <3>2. x.skip + 1 + 1 = x.skip + 2
      BY <1>3
    <3>3. x'.dst = ram.tail /\ x'.nBytes # 0
      BY <1>3, <1>8, <2>1
    <3>4. QED BY <1>1, <1>2, <1>8, <2>1, <2>3, <3>1, <3>2, <3>3 DEF Window
  <2>6. AtFilling'
    <3>1. x'.src \in Pages
      BY <2>1 DEF LocalsType
    <3>2. Empty(x.dst)' /\ St(x.dst)' \in {NACT, XDST}
      BY <1>2, <1>4, <1>8, <2>1 DEF Empty, Whole, On, St
    <3>3. \A p \in Pages : p = x'.src => Whole(x.src)'
      BY <2>4 DEF Whole, On
    <3>4. QED BY <1>1, <1>4, <1>8, <2>1, <2>4, <3>1, <3>2, <3>3 DEF AtFilling
  <2>7. Purpose'
    BY <1>1, <1>2, <1>3, <1>5, <1>8, <2>1, <2>4 DEF Purpose, Filling, Cleaning
  <2>8. AtMark' /\ Copying' /\ AtSetDst' /\ AtCleaning' /\ AtSetAct'
    BY <1>1, <1>8 DEF AtMark, Copying, AtSetDst, AtCleaning, AtSetAct, Cleaning
  <2>9. QED BY <2>2, <2>3, <2>5, <2>6, <2>7, <2>8 DEF Core
<1>9. CASE /\ x.left > 0 /\ State(x.src, XSRC) /\ x' = [x EXCEPT !.srcPages = sp] /\ at' = "markDst"
  <2>1. /\ x' \in LocalsType /\ x'.srcPages = sp /\ x'.src = x.src /\ x'.free = x.free
        /\ x'.left = x.left /\ x'.skip = x.skip /\ x'.dst = x.dst /\ x'.nBytes = x.nBytes
        /\ x'.ret = x.ret /\ x'.room = x.room
    BY <1>1, <1>6, <1>9 DEF LocalsType
  <2>2. /\ flash' \in [Pages -> PageType]
        /\ \A q \in Pages : /\ On(q)' = On(q) /\ flash'[q].ofs = flash[q].ofs
                            /\ flash'[q].mode = flash[q].mode
                            /\ St(q)' = IF q = x.src THEN XSRC ELSE St(q)
    <3>1. St(x.src) \in 0..5
      BY <1>1, <1>3 DEF PageType, St
    <3>2. Higher(St(x.src), XSRC) = XSRC /\ XSRC \in NACT..XSRC
      BY <3>1 DEF Higher
    <3>3. flash' \in [Pages -> PageType]
      BY <1>1, <1>3, <1>9, <3>2, StateTyped
    <3>4. \A q \in Pages : On(q)' = On(q) /\ flash'[q].ofs = flash[q].ofs
      BY <1>1, <1>3, <1>9, StateKeeps
    <3>5. \A q \in Pages : /\ St(q)' = IF q = x.src THEN Higher(St(q), XSRC) ELSE St(q)
                           /\ flash'[q].mode = flash[q].mode
      BY <1>1, <1>3, <1>9, StateIs
    <3>6. QED BY <3>2, <3>3, <3>4, <3>5
  <2>3. /\ Typed' /\ Laid' /\ AtOff' /\ AtFresh' /\ Ring' /\ Kinds' /\ Visited' /\ Writing'
        /\ Distinct' /\ Faithful' /\ AtRest'
    <3>1. at' \in Inside /\ at' # "mark" /\ at \notin Cleaning /\ at' \notin Cleaning
      BY <1>1, <1>9 DEF Inside, Filling, Cleaning
    <3>2. QED BY <1>1, <1>2, <2>1, <2>2, <3>1, InsideStep
  <2>4. Unused' /\ OneReady'
    BY <1>1, <2>2 DEF Unused, OneReady
  <2>5. Window'
    <3>1. x.nBytes = 0 => sp = x.left
      BY <1>3, <1>6, <1>9
    <3>2. QED BY <1>2, <1>3, <1>6, <1>9, <2>1, <2>4, <3>1 DEF Window
  <2>6. AtFilling'
    <3>1. \A p \in Pages : Whole(p)' <=> Whole(p)
      BY <1>2, <2>2 DEF Whole
    <3>2. Empty(x.dst)' /\ St(x.dst)' \in {NACT, XDST}
      <4>1. x.src # x.dst /\ x.dst \in Pages
        BY <1>3, <1>9
      <4>2. On(x.dst)' = On(x.dst) /\ flash'[x.dst].mode = flash[x.dst].mode /\ St(x.dst)' = St(x.dst)
            /\ flash'[x.dst].ofs = flash[x.dst].ofs
        BY <2>1, <2>2, <4>1 DEF On, St
      <4>3. QED BY <1>2, <1>4, <2>1, <4>2 DEF Empty, Whole
    <3>3. ~Whole(x.src)' => /\ ~Whole(x.src) /\ Len(On(x.src)') = Len(On(x.src))
                            /\ ram.off[x.src]' = ram.off[x.src]
      BY <1>2, <1>3, <2>1, <2>2 DEF Whole, On
    <3>4. QED BY <1>4, <1>9, <2>1, <2>2, <3>1, <3>2, <3>3 DEF AtFilling
  <2>7. Purpose'
    <3>1. x.nBytes > 0 => \A p \in Pages \ {ram.tail} : St(p)' \notin {ACT, RDY}
      BY <1>5, <2>2
    <3>2. QED BY <1>2, <1>5, <1>9, <2>1, <3>1 DEF Purpose, Filling, Cleaning
  <2>8. AtMark' /\ Copying' /\ AtSetDst' /\ AtCleaning' /\ AtSetAct'
    BY <1>9 DEF AtMark, Copying, AtSetDst, AtCleaning, AtSetAct, Cleaning
  <2>9. QED BY <2>3, <2>4, <2>5, <2>6, <2>7, <2>8 DEF Core
<1>10. \/ x.left = 0 /\ at' = "setAct" /\ UNCHANGED <<flash, x>>
       \/ /\ x.left > 0 /\ x.nBytes > 0
          /\ x' = [x EXCEPT !.srcPages = sp - 1, !.src = Inc(x.src), !.free = 0,
                            !.left = @ - 1, !.skip = @ + 1]
          /\ UNCHANGED <<flash, at>>
       \/ /\ x.left > 0 /\ State(x.src, XSRC) /\ x' = [x EXCEPT !.srcPages = sp] /\ at' = "markDst"
  BY <1>1, <1>6 DEF CompactLoop, Goto, sp, LocalsType
<1>11. QED BY <1>7, <1>8, <1>9, <1>10

\* What the pages outside the destination hold.
LEMMA FillingData ==
  ASSUME Core, at \in Filling
  PROVE  /\ \A p \in Pages \ {x.dst} : ram.off[p] <= Len(On(p))
         /\ \A p \in Pages \ {x.dst} : \A i \in 1..ram.off[p] :
              /\ i \in 1..Len(On(p)) /\ On(p)[i] \in Items
              /\ On(p)[i].active => seen[On(p)[i].key] = On(p)[i].val
         /\ \A p, q \in Pages \ {x.dst} : \A i \in 1..ram.off[p], j \in 1..ram.off[q] :
              On(p)[i].active /\ On(q)[j].active /\ On(p)[i].key = On(q)[j].key => p = q /\ i = j
         /\ \A k \in Keys : seen[k] # NoValue =>
              \E p \in Pages \ {x.dst} : \E i \in 1..ram.off[p] :
                On(p)[i].active /\ On(p)[i].key = k
         /\ \A p \in Pages : \A i \in 1..Len(On(p)) : ~On(p)[i].torn
<1>1. /\ Typed /\ Laid /\ Distinct /\ Faithful /\ x.dst = ram.tail /\ at \notin Cleaning /\ at # "off"
      /\ at # "setInactive" /\ at # "writeHeader" /\ x.src \in Pages
      /\ at \notin {"setInactive", "setSomeInactive", "verify", "return"}
  BY DEF Core, Filling, Cleaning, Window, Typed, LocalsType
<1>2. ASSUME NEW p \in Pages \ {x.dst}
      PROVE  ram.off[p] <= Len(On(p))
  <2>1. p # x.src => Whole(p)
    BY DEF Core, AtFilling
  <2>2. ~Whole(x.src) => ram.off[x.src] <= Len(On(x.src))
    BY DEF Core, AtFilling
  <2>3. Len(On(p)) \in Nat
    BY <1>1, Sizes
  <2>4. QED BY <2>1, <2>2, <2>3 DEF Whole
<1>3. \A p \in Pages : ram.off[p] \in Nat /\ Len(On(p)) \in Nat
  BY <1>1, Sizes DEF Typed, RamType
<1>4. \A p \in Pages \ {x.dst} : \A i \in 1..ram.off[p] : i \in 1..Len(On(p)) /\ On(p)[i] \in Items
  BY <1>1, <1>2, <1>3, Sizes
<1>5. Current = seen /\ \A p \in Pages : Offset(p) = ram.off[p]
  BY <1>1 DEF Current, Offset
<1>6. \A p \in Pages : \A i : InForce(p, i) <=> On(p)[i].active /\ p # x.dst
  BY <1>1 DEF InForce
<1>7. \A p \in Pages \ {x.dst} : \A i \in 1..ram.off[p] :
        On(p)[i].active => seen[On(p)[i].key] = On(p)[i].val
  BY <1>1, <1>5, <1>6 DEF Faithful
<1>8. \A p, q \in Pages \ {x.dst} : \A i \in 1..ram.off[p], j \in 1..ram.off[q] :
        On(p)[i].active /\ On(q)[j].active /\ On(p)[i].key = On(q)[j].key => p = q /\ i = j
  BY <1>1, <1>5, <1>6 DEF Distinct
<1>9. ASSUME NEW k \in Keys, seen[k] # NoValue
      PROVE  \E p \in Pages \ {x.dst} : \E i \in 1..ram.off[p] : On(p)[i].active /\ On(p)[i].key = k
  <2>1. PICK p \in Pages : \E i \in 1..Offset(p) : InForce(p, i) /\ On(p)[i].key = k
    BY <1>1, <1>5, <1>9 DEF Faithful
  <2>2. p # x.dst /\ \E i \in 1..ram.off[p] : On(p)[i].active /\ On(p)[i].key = k
    BY <1>5, <1>6, <2>1
  <2>3. QED BY <2>2
<1>10. \A p \in Pages : \A i \in 1..Len(On(p)) : ~On(p)[i].torn
  BY <1>1 DEF Laid
<1>11. QED BY <1>2, <1>4, <1>7, <1>8, <1>9, <1>10

\* The tail becomes the destination.
LEMMA MarkDstStep ==
  ASSUME Core, MarkDst
  PROVE  Core'
<1> USE DEF NACT, XDST, RDY, ACT, FULL, XSRC, NORMAL, CDST, CDONE, CSRC
<1>1. /\ at \in {"markDst", "markMode"} /\ at \in Filling /\ Typed /\ Unused /\ OneReady
      /\ op # NoCall /\ ~ram.failW /\ Window
      /\ ram \in RamType /\ x \in LocalsType /\ at \in Inside /\ flash \in [Pages -> PageType]
  BY DEF MarkDst, Core, Kinds, Typed, Window, Filling, Inside
<1>2. UNCHANGED <<ram, op, res, seen, crashes, fails>>
  BY DEF MarkDst, Quiet
<1>3. PICK d \in Pages : d = x.dst
  BY <1>1 DEF LocalsType
<1>4. PICK s \in Pages : s = x.src
  BY <1>1 DEF LocalsType
<1>5. d # s /\ d = ram.tail /\ x.left > 0 /\ 1 <= x.srcPages /\ x.srcPages \in Int /\ Dist(s, s) = 0
  BY <1>1, <1>3, <1>4, WindowIs DEF Window
<1>6. PICK o \in Nat : o = ram.off[s]
  BY <1>1, <1>4 DEF RamType
<1>7. /\ x' = [x EXCEPT !.sPage = s, !.cur = s, !.pos = o]
      /\ \/ at = "markDst" /\ State(d, XDST) /\ at' = "markMode"
         \/ at = "markMode" /\ Mode(d, CDST) /\ at' = "copy"
  BY <1>3, <1>4, <1>6 DEF MarkDst, Goto
<1>8. /\ x' \in LocalsType /\ x'.sPage = s /\ x'.cur = s /\ x'.pos = o /\ x'.srcPages = x.srcPages
      /\ x'.src = s /\ x'.free = x.free /\ x'.left = x.left /\ x'.skip = x.skip /\ x'.dst = d
      /\ x'.nBytes = x.nBytes /\ x'.ret = x.ret /\ x'.room = x.room
  BY <1>1, <1>3, <1>4, <1>7 DEF LocalsType
<1>9. /\ \A p \in Pages \ {d} : St(p) # XDST /\ (p # s => Whole(p)) /\ (St(p) = XSRC <=> p = s)
      /\ ~Whole(s) => x.nBytes = 0 /\ o <= Len(On(s))
      /\ Empty(d) /\ St(d) \in {NACT, XDST} /\ (at = "markMode" => St(d) = XDST)
  BY <1>1, <1>3, <1>4, <1>6 DEF Core, AtFilling
<1>10. /\ flash' \in [Pages -> PageType]
       /\ \A q \in Pages : /\ On(q)' = On(q) /\ flash'[q].ofs = flash[q].ofs
                           /\ q # d => flash'[q].mode = flash[q].mode /\ St(q)' = St(q)
       /\ St(d)' = XDST
       /\ at' = "markMode" => flash'[d].mode = NORMAL
       /\ at' = "copy" => flash'[d].mode = CDST
  <2>1. \A q \in Pages : On(q)' = On(q) /\ flash'[q].ofs = flash[q].ofs
    BY <1>1, <1>7, StateKeeps
  <2>2. CASE at = "markDst" /\ State(d, XDST) /\ at' = "markMode"
    <3>1. XDST \in NACT..XSRC /\ Higher(NACT, XDST) = XDST /\ Higher(XDST, XDST) = XDST
      BY DEF Higher
    <3>2. flash' \in [Pages -> PageType]
      BY <1>1, <2>2, <3>1, StateTyped
    <3>3. \A q \in Pages : /\ St(q)' = IF q = d THEN Higher(St(q), XDST) ELSE St(q)
                           /\ flash'[q].mode = flash[q].mode
      BY <1>1, <2>2, StateIs
    <3>4. St(d) = NACT \/ St(d) = XDST
      BY <1>9
    <3>5. St(d)' = XDST
      BY <3>1, <3>3, <3>4
    <3>6. flash[d].mode = NORMAL
      BY <1>9 DEF Empty
    <3>7. QED BY <2>1, <2>2, <3>2, <3>3, <3>5, <3>6
  <2>3. CASE at = "markMode" /\ Mode(d, CDST) /\ at' = "copy"
    <3>1. CDST \in NORMAL..CSRC /\ Higher(NORMAL, CDST) = CDST
      BY DEF Higher
    <3>2. flash' \in [Pages -> PageType]
      BY <1>1, <2>3, <3>1, ModeTyped
    <3>3. \A q \in Pages : /\ flash'[q].mode = (IF q = d THEN Higher(flash[q].mode, CDST)
                                                ELSE flash[q].mode)
                           /\ St(q)' = St(q)
      BY <1>1, <2>3, ModeIs
    <3>4. flash[d].mode = NORMAL
      BY <1>9 DEF Empty
    <3>5. QED BY <1>9, <2>1, <2>3, <3>1, <3>2, <3>3, <3>4
  <2>4. QED BY <1>7, <2>2, <2>3
<1>11. at' \in Inside /\ at' # "mark" /\ at \notin Cleaning /\ at' \notin Cleaning /\ at' \in Filling
       /\ at' \in {"markMode", "copy"} /\ at' # "loop"
  BY <1>1, <1>7 DEF Inside, Filling, Cleaning
<1>12. /\ Typed' /\ Laid' /\ AtOff' /\ AtFresh' /\ Ring' /\ Kinds' /\ Visited' /\ Writing'
       /\ Distinct' /\ Faithful' /\ AtRest'
  BY <1>1, <1>2, <1>8, <1>10, <1>11, InsideStep
<1>13. Unused' /\ OneReady'
  BY <1>1, <1>10 DEF Unused, OneReady
<1>14. Window'
  BY <1>1, <1>2, <1>3, <1>4, <1>8, <1>11, <1>13 DEF Window
<1>15. AtFilling'
  <2>1. \A p \in Pages : Whole(p)' <=> Whole(p)
    BY <1>2, <1>10 DEF Whole
  <2>2. at' = "markMode" => Empty(d)'
    BY <1>9, <1>10, <2>1 DEF Empty
  <2>3. Empty(d)' => Empty(x.dst)'
    BY <1>8 DEF Empty, Whole, On
  <2>4. St(x.dst)' = XDST
    BY <1>8, <1>10 DEF St
  <2>5. ~Whole(x.src)' => ~Whole(s) /\ ram.off[x.src]' = o /\ Len(On(x.src)') = Len(On(s))
    BY <1>2, <1>4, <1>6, <1>8, <1>10, <2>1 DEF Whole, On
  <2>6. QED BY <1>5, <1>8, <1>9, <1>10, <1>11, <2>1, <2>2, <2>3, <2>4, <2>5 DEF AtFilling
<1>16. Purpose'
  <2>1. /\ \/ x.nBytes = 0 /\ x.ret = "return" /\ op.kind = "compact"
           \/ x.nBytes = 0 /\ x.ret = "booted" /\ op.kind = "boot"
           \/ x.ret = "compacted" /\ op.kind = "write" /\ x.nBytes = Len(op.val)
        /\ ~x.room
        /\ x.nBytes > 0 => \A p \in Pages \ {ram.tail} : St(p) \notin {ACT, RDY}
    BY <1>1 DEF Core, Purpose
  <2>2. x.nBytes > 0 => \A p \in Pages \ {ram.tail} : St(p)' \notin {ACT, RDY}
    BY <1>5, <1>10, <2>1
  <2>3. QED BY <1>2, <1>8, <1>11, <2>1, <2>2 DEF Purpose, Filling, Cleaning
<1>17. AtMark' /\ AtSetDst' /\ AtCleaning' /\ AtSetAct'
  BY <1>11 DEF AtMark, AtSetDst, AtCleaning, AtSetAct
<1>18. Copying'
  <2> SUFFICES ASSUME at' = "copy"
               PROVE  Copying'
    BY <1>11 DEF Copying
  <2>1. On(d)' = <<>> /\ Whole(d)' /\ ram.off[d] = 0 /\ St(d)' = XDST /\ flash'[d].mode = CDST
    BY <1>2, <1>9, <1>10, EmptySeq DEF Empty, Whole
  <2>2. Used(s, o) <= Cap /\ Used(s, o) \in Int
    <3>1. o = 0 \/ o \in 1..Len(On(s))
      BY <1>6, <1>9 DEF Whole
    <3>2. QED BY <1>1, <3>1, Sizes, NvAssumption
  <2>3. /\ \A p \in Pages : p = d => Used(p, 0)' = 0
        /\ \A p \in Pages : p = s => Used(p, o)' = Used(s, o)
    BY <1>10 DEF Used, On
  <2>4. x'.cur = x'.src /\ Used(x.dst, ram.off[x.dst])' + Used(x.src, x.pos)' <= Cap
    <3>1. Used(x.dst, ram.off[x.dst])' = 0
      BY <1>2, <1>8, <2>1 DEF Used
    <3>2. Used(x.src, x.pos)' = Used(s, o)
      BY <1>8, <2>3 DEF Used
    <3>3. QED BY <1>8, <2>2, <3>1, <3>2
  <2>5. CopiesOnly' /\ CopiesOnce'
    <3>1. Len(On(x.dst)') = 0
      BY <1>8, <2>1, EmptySeq DEF On
    <3>2. QED BY <3>1 DEF CopiesOnly, CopiesOnce
  <2>6. CopiesAll'
    <3>1. ASSUME NEW p \in Pages, NEW i \in 1..ram.off[p]
          PROVE  ~Passed(p, i)'
      <4>1. ~(Dist(s, p) < Dist(s, s))
        BY <1>5, RingFacts
      <4>2. p = s => ~(i > o)
        BY <1>6
      <4>3. QED BY <1>8, <4>1, <4>2 DEF Passed
    <3>2. QED BY <1>2, <3>1 DEF CopiesAll
  <2>7. o <= ram.off[s] /\ Dist(s, s) < x.srcPages
    BY <1>5, <1>6
  <2>8. Whole(x.dst)' /\ St(x.dst)' = XDST /\ flash'[x'.dst].mode = CDST
    BY <1>8, <2>1 DEF Whole, St, On
  <2>9. QED BY <1>2, <1>8, <2>4, <2>5, <2>6, <2>7, <2>8 DEF Copying
<1>19. QED BY <1>12, <1>13, <1>14, <1>15, <1>16, <1>17, <1>18 DEF Core

\* Copying ends within the pages to be compacted, before it comes to the destination.
LEMMA CopyStep ==
  ASSUME Core, Copy
  PROVE  Core'
<1> USE DEF NACT, XDST, RDY, ACT, FULL, XSRC, NORMAL, CDST, CDONE, CSRC
<1>1. /\ at = "copy" /\ at \in Filling /\ Typed /\ Unused /\ OneReady /\ Laid
      /\ op # NoCall /\ ~ram.failW /\ Window /\ ~CopyEnds
      /\ ram \in RamType /\ x \in LocalsType /\ at \in Inside /\ flash \in [Pages -> PageType]
  BY DEF Copy, Core, Kinds, Typed, Window, Filling, Inside
<1>2. at' = "copy" /\ UNCHANGED <<op, res, seen, crashes, fails>>
  BY DEF Copy, Quiet
<1>3. PICK d \in Pages : d = x.dst
  BY <1>1 DEF LocalsType
<1>4. PICK s \in Pages : s = x.src
  BY <1>1 DEF LocalsType
<1>5. PICK c \in Pages : c = x.cur
  BY <1>1 DEF LocalsType
<1>6. PICK o \in Nat : o = x.pos
  BY <1>1 DEF LocalsType
<1>7. PICK n \in Nat : n = Len(On(d))
  BY <1>1, Sizes
<1>8. /\ d # s /\ d = ram.tail /\ x.left > 0 /\ x.srcPages \in Int /\ Dist(s, s) = 0
      /\ x.srcPages <= x.left /\ x.left <= NP - 1 /\ x.left \in Nat /\ 1 <= x.srcPages
      /\ \A p \in Pages : Dist(s, p) < x.left => p # d
  BY <1>1, <1>3, <1>4, WindowIs DEF Window
<1>9. /\ x.sPage = s /\ Dist(s, c) < x.srcPages /\ o <= ram.off[c] /\ ram.off[d] = n
      /\ flash[d].ofs = NoOffset /\ St(d) = XDST /\ flash[d].mode = CDST
      /\ c = s => Used(d, n) + Used(s, o) <= Cap
      /\ CopiesOnly /\ CopiesOnce /\ CopiesAll
  BY <1>1, <1>3, <1>4, <1>5, <1>6, <1>7 DEF Core, Copying, Whole
<1>10. /\ \A p \in Pages \ {d} : St(p) # XDST /\ (p # s => Whole(p)) /\ (St(p) = XSRC <=> p = s)
       /\ ~Whole(s) => x.nBytes = 0 /\ ram.off[s] <= Len(On(s))
  BY <1>1, <1>3, <1>4 DEF Core, AtFilling
<1>11. c # d /\ Dist(s, c) \in Nat /\ ram.off[c] \in Nat
  <2>1. Dist(s, c) \in Nat
    BY RingFacts
  <2>2. c # d
    BY <1>8, <1>9, <2>1
  <2>3. ram.off[c] \in Nat
    BY <1>1 DEF RamType
  <2>4. QED BY <2>1, <2>2, <2>3
<1>12. /\ \/ x.nBytes = 0 /\ x.ret = "return" /\ op.kind = "compact"
          \/ x.nBytes = 0 /\ x.ret = "booted" /\ op.kind = "boot"
          \/ x.ret = "compacted" /\ op.kind = "write" /\ x.nBytes = Len(op.val)
       /\ ~x.room
       /\ x.nBytes > 0 => \A p \in Pages \ {ram.tail} : St(p) \notin {ACT, RDY}
  BY <1>1 DEF Core, Purpose
<1>13. at' \in Inside /\ at' # "mark" /\ at \notin Cleaning /\ at' \notin Cleaning /\ at' \in Filling
  BY <1>1, <1>2 DEF Inside, Filling, Cleaning
\* What is left alone by any step that appends at most to the destination.
<1>14. ASSUME flash' \in [Pages -> PageType],
              \A q \in Pages : /\ St(q)' = St(q) /\ flash'[q].mode = flash[q].mode
                               /\ flash'[q].ofs = flash[q].ofs
                               /\ q # d => On(q)' = On(q) /\ ram'.off[q] = ram.off[q],
              ram' \in RamType, ram'.tail = ram.tail, ram'.head = ram.head, ~ram'.failW,
              x' \in LocalsType, x'.src = s, x'.dst = d, x'.left = x.left, x'.skip = x.skip,
              x'.srcPages = x.srcPages, x'.nBytes = x.nBytes, x'.ret = x.ret, x'.room = x.room,
              x'.free = x.free, Laid', Copying'
       PROVE  Core'
  <2>1. Typed'
    BY <1>1, <1>2, <1>14 DEF Typed
  <2>2. Unused' /\ OneReady'
    <3>1. OneReady'
      BY <1>1, <1>14 DEF OneReady
    <3>2. Unused'
      BY <1>1, <1>9, <1>14 DEF Unused
    <3>3. QED BY <3>1, <3>2
  <2>3. AtOff' /\ AtFresh' /\ Visited' /\ Writing' /\ AtRest'
    BY <1>2, NotStarting, NotResting DEF Fresh, Resting, Resuming, Calling
  <2>4. Ring' /\ Kinds'
    <3>1. ram.head = Inc(ram.tail)
      BY <1>1 DEF Core, Ring
    <3>2. QED BY <1>1, <1>2, <1>14, <3>1 DEF Ring, Kinds, Resuming, Fresh
  <2>5. Window'
    BY <1>1, <1>2, <1>3, <1>4, <1>14, <2>2 DEF Window
  <2>6. AtFilling'
    <3>1. \A p \in Pages \ {d} : Whole(p)' <=> Whole(p)
      BY <1>14 DEF Whole
    <3>2. ~Whole(x.src)' => ~Whole(s) /\ ram.off[x.src]' = ram.off[s] /\ Len(On(x.src)') = Len(On(s))
      BY <1>4, <1>8, <1>14 DEF Whole, On
    <3>3. QED BY <1>2, <1>8, <1>10, <1>14, <3>1, <3>2 DEF AtFilling
  <2>7. Purpose'
    BY <1>2, <1>12, <1>14 DEF Purpose, Filling, Cleaning
  <2>8. AtMark' /\ AtSetDst' /\ AtCleaning' /\ AtSetAct'
    BY <1>2 DEF AtMark, AtSetDst, AtCleaning, AtSetAct, Cleaning
  <2>9. Distinct' /\ Faithful'
    <3>1. \A p \in Pages : \A i : /\ InForce(p, i) <=> On(p)[i].active /\ p # d
                                  /\ InForce(p, i)' <=> On(p)'[i].active /\ p # d
      BY <1>1, <1>2, <1>8, <1>14 DEF InForce, Cleaning
    <3>2. \A p \in Pages : Offset(p) = ram.off[p] /\ Offset(p)' = ram'.off[p]
      BY <1>1, <1>2 DEF Offset
    <3>3. Current' = Current
      BY <1>1, <1>2 DEF Current
    <3>4. QED BY <1>14, <3>1, <3>2, <3>3, ItemsKept DEF Core
  <2>10. QED BY <1>14, <2>1, <2>2, <2>3, <2>4, <2>5, <2>6, <2>7, <2>8, <2>9 DEF Core
<1>15. CASE o = 0
  <2>1. PICK i \in Pages : i = Inc(c)
    BY RingFacts
  <2>2. PICK m \in Nat : m = ram.off[i]
    BY <1>1 DEF RamType
  <2>3. x' = [x EXCEPT !.cur = i, !.pos = m] /\ UNCHANGED <<flash, ram>>
    BY <1>5, <1>6, <1>15, <2>1, <2>2 DEF Copy
  <2>4. /\ x' \in LocalsType /\ x'.cur = i /\ x'.pos = m /\ x'.sPage = s
        /\ x'.src = s /\ x'.dst = d /\ x'.left = x.left /\ x'.skip = x.skip
        /\ x'.srcPages = x.srcPages /\ x'.nBytes = x.nBytes /\ x'.ret = x.ret /\ x'.room = x.room
        /\ x'.free = x.free
    BY <1>1, <1>3, <1>4, <1>9, <2>3 DEF LocalsType
  <2>5. c # Add(s, x.srcPages - 1)
    BY <1>1, <1>5, <1>6, <1>9, <1>15 DEF CopyEnds, LastSource
  <2>6. Dist(s, i) = Dist(s, c) + 1 /\ Dist(s, i) < x.srcPages /\ i # s
    <3>1. x.srcPages - 1 \in 0..NP
      BY <1>8, PageInts
    <3>2. Add(s, x.srcPages - 1) = IF s + (x.srcPages - 1) < NP THEN s + (x.srcPages - 1)
                                   ELSE s + (x.srcPages - 1) - NP
      BY <3>1, RingIs
    <3>3. /\ Dist(s, c) = IF c >= s THEN c - s ELSE c + NP - s
          /\ i = IF c = NP - 1 THEN 0 ELSE c + 1
          /\ Dist(s, i) = IF i >= s THEN i - s ELSE i + NP - s
      BY <2>1, RingIs
    <3>4. QED BY <1>8, <1>9, <2>5, <3>2, <3>3, PageInts
  <2>7. \A p \in Pages : \A j \in 1..ram.off[p] : Passed(p, j)' <=> Passed(p, j)
    <3> SUFFICES ASSUME NEW p \in Pages, NEW j \in 1..ram.off[p]
                 PROVE  Passed(p, j)' <=> Passed(p, j)
      OBVIOUS
    <3>1. Passed(p, j) <=> Dist(s, p) < Dist(s, c) \/ p = c
      BY <1>4, <1>5, <1>6, <1>15 DEF Passed
    <3>2. Passed(p, j)' <=> Dist(s, p) < Dist(s, c) + 1
      <4>1. p = i => ~(j > m)
        BY <2>2
      <4>2. QED BY <2>4, <2>6, <4>1 DEF Passed
    <3>3. Dist(s, p) < Dist(s, c) + 1 <=> Dist(s, p) < Dist(s, c) \/ p = c
      <4>1. Dist(s, p) \in Nat /\ (Dist(s, p) = Dist(s, c) => p = c)
        BY RingFacts
      <4>2. QED BY <1>11, <4>1
    <3>4. QED BY <3>1, <3>2, <3>3
  <2>8. Copying'
    <3>1. \A p \in Pages : On(p)' = On(p) /\ ram'.off[p] = ram.off[p] /\ St(p)' = St(p)
                           /\ flash'[p].ofs = flash[p].ofs /\ flash'[p].mode = flash[p].mode
      BY <2>3 DEF On, St
    <3>2. CopiesOnly' /\ CopiesOnce' /\ CopiesAll'
      <4>1. On(x.dst)' = On(x.dst)
        BY <1>3, <2>3, <2>4 DEF On
      <4>2. CopiesOnly'
        BY <1>3, <1>9, <2>4, <2>7, <3>1, <4>1 DEF CopiesOnly
      <4>3. CopiesOnce'
        BY <1>9, <4>1 DEF CopiesOnce
      <4>4. CopiesAll'
        BY <1>3, <1>9, <2>4, <2>7, <3>1, <4>1 DEF CopiesAll
      <4>5. QED BY <4>2, <4>3, <4>4
    <3>3. Whole(x.dst)' /\ St(x.dst)' = XDST /\ flash'[x'.dst].mode = CDST
      BY <1>7, <1>9, <2>3, <2>4 DEF Whole, St, On
    <3>4. x'.cur # x'.src /\ Dist(x'.src, x'.cur) < x'.srcPages /\ x'.pos <= ram'.off[x'.cur]
      BY <2>2, <2>3, <2>4, <2>6
    <3>5. QED BY <2>4, <3>2, <3>3, <3>4 DEF Copying
  <2>9. Laid'
    BY <1>1, <2>3, LaidKept DEF On
  <2>10. \A q \in Pages : /\ St(q)' = St(q) /\ flash'[q].mode = flash[q].mode
                          /\ flash'[q].ofs = flash[q].ofs
                          /\ q # d => On(q)' = On(q) /\ ram'.off[q] = ram.off[q]
    BY <2>3 DEF St, On
  <2>11. flash' \in [Pages -> PageType] /\ ram' \in RamType
         /\ ram'.tail = ram.tail /\ ram'.head = ram.head /\ ~ram'.failW
    BY <1>1, <2>3
  <2>12. QED BY <1>14, <2>4, <2>8, <2>9, <2>10, <2>11
<1>16. CASE o > 0
  <2> DEFINE it == On(c)[o]
  <2>1. /\ o \in 1..ram.off[c] /\ o \in 1..Len(On(c)) /\ it \in Items /\ ~it.torn
        /\ o - 1 \in Nat
    <3>1. o \in 1..ram.off[c]
      BY <1>9, <1>11, <1>16
    <3>2. QED BY <1>1, <1>3, <1>11, <1>16, <3>1, FillingData
  <2>2. PICK m \in Nat : m = o - 1
    BY <2>1
  <2>3. x' = [x EXCEPT !.pos = m]
    BY <1>5, <1>6, <1>16, <2>2 DEF Copy
  <2>4. /\ x' \in LocalsType /\ x'.cur = c /\ x'.pos = m /\ x'.sPage = s
        /\ x'.src = s /\ x'.dst = d /\ x'.left = x.left /\ x'.skip = x.skip
        /\ x'.srcPages = x.srcPages /\ x'.nBytes = x.nBytes /\ x'.ret = x.ret /\ x'.room = x.room
        /\ x'.free = x.free
    BY <1>1, <1>3, <1>4, <1>5, <1>9, <2>3 DEF LocalsType
  <2>5. \A p \in Pages : \A j \in Int : Passed(p, j)' <=> Passed(p, j) \/ (p = c /\ j = o)
    BY <1>4, <1>5, <1>6, <2>2, <2>4 DEF Passed
  <2>6. CASE ~it.active
    <3>1. UNCHANGED <<flash, ram>>
      BY <1>5, <1>6, <1>16, <2>1, <2>6 DEF Copy, On
    <3>2. \A p \in Pages : \A j \in 1..ram.off[p] : On(p)[j].active => (Passed(p, j)' <=> Passed(p, j))
      <4>1. \A p \in Pages : \A j \in 1..ram.off[p] : j \in Int
        OBVIOUS
      <4>2. QED BY <2>5, <2>6, <4>1
    <3>3. \A p \in Pages : On(p)' = On(p) /\ ram'.off[p] = ram.off[p] /\ St(p)' = St(p)
                           /\ flash'[p].ofs = flash[p].ofs /\ flash'[p].mode = flash[p].mode
      BY <3>1 DEF On, St
    <3>4. CopiesOnly' /\ CopiesOnce' /\ CopiesAll'
      <4>1. On(x.dst)' = On(x.dst)
        BY <1>3, <2>4, <3>1 DEF On
      <4>2. CopiesOnly'
        BY <1>3, <1>9, <2>4, <3>2, <3>3, <4>1 DEF CopiesOnly
      <4>3. CopiesOnce'
        BY <1>9, <4>1 DEF CopiesOnce
      <4>4. CopiesAll'
        BY <1>3, <1>9, <2>4, <3>2, <3>3, <4>1 DEF CopiesAll
      <4>5. QED BY <4>2, <4>3, <4>4
    <3>5. c = s => Used(x.dst, ram.off[x.dst])' + Used(x.src, x.pos)' <= Cap
      <4>1. ASSUME c = s
            PROVE  Used(s, m) <= Used(s, o) /\ Used(s, m) \in Int /\ Used(s, o) \in Int /\ Used(d, n) \in Int
        <5>1. Used(s, o) = Used(s, m) + Len(it.val)
          <6>1. On(s)[o].end = Used(s, o - 1) + Len(On(s)[o].val) /\ Used(s, o) = On(s)[o].end
            BY <1>1, <2>1, <4>1, Sizes DEF Laid
          <6>2. QED BY <2>2, <4>1, <6>1
        <5>2. Len(it.val) \in 1..Cap /\ Used(s, o) \in 1..Cap
          BY <1>1, <2>1, <4>1, Sizes
        <5>3. m = 0 \/ m \in 1..Len(On(s))
          BY <2>1, <2>2, <4>1
        <5>4. Used(s, m) \in Int
          BY <1>1, <5>3, Sizes
        <5>5. n = 0 \/ n \in 1..Len(On(d))
          BY <1>7
        <5>6. Used(d, n) \in Int
          BY <1>1, <5>5, Sizes
        <5>7. QED BY <5>1, <5>2, <5>4, <5>6
      <4>2. Used(x.dst, ram.off[x.dst])' = Used(d, n) /\ Used(x.src, x.pos)' = Used(s, m)
        BY <1>9, <2>4, <3>1 DEF Used
      <4>3. QED BY <1>9, <4>1, <4>2, NvAssumption
    <3>6. Whole(x.dst)' /\ St(x.dst)' = XDST /\ flash'[x'.dst].mode = CDST
      BY <1>7, <1>9, <2>4, <3>1 DEF Whole, St, On
    <3>7. m <= ram'.off[c]
      BY <1>9, <1>11, <2>2, <3>1
    <3>8. Copying'
      BY <1>9, <2>4, <3>4, <3>5, <3>6, <3>7 DEF Copying
    <3>9. Laid'
      BY <1>1, <3>1, LaidKept DEF On
    <3>10. flash' \in [Pages -> PageType] /\ ram' \in RamType
           /\ ram'.tail = ram.tail /\ ram'.head = ram.head /\ ~ram'.failW
      BY <1>1, <3>1
    <3>11. QED BY <1>14, <2>4, <3>3, <3>8, <3>9, <3>10
  <2>7. CASE it.active
    <3>1. Put(d, it) /\ ram' = [ram EXCEPT !.off[d] = @ + 1]
      BY <1>3, <1>5, <1>6, <1>16, <2>1, <2>7 DEF Copy, On
    <3>2. it \in [key : Keys, val : Values, active : BOOLEAN, torn : BOOLEAN, end : 0..Cap]
      BY <2>1 DEF Items
    <3>3. Len(it.val) <= Cap - Used(d, n)
      <4>1. ~(Len(it.val) > Room(d))
        BY <1>1, <1>3, <1>5, <1>6, <1>16, <2>1, <2>7 DEF CopyEnds, On
      <4>2. Room(d) = Cap - Used(d, n)
        BY <1>9 DEF Room
      <4>3. Len(it.val) \in Int /\ Used(d, n) \in Int /\ Cap \in Int
        <5>1. n = 0 \/ n \in 1..Len(On(d))
          BY <1>7
        <5>2. QED BY <1>1, <2>1, <5>1, Sizes, NvAssumption
      <4>4. QED BY <4>1, <4>2, <4>3
    <3>4. Used(d, n) \in 0..Cap /\ n <= Used(d, n) /\ Len(it.val) \in 1..Cap
      <4>1. Len(it.val) \in 1..Cap
        BY <1>1, <2>1, Sizes
      <4>2. CASE n = 0
        BY <1>1, <4>1, <4>2, Sizes, NvAssumption
      <4>3. CASE n > 0
        <5>1. n \in 1..Len(On(d))
          BY <1>7, <4>3
        <5>2. n <= On(d)[n].end
          BY <1>1, <5>1 DEF Laid
        <5>3. Used(d, n) = On(d)[n].end /\ Used(d, n) \in 1..Cap
          BY <1>1, <5>1, Sizes
        <5>4. QED BY <4>1, <5>2, <5>3
      <4>4. QED BY <4>2, <4>3
    <3>5. /\ Len(On(d)') = n + 1 /\ n + 1 \in 1..(n + 1)
          /\ \A j \in 1..n : On(d)'[j] = On(d)[j]
          /\ On(d)'[n + 1] = [it EXCEPT !.end = Used(d, n) + Len(it.val)]
          /\ \A j \in 0..n : Used(d, j)' = Used(d, j)
          /\ \A j : j = n + 1 => Used(d, j)' = Used(d, n) + Len(it.val)
          /\ \A q \in Pages : /\ St(q)' = St(q) /\ flash'[q].mode = flash[q].mode
                              /\ flash'[q].ofs = flash[q].ofs
          /\ \A q \in Pages \ {d} : On(q)' = On(q) /\ \A j : Used(q, j)' = Used(q, j)
      <4> HIDE DEF it
      <4>1. QED BY <1>1, <1>7, <3>1, <3>2, PutIs
    <3>6. LET e == On(d)'[n + 1] IN /\ e.key = it.key /\ e.val = it.val /\ e.active /\ ~e.torn
                                    /\ e.end = Used(d, n) + Len(it.val)
      BY <2>1, <2>7, <3>5 DEF Items
    <3>7. flash' \in [Pages -> PageType]
      <4>1. Used(d, Len(On(d))) + Len(it.val) <= Cap
        BY <1>7, <3>3, <3>4, NvAssumption
      <4> HIDE DEF it
      <4>2. QED BY <1>1, <3>1, <3>2, <4>1, PutTyped
    <3>8. /\ ram' \in RamType /\ ram'.tail = ram.tail /\ ram'.head = ram.head /\ ~ram'.failW
          /\ ram'.off[d] = n + 1 /\ \A q \in Pages : q # d => ram'.off[q] = ram.off[q]
      BY <1>1, <1>9, <3>1 DEF RamType
    <3>9. Laid'
      <4>1. ASSUME NEW q \in Pages, NEW i \in 1..Len(On(q)')
            PROVE  /\ On(q)'[i].end = Used(q, i - 1)' + Len(On(q)'[i].val)
                   /\ i <= On(q)'[i].end /\ ~On(q)'[i].torn
        <5>1. CASE q # d
          BY <1>1, <3>5, <4>1, <5>1 DEF Laid
        <5>2. CASE q = d /\ i \in 1..n
          <6>1. i - 1 \in 0..n /\ i \in 1..Len(On(d))
            BY <1>7, <5>2
          <6>2. On(d)'[i] = On(d)[i] /\ Used(d, i - 1)' = Used(d, i - 1)
            BY <3>5, <5>2, <6>1
          <6>3. QED BY <1>1, <5>2, <6>1, <6>2 DEF Laid
        <5>3. CASE q = d /\ i = n + 1
          <6>1. i - 1 = n /\ n \in 0..n
            BY <1>7, <5>3
          <6>2. Used(d, i - 1)' = Used(d, n)
            BY <3>5, <6>1
          <6>3. i <= Used(d, n) + Len(it.val) /\ On(q)'[i] = On(d)'[n + 1]
            BY <3>4, <5>3
          <6>4. QED BY <3>6, <5>3, <6>2, <6>3
        <5>4. QED BY <1>7, <3>5, <4>1, <5>1, <5>2, <5>3
      <4>2. QED BY <4>1 DEF Laid
    <3>10. CopiesOnly'
      <4> SUFFICES ASSUME NEW j \in 1..(n + 1)
                   PROVE  /\ On(d)'[j].active
                          /\ \E p \in Pages \ {d} : \E i \in 1..ram.off[p] :
                               /\ Passed(p, i)' /\ On(p)[i].active
                               /\ On(p)[i].key = On(d)'[j].key
                               /\ On(p)[i].val = On(d)'[j].val
        <5>1. On(x.dst)' = On(d)'
          BY <2>4 DEF On
        <5>2. \A p \in Pages \ {d} : On(p)' = On(p) /\ ram'.off[p] = ram.off[p]
          BY <3>5, <3>8
        <5>3. QED BY <2>4, <3>5, <5>1, <5>2 DEF CopiesOnly
      <4>1. CASE j \in 1..n
        <5>1. PICK p \in Pages \ {d} : \E i \in 1..ram.off[p] :
                               /\ Passed(p, i) /\ On(p)[i].active
                               /\ On(p)[i].key = On(d)[j].key
                               /\ On(p)[i].val = On(d)[j].val
          BY <1>3, <1>7, <1>9, <4>1 DEF CopiesOnly
        <5>2. PICK i \in 1..ram.off[p] : /\ Passed(p, i) /\ On(p)[i].active
                                         /\ On(p)[i].key = On(d)[j].key
                                         /\ On(p)[i].val = On(d)[j].val
          BY <5>1
        <5>3. i \in Int /\ Passed(p, i)'
          BY <2>5, <5>2
        <5>4. On(d)[j].active /\ On(d)'[j] = On(d)[j]
          BY <1>3, <1>7, <1>9, <3>5, <4>1 DEF CopiesOnly
        <5>5. QED BY <5>2, <5>3, <5>4
      <4>2. CASE j = n + 1
        BY <1>11, <2>1, <2>5, <2>7, <3>6, <4>2
      <4>3. QED BY <1>7, <4>1, <4>2
    <3>11. CopiesOnce'
      <4>1. ASSUME NEW j \in 1..n
            PROVE  On(d)[j].key # it.key
        <5>1. PICK p \in Pages \ {d} : \E i \in 1..ram.off[p] :
                               /\ Passed(p, i) /\ On(p)[i].active
                               /\ On(p)[i].key = On(d)[j].key
          BY <1>3, <1>7, <1>9 DEF CopiesOnly
        <5>2. PICK i \in 1..ram.off[p] : /\ Passed(p, i) /\ On(p)[i].active
                                         /\ On(p)[i].key = On(d)[j].key
          BY <5>1
        <5>3. ~(p = c /\ i = o)
          <6>1. ~Passed(c, o)
            BY <1>4, <1>5, <1>6, <1>11 DEF Passed
          <6>2. QED BY <5>2, <6>1
        <5>4. QED BY <1>1, <1>3, <1>11, <2>1, <2>7, <5>2, <5>3, FillingData
      <4>2. \A j \in 1..(n + 1) : j \in 1..n \/ j = n + 1
        BY <1>7
      <4>3. \A i, j \in 1..n : On(d)[i].key = On(d)[j].key => i = j
        BY <1>3, <1>7, <1>9 DEF CopiesOnce
      <4>4. ASSUME NEW i \in 1..(n + 1), NEW j \in 1..(n + 1), On(d)'[i].key = On(d)'[j].key
            PROVE  i = j
        <5>1. CASE i \in 1..n /\ j \in 1..n
          BY <3>5, <4>3, <4>4, <5>1
        <5>2. CASE i \in 1..n /\ j = n + 1
          BY <3>5, <3>6, <4>1, <4>4, <5>2
        <5>3. CASE i = n + 1 /\ j \in 1..n
          BY <3>5, <3>6, <4>1, <4>4, <5>3
        <5>4. QED BY <4>2, <5>1, <5>2, <5>3
      <4>5. On(x.dst)' = On(d)'
        BY <2>4 DEF On
      <4>6. QED BY <3>5, <4>4, <4>5 DEF CopiesOnce
    <3>12. CopiesAll'
      <4> SUFFICES ASSUME NEW p \in Pages \ {d}, NEW i \in 1..ram.off[p], Passed(p, i)', On(p)[i].active
                   PROVE  \E j \in 1..(n + 1) : On(d)'[j].key = On(p)[i].key
        <5>1. On(x.dst)' = On(d)'
          BY <2>4 DEF On
        <5>2. \A p \in Pages \ {d} : On(p)' = On(p) /\ ram'.off[p] = ram.off[p]
          BY <3>5, <3>8
        <5>3. QED BY <2>4, <3>5, <5>1, <5>2 DEF CopiesAll
      <4>1. CASE Passed(p, i)
        <5>1. PICK j \in 1..n : On(d)[j].key = On(p)[i].key
          BY <1>3, <1>7, <1>9, <4>1 DEF CopiesAll
        <5>2. j \in 1..(n + 1) /\ On(d)'[j].key = On(p)[i].key
          BY <3>5, <5>1
        <5>3. QED BY <5>2
      <4>2. CASE p = c /\ i = o
        BY <3>5, <3>6, <4>2
      <4>3. i \in Int
        OBVIOUS
      <4>4. QED BY <2>5, <4>1, <4>2, <4>3
    <3>13. c = s => Used(x.dst, ram.off[x.dst])' + Used(x.src, x.pos)' <= Cap
      <4> SUFFICES ASSUME c = s
                   PROVE  Used(x.dst, ram.off[x.dst])' + Used(x.src, x.pos)' <= Cap
        OBVIOUS
      <4>1. Used(s, o) = Used(s, m) + Len(it.val) /\ Used(s, m) \in Int
        <5>1. On(s)[o].end = Used(s, o - 1) + Len(On(s)[o].val) /\ Used(s, o) = On(s)[o].end
          BY <1>1, <2>1, Sizes DEF Laid
        <5>2. m = 0 \/ m \in 1..Len(On(s))
          BY <2>1, <2>2
        <5>3. Used(s, m) \in Int
          BY <1>1, <5>2, Sizes
        <5>4. QED BY <2>2, <5>1, <5>3
      <4>2. Used(x.dst, ram.off[x.dst])' = Used(d, n) + Len(it.val)
        <5>1. \A j : j = n + 1 => Used(x.dst, ram.off[x.dst])' = Used(d, j)'
          BY <2>4, <3>8 DEF Used
        <5>2. QED BY <3>5, <5>1
      <4>3. Used(x.src, x.pos)' = Used(s, m)
        <5>1. Used(x.src, x.pos)' = Used(s, m)'
          BY <2>4 DEF Used
        <5>2. QED BY <1>8, <3>5, <5>1
      <4>4. QED BY <1>9, <3>4, <4>1, <4>2, <4>3, NvAssumption
    <3>14. Whole(x.dst)' /\ St(x.dst)' = XDST /\ flash'[x'.dst].mode = CDST
      BY <1>9, <2>4, <3>5, <3>8 DEF Whole, St, On
    <3>15. m <= ram'.off[c]
      BY <1>9, <1>11, <2>2, <3>8
    <3>16. Copying'
      BY <1>9, <2>4, <3>10, <3>11, <3>12, <3>13, <3>14, <3>15 DEF Copying
    <3>17. QED BY <1>14, <2>4, <3>5, <3>7, <3>8, <3>9, <3>16
  <2>8. QED BY <2>6, <2>7
<1>17. QED BY <1>15, <1>16
\* Where copying ends is noted on the destination; a page is never left with what could
\* have been copied to an empty one.
LEMMA CopyDoneStep ==
  ASSUME Core, CopyDone
  PROVE  Core'
<1> USE DEF NACT, XDST, RDY, ACT, FULL, XSRC, NORMAL, CDST, CDONE, CSRC
<1>1. /\ at = "copy" /\ at \in Filling /\ Typed /\ Unused /\ OneReady /\ Laid
      /\ op # NoCall /\ ~ram.failW /\ Window /\ CopyEnds
      /\ ram \in RamType /\ x \in LocalsType /\ at \in Inside /\ flash \in [Pages -> PageType]
  BY DEF CopyDone, Core, Kinds, Typed, Window, Filling, Inside
<1>2. at' = "setDst" /\ UNCHANGED <<ram, op, res, seen, crashes, fails>>
  BY DEF CopyDone, Quiet, Goto
<1>3. PICK d \in Pages : d = x.dst
  BY <1>1 DEF LocalsType
<1>4. PICK s \in Pages : s = x.src
  BY <1>1 DEF LocalsType
<1>5. PICK c \in Pages : c = x.cur
  BY <1>1 DEF LocalsType
<1>6. PICK o \in Nat : o = x.pos
  BY <1>1 DEF LocalsType
<1>7. PICK n \in Nat : n = Len(On(d))
  BY <1>1, Sizes
<1>8. /\ d # s /\ d = ram.tail /\ x.left > 0 /\ x.srcPages \in Int
      /\ x.srcPages <= x.left /\ x.left <= NP - 1 /\ x.left \in Nat
      /\ \A p \in Pages : Dist(s, p) < x.left => p # d
  BY <1>1, <1>3, <1>4, WindowIs DEF Window
<1>9. /\ x.sPage = s /\ Dist(s, c) < x.srcPages /\ o <= ram.off[c] /\ ram.off[d] = n
      /\ St(d) = XDST /\ flash[d].mode = CDST
      /\ c = s => Used(d, n) + Used(s, o) <= Cap
      /\ Whole(d) /\ CopiesOnly /\ CopiesOnce /\ CopiesAll
  BY <1>1, <1>3, <1>4, <1>5, <1>6, <1>7 DEF Core, Copying, Whole
<1>10. /\ \A p \in Pages \ {d} : St(p) # XDST /\ (p # s => Whole(p)) /\ (St(p) = XSRC <=> p = s)
       /\ ~Whole(s) => x.nBytes = 0 /\ ram.off[s] <= Len(On(s))
  BY <1>1, <1>3, <1>4 DEF Core, AtFilling
<1>11. c # d /\ ram.off[c] \in Nat /\ ram.off[c] <= Len(On(c))
  <2>1. Dist(s, c) \in Nat
    BY RingFacts
  <2>2. c # d
    BY <1>8, <1>9, <2>1
  <2>3. ram.off[c] \in Nat
    BY <1>1 DEF RamType
  <2>4. QED BY <1>1, <1>3, <2>2, <2>3, FillingData
<1>12. o > 0 => o \in 1..Len(On(c)) /\ o \in 1..ram.off[c]
  <2>1. Len(On(c)) \in Nat
    BY <1>1, Sizes
  <2>2. QED BY <1>9, <1>11, <2>1
<1>13. Used(d, n) \in 0..Cap /\ Room(d) = Cap - Used(d, n) /\ Room(d) \in Int
  <2>1. n = 0 \/ n \in 1..Len(On(d))
    BY <1>7
  <2>2. Used(d, n) \in 0..Cap
    BY <1>1, <2>1, Sizes, NvAssumption
  <2>3. QED BY <1>9, <2>2, NvAssumption DEF Room
<1>14. o \in 0..Cap
  <2>1. CASE o = 0
    BY <2>1, NvAssumption
  <2>2. CASE o > 0
    <3>1. o <= On(c)[o].end
      BY <1>1, <1>12, <2>2 DEF Laid
    <3>2. PICK z \in 1..Cap : z = On(c)[o].end
      BY <1>1, <1>12, <2>2, Sizes
    <3>3. QED BY <2>2, <3>1, <3>2, NvAssumption
  <2>3. QED BY <2>1, <2>2
<1>15. c = s => o = 0
  <2> SUFFICES ASSUME c = s, o > 0
               PROVE  FALSE
    OBVIOUS
  <2>1. Used(s, o) \in 1..Cap /\ Used(s, o) >= Len(On(s)[o].val) /\ Len(On(s)[o].val) \in 1..Cap
    <3>1. On(s)[o].end = Used(s, o - 1) + Len(On(s)[o].val)
      BY <1>1, <1>12 DEF Laid
    <3>2. Used(s, o) = On(s)[o].end /\ Used(s, o) \in 1..Cap /\ Len(On(s)[o].val) \in 1..Cap
      BY <1>1, <1>12, Sizes
    <3>3. o - 1 = 0 \/ o - 1 \in 1..Len(On(s))
      BY <1>12
    <3>4. Used(s, o - 1) \in 0..Cap
      BY <1>1, <3>3, Sizes, NvAssumption
    <3>5. QED BY <3>1, <3>2, <3>4
  <2>2. ~On(c)[o].torn
    BY <1>1, <1>12, FillingData
  <2>3. Room(d) = 0 \/ Len(On(c)[o].val) > Room(d)
    <3>1. ~Remnant
      BY <1>5, <1>6, <2>2 DEF Remnant, On
    <3>2. QED BY <1>1, <1>3, <1>5, <1>6, <1>11, <2>2, <3>1 DEF CopyEnds, On
  <2>4. PICK l \in 1..Cap : l = Len(On(s)[o].val)
    BY <2>1
  <2>5. PICK u \in 1..Cap : u = Used(s, o)
    BY <2>1
  <2>6. PICK w \in 0..Cap : w = Used(d, n)
    BY <1>13
  <2>7. w + u <= Cap /\ (Cap - w = 0 \/ l > Cap - w) /\ u >= l
    BY <1>9, <1>13, <2>1, <2>3, <2>4, <2>5, <2>6
  <2>8. QED BY <2>7, NvAssumption
<1>16. flash' = [flash EXCEPT ![d] = [@ EXCEPT !.s = s, !.e = c, !.eOfs = o]]
  BY <1>3, <1>5, <1>6, <1>9, <1>11 DEF CopyDone, LastCopied
<1>17. x' = [x EXCEPT !.free = Room(d)]
  BY <1>3 DEF CopyDone
<1>18. /\ flash' \in [Pages -> PageType]
       /\ \A q \in Pages : /\ On(q)' = On(q) /\ flash'[q].ofs = flash[q].ofs
                           /\ flash'[q].mode = flash[q].mode /\ St(q)' = St(q)
       /\ flash'[d].s = s /\ flash'[d].e = c /\ flash'[d].eOfs = o
  <2>1. flash[d] \in PageType
    BY <1>1
  <2>2. [flash[d] EXCEPT !.s = s, !.e = c, !.eOfs = o] \in PageType
    BY <1>14, <2>1 DEF PageType
  <2>3. QED BY <1>1, <1>16, <2>1, <2>2 DEF On, St, PageType
<1>19. /\ x' \in LocalsType /\ x'.cur = c /\ x'.pos = o /\ x'.sPage = s
       /\ x'.src = s /\ x'.dst = d /\ x'.left = x.left /\ x'.skip = x.skip
       /\ x'.srcPages = x.srcPages /\ x'.nBytes = x.nBytes /\ x'.ret = x.ret /\ x'.room = x.room
       /\ x'.free = Room(d)
  BY <1>1, <1>3, <1>4, <1>5, <1>6, <1>9, <1>13, <1>17 DEF LocalsType
<1>20. at' \in Inside /\ at' # "mark" /\ at \notin Cleaning /\ at' \notin Cleaning /\ at' \in Filling
  BY <1>1, <1>2 DEF Inside, Filling, Cleaning
<1>21. /\ Typed' /\ Laid' /\ AtOff' /\ AtFresh' /\ Ring' /\ Kinds' /\ Visited' /\ Writing'
       /\ Distinct' /\ Faithful' /\ AtRest'
  BY <1>1, <1>2, <1>18, <1>19, <1>20, InsideStep
<1>22. Unused' /\ OneReady'
  BY <1>1, <1>18 DEF Unused, OneReady
<1>23. Window'
  BY <1>1, <1>2, <1>3, <1>4, <1>19, <1>22 DEF Window
<1>24. AtFilling'
  <2>1. \A p \in Pages : Whole(p)' <=> Whole(p)
    BY <1>2, <1>18 DEF Whole
  <2>2. ~Whole(x.src)' => ~Whole(s) /\ ram.off[x.src]' = ram.off[s] /\ Len(On(x.src)') = Len(On(s))
    BY <1>2, <1>4, <1>18, <1>19 DEF Whole, On
  <2>3. QED BY <1>2, <1>8, <1>10, <1>18, <1>19, <2>1, <2>2 DEF AtFilling
<1>25. Purpose'
  <2>1. /\ \/ x.nBytes = 0 /\ x.ret = "return" /\ op.kind = "compact"
           \/ x.nBytes = 0 /\ x.ret = "booted" /\ op.kind = "boot"
           \/ x.ret = "compacted" /\ op.kind = "write" /\ x.nBytes = Len(op.val)
        /\ ~x.room
        /\ x.nBytes > 0 => \A p \in Pages \ {ram.tail} : St(p) \notin {ACT, RDY}
    BY <1>1 DEF Core, Purpose
  <2>2. x.nBytes > 0 => \A p \in Pages \ {ram.tail} : St(p)' \notin {ACT, RDY}
    BY <1>18, <2>1
  <2>3. QED BY <1>2, <1>19, <1>20, <2>1, <2>2 DEF Purpose, Filling, Cleaning
<1>26. AtMark' /\ AtCleaning' /\ AtSetAct'
  BY <1>2, <1>20 DEF AtMark, AtCleaning, AtSetAct
<1>27. \A p \in Pages : \A i : Used(p, i)' = Used(p, i)
  BY <1>18 DEF Used, On
<1>28. AtSetDst'
  <2>1. Room(x.dst)' = Room(d)
    <3>1. Used(d, ram.off[d])' = Used(d, ram.off[d])
      BY <1>2, <1>27
    <3>2. Room(d)' = Room(d)
      BY <3>1 DEF Room
    <3>3. Room(x.dst)' = Room(d)'
      BY <1>19 DEF Room, Used
    <3>4. QED BY <3>2, <3>3
  <2>2. QED BY <1>15, <1>18, <1>19, <2>1 DEF AtSetDst
<1>29. Copying'
  <2>1. On(x.dst)' = On(x.dst) /\ \A p \in Pages : On(p)' = On(p) /\ ram'.off[p] = ram.off[p]
    BY <1>2, <1>3, <1>18, <1>19 DEF On
  <2>2. \A p, i : Passed(p, i)' <=> Passed(p, i)
    BY <1>4, <1>5, <1>6, <1>19 DEF Passed
  <2>3. CopiesOnly'
    BY <1>3, <1>9, <1>19, <2>1, <2>2 DEF CopiesOnly
  <2>4. CopiesOnce'
    BY <1>9, <2>1 DEF CopiesOnce
  <2>5. CopiesAll'
    BY <1>3, <1>9, <1>19, <2>1, <2>2 DEF CopiesAll
  <2>6. c = s => Used(x.dst, ram.off[x.dst])' + Used(x.src, x.pos)' <= Cap
    <3>1. Used(x.dst, ram.off[x.dst])' = Used(d, n)'
      BY <1>2, <1>9, <1>19 DEF Used
    <3>2. Used(x.src, x.pos)' = Used(s, o)'
      BY <1>19 DEF Used
    <3>3. Used(d, n)' = Used(d, n) /\ Used(s, o)' = Used(s, o)
      BY <1>18 DEF Used, On
    <3>4. QED BY <1>9, <3>1, <3>2, <3>3
  <2>7. Whole(x.dst)' /\ St(x.dst)' = XDST /\ flash'[x'.dst].mode = CDST
    BY <1>2, <1>9, <1>18, <1>19 DEF Whole, St, On
  <2>8. QED BY <1>2, <1>9, <1>19, <2>3, <2>4, <2>5, <2>6, <2>7 DEF Copying
<1>30. QED BY <1>21, <1>22, <1>23, <1>24, <1>25, <1>26, <1>28, <1>29 DEF Core
\* From here on the copies count, and what has been copied does not.
LEMMA SetDstStep ==
  ASSUME Core, SetDst
  PROVE  Core'
<1> USE DEF NACT, XDST, RDY, ACT, FULL, XSRC, NORMAL, CDST, CDONE, CSRC
<1>1. /\ at = "setDst" /\ at \in Filling /\ Typed /\ Unused /\ OneReady /\ Laid
      /\ op # NoCall /\ ~ram.failW /\ Window
      /\ ram \in RamType /\ x \in LocalsType /\ at \in Inside /\ flash \in [Pages -> PageType]
  BY DEF SetDst, Core, Kinds, Typed, Window, Filling, Inside
<1>2. at' = "clean" /\ UNCHANGED <<op, res, seen, crashes, fails>>
  BY DEF SetDst, Quiet, Goto
<1>3. PICK d \in Pages : d = x.dst
  BY <1>1 DEF LocalsType
<1>4. PICK s \in Pages : s = x.src
  BY <1>1 DEF LocalsType
<1>5. PICK c \in Pages : c = x.cur
  BY <1>1 DEF LocalsType
<1>6. PICK o \in Nat : o = x.pos
  BY <1>1 DEF LocalsType
<1>7. PICK n \in Nat : n = Len(On(d))
  BY <1>1, Sizes
<1>8. /\ d # s /\ d = ram.tail /\ x.left > 0 /\ x.srcPages \in Int /\ Dist(s, s) = 0
      /\ x.srcPages <= x.left /\ x.left <= NP - 1 /\ x.left \in Nat /\ x.nBytes \in 0..Cap
      /\ \A p \in Pages : Dist(s, p) < x.left => p # d
  BY <1>1, <1>3, <1>4, WindowIs DEF Window
<1>9. /\ Dist(s, c) < x.srcPages /\ o <= ram.off[c] /\ ram.off[d] = n
      /\ St(d) = XDST /\ flash[d].mode = CDST
      /\ Whole(d) /\ CopiesOnly /\ CopiesOnce /\ CopiesAll
  BY <1>1, <1>3, <1>4, <1>5, <1>6, <1>7 DEF Core, Copying, Whole
<1>10. /\ \A p \in Pages \ {d} : St(p) # XDST /\ (p # s => Whole(p)) /\ (St(p) = XSRC <=> p = s)
       /\ flash[d].s = s /\ flash[d].e = c /\ flash[d].eOfs = o /\ x.free = Room(d)
       /\ c = s => o = 0
  BY <1>1, <1>3, <1>4, <1>5, <1>6 DEF Core, AtFilling, AtSetDst
<1>11. /\ c # d /\ ram.off[c] \in Nat /\ ram.off[c] <= Len(On(c)) /\ Len(On(c)) \in Nat
       /\ \A p \in Pages : Dist(s, p) \in Nat /\ (Dist(s, p) = Dist(s, c) => p = c)
       /\ Dist(s, d) > Dist(s, c)
  <2>1. \A p \in Pages : Dist(s, p) \in Nat /\ (Dist(s, p) = Dist(s, c) => p = c)
    BY RingFacts
  <2>2. Dist(s, d) > Dist(s, c)
    <3>1. Dist(s, d) \in Nat /\ Dist(s, c) \in Nat /\ ~(Dist(s, d) < x.left)
      BY <1>8, <2>1
    <3>2. QED BY <1>8, <1>9, <3>1
  <2>3. c # d
    BY <2>1, <2>2
  <2>4. ram.off[c] \in Nat /\ Len(On(c)) \in Nat
    BY <1>1, Sizes DEF RamType
  <2>5. QED BY <1>1, <1>3, <2>1, <2>2, <2>3, <2>4, FillingData
<1>12. /\ \/ x.nBytes = 0 /\ x.ret = "return" /\ op.kind = "compact"
          \/ x.nBytes = 0 /\ x.ret = "booted" /\ op.kind = "boot"
          \/ x.ret = "compacted" /\ op.kind = "write" /\ x.nBytes = Len(op.val)
       /\ ~x.room
       /\ x.nBytes > 0 => \A p \in Pages \ {ram.tail} : St(p) \notin {ACT, RDY}
  BY <1>1 DEF Core, Purpose
<1> DEFINE st  == IF x.free >= Higher(x.nBytes, 1) THEN ACT ELSE FULL
           off == Corrected(ram.off, flash[d])
<1>13. /\ State(d, st)
       /\ ram' = [ram EXCEPT !.act = IF st = ACT THEN d ELSE @, !.off = off]
       /\ x' = [x EXCEPT !.pg = s, !.cleaned = 0, !.room = x.nBytes > 0 /\ x.free >= x.nBytes]
  BY <1>3, <1>10, <1>12 DEF SetDst
<1>14. /\ off \in [Pages -> Nat]
       /\ \A p \in Pages : off[p] = IF p = c THEN o
                                    ELSE IF Dist(s, p) <= Dist(s, c) THEN 0 ELSE ram.off[p]
  <2>1. ram.off \in [Pages -> Nat]
    BY <1>1 DEF RamType
  <2>2. \A p \in Pages : p \in Span(s, c) <=> Dist(s, p) <= Dist(s, c)
    BY DEF Span, Dist
  <2>3. \A p \in Pages : off[p] = IF p = c THEN o ELSE IF p \in Span(s, c) THEN 0 ELSE ram.off[p]
    BY <1>10 DEF Corrected
  <2>4. DOMAIN off = Pages /\ off = [p \in Pages |-> off[p]]
    BY DEF Corrected
  <2>5. \A p \in Pages : off[p] \in Nat
    BY <2>1, <2>3
  <2> HIDE DEF off
  <2>6. QED BY <2>2, <2>3, <2>4, <2>5
<1>15. st \in {ACT, FULL}
  OBVIOUS
<1> HIDE DEF st, off
<1>16. /\ ram' \in RamType /\ ram'.tail = ram.tail /\ ram'.head = ram.head /\ ~ram'.failW
       /\ ram'.off = off
  BY <1>1, <1>13, <1>14 DEF RamType
<1>17. /\ x' \in LocalsType /\ x'.pg = s /\ x'.cleaned = 0 /\ x'.src = s /\ x'.dst = d
       /\ x'.left = x.left /\ x'.skip = x.skip /\ x'.srcPages = x.srcPages
       /\ x'.nBytes = x.nBytes /\ x'.ret = x.ret /\ x'.free = x.free
       /\ x'.room = (x.nBytes > 0 /\ x.free >= x.nBytes)
  <2>1. PICK g \in 0..NP : g = s
    BY PageInts
  <2>2. PICK z \in Nat : z = 0
    OBVIOUS
  <2>3. PICK b \in BOOLEAN : b = (x.nBytes > 0 /\ x.free >= x.nBytes)
    OBVIOUS
  <2>4. x' = [x EXCEPT !.pg = g, !.cleaned = z, !.room = b]
    BY <1>13, <2>1, <2>2, <2>3
  <2>5. /\ x' \in LocalsType /\ x'.pg = g /\ x'.cleaned = z /\ x'.src = x.src /\ x'.dst = x.dst
        /\ x'.left = x.left /\ x'.skip = x.skip /\ x'.srcPages = x.srcPages
        /\ x'.nBytes = x.nBytes /\ x'.ret = x.ret /\ x'.free = x.free /\ x'.room = b
    BY <1>1, <2>4 DEF LocalsType
  <2>6. QED BY <1>3, <1>4, <2>1, <2>2, <2>3, <2>5
<1>18. /\ flash' \in [Pages -> PageType]
       /\ \A q \in Pages : /\ On(q)' = On(q) /\ flash'[q].ofs = flash[q].ofs
                           /\ flash'[q].mode = flash[q].mode
                           /\ flash'[q].e = flash[q].e
                           /\ St(q)' = IF q = d THEN st ELSE St(q)
  <2>1. st \in NACT..XSRC /\ Higher(XDST, st) = st
    BY <1>15 DEF Higher
  <2>2. \A q \in Pages : /\ St(q)' = IF q = d THEN Higher(St(q), st) ELSE St(q)
                         /\ flash'[q].mode = flash[q].mode
    BY <1>1, <1>13, StateIs
  <2>3. \A q \in Pages : On(q)' = On(q) /\ flash'[q].ofs = flash[q].ofs /\ flash'[q].e = flash[q].e
    BY <1>1, <1>13, StateKeeps
  <2>4. flash' \in [Pages -> PageType]
    BY <1>1, <1>13, <2>1, StateTyped
  <2>5. QED BY <1>9, <2>1, <2>2, <2>3, <2>4
<1>19. at' \in Inside /\ at' # "mark" /\ at \notin Cleaning /\ at' \in Cleaning
       /\ at' \notin Filling /\ at' \notin Resting
  BY <1>1, <1>2 DEF Inside, Filling, Cleaning, Resting, Resuming, Calling
<1>20. Typed'
  BY <1>1, <1>2, <1>16, <1>17, <1>18, <1>19 DEF Typed
<1>21. Laid'
  BY <1>1, <1>18, LaidKept
<1>22. Unused' /\ OneReady'
  BY <1>1, <1>15, <1>18 DEF Unused, OneReady
<1>23. AtOff' /\ AtFresh' /\ Visited' /\ Writing' /\ AtRest'
  BY <1>2, NotStarting, NotResting DEF Fresh, Resting, Resuming, Calling
<1>24. Ring' /\ Kinds'
  <2>1. ram.head = Inc(ram.tail)
    BY <1>1 DEF Core, Ring
  <2>2. QED BY <1>1, <1>2, <1>16, <2>1 DEF Ring, Kinds, Resuming, Fresh
<1>25. Purpose'
  <2>1. x.nBytes > 0 => \A p \in Pages \ {ram.tail} : St(p)' \notin {ACT, RDY}
    BY <1>8, <1>12, <1>18
  <2>2. QED BY <1>2, <1>12, <1>16, <1>17, <1>19, <2>1 DEF Purpose, Filling
<1>26. Window'
  BY <1>1, <1>2, <1>3, <1>4, <1>16, <1>17, <1>22 DEF Window
<1>27. AtMark' /\ AtFilling' /\ Copying' /\ AtSetDst' /\ AtSetAct'
  BY <1>2, <1>19 DEF AtMark, AtFilling, Copying, AtSetDst, AtSetAct
<1>28. AtCleaning'
  <2>1. LastPage' = c
    BY <1>10, <1>17, <1>18 DEF LastPage
  <2>2. off[c] = o /\ o <= Len(On(c)) /\ On(c)' = On(c)
    BY <1>6, <1>9, <1>11, <1>14, <1>18
  <2>3. ASSUME NEW p \in Pages
        PROVE  /\ ~(Dist(s, p) < 0)
               /\ Dist(s, p) < Dist(s, c) => off[p] = 0
               /\ Dist(s, p) > Dist(s, c) => Whole(p)'
               /\ St(p)' # XDST /\ (St(p)' = XSRC => p = s)
    <3>1. ~(Dist(s, p) < 0) /\ (Dist(s, p) < Dist(s, c) => off[p] = 0)
      BY <1>11, <1>14
    <3>2. ASSUME Dist(s, p) > Dist(s, c)
          PROVE  Whole(p)'
      <4>1. Dist(s, p) \in Nat /\ Dist(s, c) \in Nat
        BY <1>11
      <4>2. p # c /\ p # s /\ ~(Dist(s, p) <= Dist(s, c))
        BY <1>8, <3>2, <4>1
      <4>3. off[p] = ram.off[p]
        BY <1>14, <4>2
      <4>4. Whole(p)
        BY <1>9, <1>10, <4>2
      <4>5. QED BY <1>16, <1>18, <4>3, <4>4 DEF Whole
    <3>3. St(p)' # XDST /\ (St(p)' = XSRC => p = s)
      BY <1>10, <1>15, <1>18
    <3>4. QED BY <3>1, <3>2, <3>3
  <2>4. flash'[x'.dst].mode = CDST
    BY <1>9, <1>17, <1>18
  <2>5. x.nBytes = 0 => ~x'.room
    <3>1. x.nBytes = 0 => ~(x.nBytes > 0)
      BY <1>8
    <3>2. x'.room <=> x.nBytes > 0 /\ x.free >= x.nBytes
      BY <1>17
    <3>3. QED BY <3>1, <3>2
  <2>6. Room(x.dst)' = Room(d)
    <3>1. off[d] = ram.off[d]
      BY <1>11, <1>14
    <3>2. \A j : Used(d, j)' = Used(d, j)
      BY <1>18 DEF Used, On
    <3>3. Used(d, ram.off[d])' = Used(d, ram.off[d])
      BY <1>16, <3>1, <3>2
    <3>4. Room(d)' = Room(d)
      BY <3>3 DEF Room
    <3>5. Room(x.dst)' = Room(d)'
      BY <1>17 DEF Room, Used
    <3>6. QED BY <3>4, <3>5
  <2>7. x.nBytes > 0 => /\ x'.room <=> x.free >= x.nBytes
                        /\ St(x.dst)' = IF x'.room THEN ACT ELSE FULL
    <3>1. St(x.dst)' = st
      BY <1>17, <1>18 DEF St
    <3>2. x.nBytes > 0 => Higher(x.nBytes, 1) = x.nBytes
      BY <1>8, NvAssumption DEF Higher
    <3>3. QED BY <1>17, <3>1, <3>2 DEF st
  <2>8. Dist(s, c) >= 0
    BY <1>11
  <2>9. QED BY <1>2, <1>8, <1>9, <1>10, <1>16, <1>17, <2>1, <2>2, <2>3, <2>4, <2>5, <2>6, <2>7, <2>8
            DEF AtCleaning
<1>29. Distinct' /\ Faithful'
  <2>1. \A p \in Pages : Offset(p)' = off[p] /\ On(p)' = On(p)
    BY <1>2, <1>16, <1>18 DEF Offset
  <2>2. \A p \in Pages : \A i : InForce(p, i)' <=> On(p)[i].active
    BY <1>2, <1>18, <1>19 DEF InForce
  <2>3. ASSUME NEW p \in Pages \ {d}, NEW i \in Int
        PROVE  i \in 1..off[p] <=> i \in 1..ram.off[p] /\ ~Passed(p, i)
    <3>1. Passed(p, i) <=> Dist(s, p) < Dist(s, c) \/ (p = c /\ i > o)
      BY <1>4, <1>5, <1>6 DEF Passed
    <3>2. /\ Dist(s, p) \in Nat /\ Dist(s, c) \in Nat /\ (Dist(s, p) = Dist(s, c) => p = c)
          /\ ram.off[p] \in Nat
      BY <1>1, <1>11 DEF RamType
    <3>3. CASE p = c
      <4>1. off[p] = o
        BY <1>14, <3>3
      <4>2. QED BY <1>9, <3>1, <3>2, <3>3, <4>1
    <3>4. CASE p # c /\ Dist(s, p) < Dist(s, c)
      <4>1. off[p] = 0
        BY <1>14, <3>2, <3>4
      <4>2. QED BY <3>1, <3>4, <4>1
    <3>5. CASE p # c /\ Dist(s, p) > Dist(s, c)
      <4>1. off[p] = ram.off[p]
        BY <1>14, <3>2, <3>5
      <4>2. QED BY <3>1, <3>2, <3>5, <4>1
    <3>6. QED BY <3>2, <3>3, <3>4, <3>5
  <2>4. off[d] = n
    BY <1>9, <1>11, <1>14
  <2>5. ASSUME NEW j \in 1..n
        PROVE  \E q \in Pages \ {d} : \E i \in 1..ram.off[q] :
                 /\ Passed(q, i) /\ On(q)[i].active /\ On(q)[i].key = On(d)[j].key
                 /\ On(q)[i].val = On(d)[j].val
    BY <1>3, <1>7, <1>9 DEF CopiesOnly
  <2>6. ASSUME NEW p \in Pages \ {d}, NEW i \in 1..off[p], On(p)[i].active, NEW j \in 1..n
        PROVE  On(d)[j].key # On(p)[i].key
    <3>1. PICK q \in Pages \ {d} : \E k \in 1..ram.off[q] :
             Passed(q, k) /\ On(q)[k].active /\ On(q)[k].key = On(d)[j].key
      BY <2>5
    <3>2. PICK k \in 1..ram.off[q] : Passed(q, k) /\ On(q)[k].active /\ On(q)[k].key = On(d)[j].key
      BY <3>1
    <3>3. i \in 1..ram.off[p] /\ ~Passed(p, i)
      BY <2>3
    <3>4. QED BY <1>1, <1>3, <2>6, <3>2, <3>3, FillingData
  <2>7. ASSUME NEW p \in Pages, NEW q \in Pages, NEW i \in 1..off[p], NEW j \in 1..off[q],
               On(p)[i].active, On(q)[j].active, On(p)[i].key = On(q)[j].key
        PROVE  p = q /\ i = j
    <3>1. CASE p # d /\ q # d
      <4>1. i \in 1..ram.off[p] /\ j \in 1..ram.off[q]
        BY <2>3, <3>1
      <4>2. QED BY <1>1, <1>3, <2>7, <3>1, <4>1, FillingData
    <3>2. CASE p = d /\ q = d
      BY <1>3, <1>7, <1>9, <2>4, <2>7, <3>2 DEF CopiesOnce
    <3>3. CASE p = d /\ q # d
      BY <2>4, <2>6, <2>7, <3>3
    <3>4. CASE p # d /\ q = d
      BY <2>4, <2>6, <2>7, <3>4
    <3>5. QED BY <3>1, <3>2, <3>3, <3>4
  <2>8. Distinct'
    BY <2>1, <2>2, <2>7 DEF Distinct
  <2>9. Current' = seen
    BY <1>2 DEF Current
  <2>10. ASSUME NEW p \in Pages, NEW i \in 1..off[p], On(p)[i].active
         PROVE  seen[On(p)[i].key] = On(p)[i].val
    <3>1. CASE p # d
      <4>1. i \in 1..ram.off[p]
        BY <2>3, <3>1
      <4>2. QED BY <1>1, <1>3, <2>10, <3>1, <4>1, FillingData
    <3>2. CASE p = d
      <4>1. PICK q \in Pages \ {d} : \E j \in 1..ram.off[q] :
              /\ On(q)[j].active /\ On(q)[j].key = On(d)[i].key
              /\ On(q)[j].val = On(d)[i].val
        BY <2>4, <2>5, <3>2
      <4>2. QED BY <1>1, <1>3, <3>2, <4>1, FillingData
    <3>3. QED BY <3>1, <3>2
  <2>11. ASSUME NEW k \in Keys, seen[k] # NoValue
         PROVE  \E p \in Pages : \E i \in 1..off[p] : On(p)[i].active /\ On(p)[i].key = k
    <3>1. PICK p \in Pages \ {d} : \E i \in 1..ram.off[p] : On(p)[i].active /\ On(p)[i].key = k
      BY <1>1, <1>3, <2>11, FillingData
    <3>2. PICK i \in 1..ram.off[p] : On(p)[i].active /\ On(p)[i].key = k
      BY <3>1
    <3>3. CASE Passed(p, i)
      <4>1. PICK j \in 1..n : On(d)[j].key = k
        BY <1>3, <1>7, <1>9, <3>2, <3>3 DEF CopiesAll
      <4>2. On(d)[j].active
        BY <1>3, <1>7, <1>9 DEF CopiesOnly
      <4>3. QED BY <2>4, <4>1, <4>2
    <3>4. CASE ~Passed(p, i)
      <4>1. i \in 1..off[p]
        BY <2>3, <3>4
      <4>2. QED BY <3>2, <4>1
    <3>5. QED BY <3>3, <3>4
  <2>12. Faithful'
    BY <1>2, <2>1, <2>2, <2>9, <2>10, <2>11 DEF Faithful
  <2>13. QED BY <2>8, <2>12
<1>30. QED BY <1>20, <1>21, <1>22, <1>23, <1>24, <1>25, <1>26, <1>27, <1>28, <1>29 DEF Core
\* The next page is one further, up to the end of the ring.
LEMMA NextDist ==
  ASSUME NEW p \in Pages, NEW q \in Pages, Dist(p, q) + 1 < NP
  PROVE  Dist(p, Inc(q)) = Dist(p, q) + 1
<1>1. PICK i \in Pages : i = Inc(q)
  BY RingFacts
<1>2. /\ Dist(p, q) = IF q >= p THEN q - p ELSE q + NP - p
      /\ i = IF q = NP - 1 THEN 0 ELSE q + 1
      /\ Dist(p, i) = IF i >= p THEN i - p ELSE i + NP - p
  BY <1>1, RingIs
<1>3. Dist(p, i) = Dist(p, q) + 1
  BY <1>2, PageInts
<1>4. QED BY <1>1, <1>3

\* A step that cleans one page, not the destination, leaves the items in force alone.
LEMMA CleaningKeeps ==
  ASSUME Core, at \in Cleaning, at' \in Cleaning, NEW g \in Pages, g # x.dst,
         flash' \in [Pages -> PageType], \A q \in Pages \ {g} : flash'[q] = flash[q],
         On(g)' = On(g) \/ (On(g)' = <<>> /\ ram.off[g] = 0),
         St(g)' \in {St(g), NACT, FULL}, St(g)' \in {NACT, RDY} => On(g)' = <<>>,
         x' \in LocalsType, x'.src = x.src, x'.dst = x.dst, x'.left = x.left, x'.skip = x.skip,
         x'.srcPages = x.srcPages, x'.nBytes = x.nBytes, x'.ret = x.ret, x'.room = x.room,
         x'.free = x.free, UNCHANGED <<ram, op, res, seen, crashes, fails>>
  PROVE  /\ Typed' /\ Laid' /\ Unused' /\ AtOff' /\ AtFresh' /\ AtRest' /\ Ring' /\ Purpose'
         /\ AtMark' /\ Window' /\ AtFilling' /\ Copying' /\ AtSetDst' /\ AtSetAct'
         /\ Kinds' /\ Visited' /\ Writing' /\ Distinct' /\ Faithful'
         /\ LastPage' = LastPage /\ Room(x.dst)' = Room(x.dst) /\ St(x.dst)' = St(x.dst)
         /\ flash'[x'.dst].mode = flash[x.dst].mode
<1> USE DEF NACT, XDST, RDY, ACT, FULL, XSRC
<1>1. /\ Typed /\ Unused /\ OneReady /\ Laid /\ op # NoCall /\ ~ram.failW /\ Window
      /\ ram \in RamType /\ x \in LocalsType /\ at \in Inside /\ at' \in Inside
      /\ at' \notin Resting \cup Filling \cup Fresh /\ at \notin Resting \cup Filling \cup Fresh
      /\ at' \notin {"off", "mark", "setAct"} /\ at \notin {"off", "mark", "setAct"}
      /\ at # "loop" /\ at' # "loop"
  BY DEF Core, Kinds, Window, Cleaning, Filling, Inside, Resting, Resuming, Calling, Fresh, Typed
<1>2. PICK d \in Pages : d = x.dst
  BY <1>1 DEF LocalsType
<1>3. d # g /\ d = ram.tail
  BY <1>1, <1>2 DEF Window
<1>4. flash'[d] = flash[d]
  BY <1>3
<1>5. \A q \in Pages \ {g} : On(q)' = On(q) /\ St(q)' = St(q) /\ \A j : Used(q, j)' = Used(q, j)
  BY DEF On, St, Used
<1>6. Typed'
  BY <1>1 DEF Typed
<1>7. Laid'
  <2>1. ASSUME NEW q \in Pages, NEW i \in 1..Len(On(q)')
        PROVE  /\ On(q)'[i].end = Used(q, i - 1)' + Len(On(q)'[i].val)
               /\ i <= On(q)'[i].end /\ ~On(q)'[i].torn
    <3>1. CASE On(q)' = On(q) /\ \A j : Used(q, j)' = Used(q, j)
      <4>1. at # "writeHeader"
        BY <1>1 DEF Resting, Calling
      <4>2. i \in 1..Len(On(q))
        BY <2>1, <3>1
      <4>3. /\ On(q)[i].end = Used(q, i - 1) + Len(On(q)[i].val)
            /\ i <= On(q)[i].end /\ ~On(q)[i].torn
        BY <1>1, <4>1, <4>2 DEF Laid
      <4>4. Used(q, i - 1)' = Used(q, i - 1)
        BY <3>1
      <4>5. QED BY <3>1, <4>3, <4>4
    <3>2. CASE q = g /\ On(g)' = <<>>
      BY <2>1, <3>2, EmptySeq
    <3>3. On(g)' = On(g) => \A j : Used(g, j)' = Used(g, j)
      BY DEF Used, On
    <3>4. QED BY <1>5, <3>1, <3>2, <3>3
  <2>2. QED BY <2>1 DEF Laid
<1>8. Unused' /\ OneReady'
  <2>1. Unused'
    BY <1>1, <1>5 DEF Unused
  <2>2. St(g)' = RDY => St(g) = RDY
    OBVIOUS
  <2>3. OneReady'
    BY <1>1, <1>5, <2>2 DEF OneReady
  <2>4. QED BY <2>1, <2>3
<1>9. AtOff' /\ AtFresh' /\ Visited' /\ Writing' /\ AtRest'
  BY <1>1, NotStarting, NotResting
<1>10. Ring' /\ Kinds'
  <2>1. ram.head = Inc(ram.tail)
    BY <1>1 DEF Core, Ring
  <2>2. QED BY <1>1, <2>1 DEF Ring, Kinds, Resuming, Resting, Calling
<1>11. Purpose'
  <2>1. /\ \/ x.nBytes = 0 /\ x.ret = "return" /\ op.kind = "compact"
           \/ x.nBytes = 0 /\ x.ret = "booted" /\ op.kind = "boot"
           \/ x.ret = "compacted" /\ op.kind = "write" /\ x.nBytes = Len(op.val)
        /\ x.nBytes > 0 => \A p \in Pages \ {ram.tail} : St(p) \notin {ACT, RDY}
    BY <1>1 DEF Core, Purpose
  <2>2. x.nBytes > 0 => \A p \in Pages \ {ram.tail} : St(p)' \notin {ACT, RDY}
    BY <1>3, <1>5, <2>1
  <2>3. QED BY <1>1, <2>1, <2>2 DEF Purpose
<1>12. Window'
  BY <1>1, <1>8 DEF Window
<1>13. AtMark' /\ AtFilling' /\ Copying' /\ AtSetDst' /\ AtSetAct'
  BY <1>1 DEF AtMark, AtFilling, Copying, AtSetDst, AtSetAct, Filling
<1>14. Distinct' /\ Faithful'
  <2>1. \A p \in Pages : Offset(p) = ram.off[p] /\ Offset(p)' = ram.off[p]
    BY <1>1 DEF Offset
  <2>2. \A p \in Pages : \A i : /\ InForce(p, i) <=> On(p)[i].active
                                /\ InForce(p, i)' <=> On(p)'[i].active
    BY <1>1 DEF InForce, Resting, Calling
  <2>3. Current' = Current
    BY <1>1 DEF Current, Resting, Calling
  <2>4. \A p \in Pages : \A i \in 1..ram.off[p] : On(p)' = On(p)
    BY <1>5
  <2>5. QED BY <2>1, <2>2, <2>3, <2>4, ItemsKept DEF Core
<1>15. LastPage' = LastPage
  BY <1>2, <1>4 DEF LastPage
<1>16. Room(x.dst)' = Room(x.dst)
  <2>1. Used(x.dst, ram.off[x.dst])' = Used(x.dst, ram.off[x.dst])
    BY <1>2, <1>4 DEF Used
  <2>2. QED BY <2>1 DEF Room
<1>17. St(x.dst)' = St(x.dst) /\ flash'[x'.dst].mode = flash[x.dst].mode
  BY <1>2, <1>4 DEF St
<1>18. QED BY <1>6, <1>7, <1>8, <1>9, <1>10, <1>11, <1>12, <1>13, <1>14, <1>15, <1>16, <1>17
\* Pages copied are erased in turn; of the last one what was not copied stays.
LEMMA CleanPageStep ==
  ASSUME Core, CleanPage
  PROVE  Core'
<1> USE DEF NACT, XDST, RDY, ACT, FULL, XSRC, NORMAL, CDST, CDONE, CSRC
<1>1. /\ at = "clean" /\ at \in Cleaning /\ Typed /\ Laid /\ Window
      /\ ram \in RamType /\ x \in LocalsType /\ flash \in [Pages -> PageType]
  BY DEF CleanPage, Core, Typed, Cleaning
<1>2. UNCHANGED <<op, res, seen, crashes, fails>>
  BY DEF CleanPage, Quiet
<1>3. PICK d \in Pages : d = x.dst
  BY <1>1 DEF LocalsType
<1>4. PICK s \in Pages : s = x.src
  BY <1>1 DEF LocalsType
<1>5. PICK e \in Pages : e = LastPage
  BY <1>1 DEF Core, AtCleaning
<1>6. PICK g \in Pages : g = x.pg
  BY <1>1 DEF Core, AtCleaning, Cleaning
<1>7. PICK k \in Nat : k = x.cleaned
  BY <1>1 DEF LocalsType
<1>8. /\ x.srcPages <= x.left /\ x.left <= NP - 1 /\ x.left \in Nat /\ x.srcPages \in Int
      /\ \A p \in Pages : Dist(s, p) < x.left => p # d
      /\ Dist(s, s) = 0
  BY <1>1, <1>3, <1>4, WindowIs
<1>9. /\ Dist(s, e) < x.srcPages
      /\ e = s => ram.off[e] = 0
      /\ ram.off[e] <= Len(On(e))
      /\ k = Dist(s, g) /\ k <= Dist(s, e)
      /\ \A p \in Pages :
           /\ Dist(s, p) < k => flash[p] = Erased
           /\ Dist(s, p) < Dist(s, e) => ram.off[p] = 0
           /\ Dist(s, p) > Dist(s, e) => Whole(p)
           /\ St(p) # XDST /\ (St(p) = XSRC => p = s)
      /\ flash[d].mode = CDST
      /\ x.nBytes = 0 => ~x.room
      /\ x.nBytes > 0 => /\ x.room <=> x.free >= x.nBytes
                         /\ St(x.dst) = IF x.room THEN ACT ELSE FULL
                         /\ x.free = Room(x.dst)
  BY <1>1, <1>3, <1>4, <1>5, <1>6, <1>7 DEF Core, AtCleaning
<1>10. /\ \A p \in Pages : Dist(s, p) \in Nat /\ (Dist(s, p) = Dist(s, e) => p = e)
       /\ \A p \in Pages : Dist(s, p) = k => p = g
       /\ ram.off[g] \in Nat /\ ram.off[e] \in Nat
  BY <1>1, <1>9, RingFacts DEF RamType
<1>11. g # d /\ e # d
  <2>1. Dist(s, g) < x.left /\ Dist(s, e) < x.left
    BY <1>8, <1>9, <1>10
  <2>2. QED BY <1>8, <2>1
<1>12. CASE ram.off[g] = 0
  <2>1. /\ Erase(g) /\ x' = [x EXCEPT !.pg = Inc(g), !.cleaned = k + 1]
        /\ at' = IF g = e THEN "cleaned" ELSE "clean"
    BY <1>1, <1>3, <1>5, <1>6, <1>7, <1>12 DEF CleanPage, Goto, LastPage
  <2>2. PICK i \in Pages : i = Inc(g)
    BY RingFacts
  <2>3. PICK c \in Nat : c = k + 1
    OBVIOUS
  <2>4. /\ x' \in LocalsType /\ x'.pg = i /\ x'.cleaned = c /\ x'.src = s /\ x'.dst = d
        /\ x'.left = x.left /\ x'.skip = x.skip /\ x'.srcPages = x.srcPages
        /\ x'.nBytes = x.nBytes /\ x'.ret = x.ret /\ x'.free = x.free /\ x'.room = x.room
    <3>1. PICK j \in 0..NP : j = i
      BY PageInts
    <3>2. x' = [x EXCEPT !.pg = j, !.cleaned = c]
      BY <2>1, <2>2, <2>3, <3>1
    <3>3. /\ x' \in LocalsType /\ x'.pg = j /\ x'.cleaned = c /\ x'.src = x.src /\ x'.dst = x.dst
          /\ x'.left = x.left /\ x'.skip = x.skip /\ x'.srcPages = x.srcPages
          /\ x'.nBytes = x.nBytes /\ x'.ret = x.ret /\ x'.free = x.free /\ x'.room = x.room
      BY <1>1, <3>2 DEF LocalsType
    <3>4. QED BY <1>3, <1>4, <3>1, <3>3
  <2>5. flash' \in [Pages -> PageType] /\ flash' = [flash EXCEPT ![g] = Erased]
    BY <1>1, <2>1, EraseTyped DEF Erase
  <2>6. ram' = ram
    <3>1. ram.off \in [Pages -> Nat] /\ ram' = [ram EXCEPT !.off[g] = 0]
      BY <1>1, <2>1 DEF RamType, Erase
    <3>2. [ram.off EXCEPT ![g] = 0] = ram.off
      BY <1>12, <3>1
    <3>3. QED BY <1>1, <3>1, <3>2 DEF RamType
  <2>7. /\ flash'[g] = Erased /\ \A q \in Pages \ {g} : flash'[q] = flash[q]
        /\ On(g)' = <<>> /\ St(g)' = NACT
    BY <1>1, <2>5 DEF On, St, Erased
  <2>8. at' \in Cleaning
    BY <2>1 DEF Cleaning
  <2>9. /\ Typed' /\ Laid' /\ Unused' /\ AtOff' /\ AtFresh' /\ AtRest' /\ Ring' /\ Purpose'
        /\ AtMark' /\ Window' /\ AtFilling' /\ Copying' /\ AtSetDst' /\ AtSetAct'
        /\ Kinds' /\ Visited' /\ Writing' /\ Distinct' /\ Faithful'
        /\ LastPage' = e /\ Room(x.dst)' = Room(x.dst) /\ St(x.dst)' = St(x.dst)
        /\ flash'[x'.dst].mode = CDST
    <3>1. /\ x'.src = x.src /\ x'.dst = x.dst /\ g # x.dst
          /\ On(g)' = <<>> /\ ram.off[g] = 0 /\ St(g)' \in {St(g), NACT, FULL}
      BY <1>3, <1>4, <1>11, <1>12, <2>4, <2>7
    <3>2. QED BY <1>1, <1>2, <1>3, <1>5, <1>9, <2>4, <2>5, <2>6, <2>7, <2>8, <3>1, CleaningKeeps
  <2>10. AtCleaning'
    <3>1. at' = "clean" => c = Dist(s, i) /\ c <= Dist(s, e)
      <4> SUFFICES ASSUME at' = "clean"
                   PROVE  c = Dist(s, i) /\ c <= Dist(s, e)
        OBVIOUS
      <4>1. Dist(s, g) # Dist(s, e)
        BY <1>10, <2>1
      <4>2. Dist(s, g) + 1 <= Dist(s, e) /\ Dist(s, g) + 1 < NP
        <5>1. /\ Dist(s, g) \in Nat /\ Dist(s, e) \in Nat /\ Dist(s, e) < NP /\ NP \in Nat
              /\ Dist(s, g) <= Dist(s, e)
          BY <1>9, RingFacts
        <5>2. QED BY <4>1, <5>1
      <4>3. QED BY <1>9, <2>2, <2>3, <4>2, NextDist
    <3>2. at' = "cleaned" => c = Dist(s, e) + 1 /\ ram.off[e] = 0
      BY <1>9, <1>12, <2>1, <2>3
    <3>3. ram.off[e] <= Len(On(e)')
      <4>1. CASE e = g
        BY <1>12, <2>7, <4>1, EmptySeq
      <4>2. CASE e # g
        BY <1>9, <2>7, <4>2 DEF On
      <4>3. QED BY <4>1, <4>2
    <3>4. ASSUME NEW p \in Pages
          PROVE  /\ Dist(s, p) < c => flash'[p] = Erased
                 /\ Dist(s, p) < Dist(s, e) => ram.off[p] = 0
                 /\ Dist(s, p) > Dist(s, e) => Whole(p)'
                 /\ St(p)' # XDST /\ (St(p)' = XSRC => p = s)
      <4>1. Dist(s, p) < c => Dist(s, p) < k \/ p = g
        BY <1>10, <2>3
      <4>2. Dist(s, p) < c => flash'[p] = Erased
        BY <1>9, <2>7, <4>1
      <4>3. Dist(s, p) > Dist(s, e) => Whole(p)'
        <5>1. Dist(s, p) > Dist(s, e) => p # g
          BY <1>9, <1>10
        <5>2. QED BY <1>9, <2>6, <2>7, <5>1 DEF Whole, On
      <4>4. St(p)' # XDST /\ (St(p)' = XSRC => p = s)
        BY <1>9, <2>7 DEF St
      <4>5. QED BY <1>9, <4>2, <4>3, <4>4
    <3>5. at' # "cleanFull" /\ at' \in {"clean", "cleaned"}
      BY <2>1
    <3>6. On(LastPage)' = On(e)'
      BY <2>9 DEF On
    <3>7. x.nBytes > 0 => /\ x'.room <=> x'.free >= x'.nBytes
                          /\ St(x.dst)' = IF x'.room THEN ACT ELSE FULL
                          /\ x'.free = Room(x.dst)'
      BY <1>9, <2>4, <2>9
    <3>8. QED BY <1>9, <2>4, <2>6, <2>9, <3>1, <3>2, <3>3, <3>4, <3>5, <3>6, <3>7 DEF AtCleaning
  <2>11. QED BY <2>9, <2>10 DEF Core
<1>13. CASE ram.off[g] # 0
  <2>1. Dist(s, g) = Dist(s, e) /\ g = e /\ e # s /\ ram.off[g] > 0
    <3>1. ~(Dist(s, g) < Dist(s, e))
      BY <1>9, <1>13
    <3>2. Dist(s, g) = Dist(s, e)
      BY <1>9, <1>10, <3>1
    <3>3. QED BY <1>9, <1>10, <1>13, <3>2
  <2>2. PICK o \in 0..Cap : o = ram.off[g]
    <3>1. ram.off[g] \in 1..Len(On(g))
      <4>1. Len(On(g)) \in Nat
        BY <1>1, Sizes
      <4>2. QED BY <1>9, <1>10, <2>1, <4>1
    <3>2. PICK y \in Nat : y = ram.off[g]
      BY <1>10
    <3>3. y <= On(g)[y].end
      BY <1>1, <3>1, <3>2 DEF Laid
    <3>4. PICK z \in 1..Cap : z = On(g)[y].end
      BY <1>1, <3>1, <3>2, Sizes
    <3>5. y \in 0..Cap
      BY <3>3, <3>4, NvAssumption
    <3>6. QED BY <3>2, <3>5
  <2>3. /\ flash' = [flash EXCEPT ![g].ofs = o] /\ ram' = ram
        /\ \/ at' = "cleanFull" /\ x' = x
           \/ at' = "cleaned" /\ x' = [x EXCEPT !.pg = Inc(g)]
    BY <1>1, <1>3, <1>5, <1>6, <1>13, <2>1, <2>2 DEF CleanPage, Goto, LastPage
  <2>4. /\ x' \in LocalsType /\ (at' = "cleanFull" => x'.pg = g) /\ x'.cleaned = k
        /\ x'.src = s /\ x'.dst = d
        /\ x'.left = x.left /\ x'.skip = x.skip /\ x'.srcPages = x.srcPages
        /\ x'.nBytes = x.nBytes /\ x'.ret = x.ret /\ x'.free = x.free /\ x'.room = x.room
    <3>1. CASE at' = "cleanFull" /\ x' = x
      BY <1>1, <1>3, <1>4, <1>6, <1>7, <3>1
    <3>2. CASE at' = "cleaned" /\ x' = [x EXCEPT !.pg = Inc(g)]
      <4>1. PICK j \in 0..NP : j = Inc(g)
        <5>1. PICK i \in Pages : i = Inc(g)
          BY RingFacts
        <5>2. QED BY <5>1, PageInts
      <4>2. x' = [x EXCEPT !.pg = j]
        BY <3>2, <4>1
      <4>3. QED BY <1>1, <1>3, <1>4, <1>7, <3>2, <4>2 DEF LocalsType
    <3>3. QED BY <2>3, <3>1, <3>2
  <2>5. /\ flash' \in [Pages -> PageType] /\ \A q \in Pages \ {g} : flash'[q] = flash[q]
        /\ On(g)' = On(g) /\ St(g)' = St(g)
    <3>1. flash[g] \in PageType
      BY <1>1
    <3>2. [flash[g] EXCEPT !.ofs = o] \in PageType
      BY <3>1 DEF PageType
    <3>3. QED BY <1>1, <2>3, <3>1, <3>2 DEF On, St, PageType
  <2>6. at' \in Cleaning
    BY <2>3 DEF Cleaning
  <2>7. /\ Typed' /\ Laid' /\ Unused' /\ AtOff' /\ AtFresh' /\ AtRest' /\ Ring' /\ Purpose'
        /\ AtMark' /\ Window' /\ AtFilling' /\ Copying' /\ AtSetDst' /\ AtSetAct'
        /\ Kinds' /\ Visited' /\ Writing' /\ Distinct' /\ Faithful'
        /\ LastPage' = e /\ Room(x.dst)' = Room(x.dst) /\ St(x.dst)' = St(x.dst)
        /\ flash'[x'.dst].mode = CDST
    <3>1. /\ x'.src = x.src /\ x'.dst = x.dst /\ g # x.dst
          /\ St(g)' \in {St(g), NACT, FULL} /\ (St(g)' \in {NACT, RDY} => On(g)' = <<>>)
      BY <1>1, <1>3, <1>4, <1>11, <2>4, <2>5 DEF Core, Unused
    <3>2. QED BY <1>1, <1>2, <1>3, <1>5, <1>9, <2>3, <2>4, <2>5, <2>6, <3>1, CleaningKeeps
  <2>8. AtCleaning'
    <3>1. at' = "cleanFull" => /\ x'.pg = e /\ ram.off[e] > 0 /\ k = Dist(s, e) /\ e \in Pages
                               /\ k <= Dist(s, e)
      BY <1>9, <2>1, <2>4
    <3>2. at' = "cleaned" => k = Dist(s, e) /\ ram.off[e] # 0
      BY <1>9, <1>13, <2>1
    <3>3. ram.off[e] <= Len(On(e)')
      BY <1>9, <2>1, <2>5
    <3>4. ASSUME NEW p \in Pages
          PROVE  /\ Dist(s, p) < k => flash'[p] = Erased
                 /\ Dist(s, p) < Dist(s, e) => ram.off[p] = 0
                 /\ Dist(s, p) > Dist(s, e) => Whole(p)'
                 /\ St(p)' # XDST /\ (St(p)' = XSRC => p = s)
      <4>1. (Dist(s, p) < k => p # g) /\ (Dist(s, p) > Dist(s, e) => p # g)
        BY <1>9, <1>10, <2>1
      <4>2. Dist(s, p) < k => flash'[p] = Erased
        BY <1>9, <2>5, <4>1
      <4>3. Dist(s, p) > Dist(s, e) => Whole(p)'
        BY <1>9, <2>3, <2>5, <4>1 DEF Whole, On
      <4>4. St(p)' = St(p)
        BY <2>5 DEF St
      <4>5. QED BY <1>9, <4>2, <4>3, <4>4
    <3>5. at' \in {"cleanFull", "cleaned"}
      BY <2>3
    <3>6. On(LastPage)' = On(e)'
      BY <2>7 DEF On
    <3>7. x.nBytes > 0 => /\ x'.room <=> x'.free >= x'.nBytes
                          /\ St(x.dst)' = IF x'.room THEN ACT ELSE FULL
                          /\ x'.free = Room(x.dst)'
      BY <1>9, <2>4, <2>7
    <3>8. QED BY <1>9, <2>1, <2>3, <2>4, <2>7, <3>1, <3>2, <3>3, <3>4, <3>5, <3>6, <3>7 DEF AtCleaning
  <2>9. QED BY <2>7, <2>8 DEF Core
<1>14. QED BY <1>12, <1>13

\* A page in use that keeps items is not written to any more.
LEMMA CleanFullStep ==
  ASSUME Core, CleanFull
  PROVE  Core'
<1> USE DEF NACT, XDST, RDY, ACT, FULL, XSRC, NORMAL, CDST, CDONE, CSRC
<1>1. /\ at = "cleanFull" /\ at \in Cleaning /\ Typed /\ Laid /\ Window
      /\ ram \in RamType /\ x \in LocalsType /\ flash \in [Pages -> PageType]
  BY DEF CleanFull, Core, Typed, Cleaning
<1>2. UNCHANGED <<ram, op, res, seen, crashes, fails>>
  BY DEF CleanFull, Quiet
<1>3. PICK d \in Pages : d = x.dst
  BY <1>1 DEF LocalsType
<1>4. PICK s \in Pages : s = x.src
  BY <1>1 DEF LocalsType
<1>5. PICK e \in Pages : e = LastPage
  BY <1>1 DEF Core, AtCleaning
<1>6. PICK k \in Nat : k = x.cleaned
  BY <1>1 DEF LocalsType
<1>7. /\ x.srcPages <= x.left /\ x.left \in Nat /\ x.srcPages \in Int
      /\ \A p \in Pages : Dist(s, p) < x.left => p # d
  BY <1>1, <1>3, <1>4, WindowIs
<1>8. /\ Dist(s, e) < x.srcPages
      /\ e = s => ram.off[e] = 0
      /\ ram.off[e] <= Len(On(e)) /\ x.pg = e /\ ram.off[e] > 0
      /\ k = Dist(s, e)
      /\ \A p \in Pages :
           /\ Dist(s, p) < k => flash[p] = Erased
           /\ Dist(s, p) < Dist(s, e) => ram.off[p] = 0
           /\ Dist(s, p) > Dist(s, e) => Whole(p)
           /\ St(p) # XDST /\ (St(p) = XSRC => p = s)
      /\ flash[d].mode = CDST
      /\ x.nBytes = 0 => ~x.room
      /\ x.nBytes > 0 => /\ x.room <=> x.free >= x.nBytes
                         /\ St(x.dst) = IF x.room THEN ACT ELSE FULL
                         /\ x.free = Room(x.dst)
  BY <1>1, <1>3, <1>4, <1>5, <1>6 DEF Core, AtCleaning
<1>9. \A p \in Pages : Dist(s, p) \in Nat /\ (Dist(s, p) = Dist(s, e) => p = e)
  BY RingFacts
<1>10. e # d /\ e # s
  <2>1. Dist(s, e) < x.left
    BY <1>7, <1>8, <1>9
  <2>2. e = s => FALSE
    BY <1>8
  <2>3. QED BY <1>7, <2>1, <2>2
<1>11. State(e, FULL) /\ x' = [x EXCEPT !.pg = Inc(e)] /\ at' = "cleaned"
  BY <1>1, <1>3, <1>5, <1>8 DEF CleanFull, Goto, LastPage
<1>12. /\ x' \in LocalsType /\ x'.cleaned = k /\ x'.src = s /\ x'.dst = d
       /\ x'.left = x.left /\ x'.skip = x.skip /\ x'.srcPages = x.srcPages
       /\ x'.nBytes = x.nBytes /\ x'.ret = x.ret /\ x'.free = x.free /\ x'.room = x.room
  <2>1. PICK j \in 0..NP : j = Inc(e)
    <3>1. PICK i \in Pages : i = Inc(e)
      BY RingFacts
    <3>2. QED BY <3>1, PageInts
  <2>2. x' = [x EXCEPT !.pg = j]
    BY <1>11, <2>1
  <2>3. QED BY <1>1, <1>3, <1>4, <1>6, <2>2 DEF LocalsType
<1>13. /\ flash' \in [Pages -> PageType] /\ \A q \in Pages \ {e} : flash'[q] = flash[q]
       /\ On(e)' = On(e) /\ St(e)' = Higher(St(e), FULL)
  <2>1. FULL \in NACT..XSRC
    OBVIOUS
  <2>2. flash' \in [Pages -> PageType]
    BY <1>1, <1>11, <2>1, StateTyped
  <2>3. St(e)' = Higher(St(e), FULL)
    BY <1>1, <1>11, StateIs
  <2>4. QED BY <1>1, <1>11, <2>2, <2>3, StateKeeps
<1>14. St(e)' = FULL
  <2>1. St(e) \in NACT..XSRC /\ St(e) # XSRC
    BY <1>1, <1>8, <1>10 DEF PageType, St
  <2>2. QED BY <1>13, <2>1 DEF Higher
<1>15. at' \in Cleaning
  BY <1>11 DEF Cleaning
<1>16. /\ Typed' /\ Laid' /\ Unused' /\ AtOff' /\ AtFresh' /\ AtRest' /\ Ring' /\ Purpose'
       /\ AtMark' /\ Window' /\ AtFilling' /\ Copying' /\ AtSetDst' /\ AtSetAct'
       /\ Kinds' /\ Visited' /\ Writing' /\ Distinct' /\ Faithful'
       /\ LastPage' = e /\ Room(x.dst)' = Room(x.dst) /\ St(x.dst)' = St(x.dst)
       /\ flash'[x'.dst].mode = CDST
  <2>1. /\ x'.src = x.src /\ x'.dst = x.dst /\ e # x.dst
        /\ St(e)' \in {St(e), NACT, FULL} /\ St(e)' \notin {NACT, RDY}
    BY <1>3, <1>4, <1>10, <1>12, <1>14
  <2>2. QED BY <1>1, <1>2, <1>3, <1>5, <1>8, <1>12, <1>13, <1>15, <2>1, CleaningKeeps
<1>17. AtCleaning'
  <2>1. ASSUME NEW p \in Pages
        PROVE  /\ Dist(s, p) < k => flash'[p] = Erased
               /\ Dist(s, p) > Dist(s, e) => Whole(p)'
               /\ St(p)' # XDST /\ (St(p)' = XSRC => p = s)
    <3>1. (Dist(s, p) < k => p # e) /\ (Dist(s, p) > Dist(s, e) => p # e)
      BY <1>8, <1>9
    <3>2. Dist(s, p) < k => flash'[p] = Erased
      BY <1>8, <1>13, <3>1
    <3>3. Dist(s, p) > Dist(s, e) => Whole(p)'
      BY <1>2, <1>8, <1>13, <3>1 DEF Whole, On
    <3>4. St(p)' # XDST /\ (St(p)' = XSRC => p = s)
      BY <1>8, <1>13, <1>14 DEF St
    <3>5. QED BY <3>2, <3>3, <3>4
  <2>2. ram.off[e] # 0
    BY <1>8
  <2>3. ram.off[LastPage] <= Len(On(e)') /\ On(LastPage)' = On(e)'
    BY <1>5, <1>8, <1>13, <1>16 DEF On
  <2>4. x.nBytes > 0 => /\ x'.room <=> x'.free >= x'.nBytes
                        /\ St(x.dst)' = IF x'.room THEN ACT ELSE FULL
                        /\ x'.free = Room(x.dst)'
    BY <1>8, <1>12, <1>16
  <2>5. QED BY <1>2, <1>5, <1>8, <1>11, <1>12, <1>16, <2>1, <2>2, <2>3, <2>4 DEF AtCleaning
<1>18. QED BY <1>16, <1>17 DEF Core
\* The last page erased becomes the tail, and the pages after it are next.
LEMMA CleanedStep ==
  ASSUME Core, Cleaned
  PROVE  Core'
<1> USE DEF NACT, XDST, RDY, ACT, FULL, XSRC, NORMAL, CDST, CDONE, CSRC
<1>1. /\ at = "cleaned" /\ at \in Cleaning /\ Typed /\ Laid /\ Window /\ Unused /\ OneReady
      /\ op # NoCall /\ ~ram.failW
      /\ ram \in RamType /\ x \in LocalsType /\ flash \in [Pages -> PageType]
  BY DEF Cleaned, Core, Typed, Cleaning, Kinds, Window
<1>2. UNCHANGED <<op, res, seen, crashes, fails>>
  BY DEF Cleaned, Quiet
<1>3. PICK d \in Pages : d = x.dst
  BY <1>1 DEF LocalsType
<1>4. PICK s \in Pages : s = x.src
  BY <1>1 DEF LocalsType
<1>5. PICK e \in Pages : e = LastPage
  BY <1>1 DEF Core, AtCleaning
<1>6. PICK k \in Nat : k = x.cleaned
  BY <1>1 DEF LocalsType
<1>7. PICK sk \in Nat : sk = x.skip
  BY <1>1 DEF LocalsType
<1>8. /\ x.srcPages <= x.left /\ x.left <= NP - 1 /\ x.left \in Nat /\ x.srcPages \in Int
      /\ \A p \in Pages : Dist(s, p) < x.left => p # d
      /\ Dist(s, s) = 0 /\ d = ram.tail /\ x.nBytes \in 0..Cap
      /\ s = Add(d, sk + 1) /\ sk + 1 + x.left <= NP
      /\ x.nBytes = 0 => x.srcPages = x.left
      /\ x.nBytes > 0 => x.srcPages = 1
  BY <1>1, <1>3, <1>4, <1>7, WindowIs DEF Window
<1>9. /\ Dist(s, e) < x.srcPages
      /\ e = s => ram.off[e] = 0
      /\ ram.off[e] <= Len(On(e))
      /\ k = IF ram.off[e] = 0 THEN Dist(s, e) + 1 ELSE Dist(s, e)
      /\ \A p \in Pages :
           /\ Dist(s, p) < k => flash[p] = Erased
           /\ Dist(s, p) < Dist(s, e) => ram.off[p] = 0
           /\ Dist(s, p) > Dist(s, e) => Whole(p)
           /\ St(p) # XDST /\ (St(p) = XSRC => p = s)
      /\ flash[d].mode = CDST
      /\ x.nBytes = 0 => ~x.room
      /\ x.nBytes > 0 => /\ x.room <=> x.free >= x.nBytes
                         /\ St(d) = IF x.room THEN ACT ELSE FULL
                         /\ x.free = Room(d)
  BY <1>1, <1>3, <1>4, <1>5, <1>6 DEF Core, AtCleaning
<1>10. /\ \A p \in Pages : Dist(s, p) \in Nat /\ Dist(s, p) < NP /\ (Dist(s, p) = Dist(s, e) => p = e)
       /\ \A p, q \in Pages : Dist(s, p) = Dist(s, q) => p = q
       /\ NP \in Nat
  BY RingFacts
<1>11. /\ x.ret # "recovered"
       /\ \/ x.nBytes = 0 /\ x.ret = "return" /\ op.kind = "compact"
          \/ x.nBytes = 0 /\ x.ret = "booted" /\ op.kind = "boot"
          \/ x.ret = "compacted" /\ op.kind = "write" /\ x.nBytes = Len(op.val)
       /\ x.nBytes > 0 => \A p \in Pages \ {d} : St(p) \notin {ACT, RDY}
  BY <1>1, <1>8 DEF Core, Purpose, LocalsType, Inside
\* How many pages there are to clean, and where the new tail is.
<1>12. 1 <= k /\ k <= x.srcPages /\ (ram.off[e] # 0 => k < x.srcPages)
  <2>1. ram.off[e] # 0 => Dist(s, e) # 0
    <3>1. Dist(s, e) = 0 => e = s
      BY <1>8, <1>10
    <3>2. QED BY <1>9, <3>1
  <2>2. Dist(s, e) \in Nat
    BY <1>10
  <2>3. QED BY <1>8, <1>9, <2>1, <2>2
<1>13. x.nBytes > 0 => ram.off[e] = 0 /\ k = 1
  BY <1>8, <1>12
<1>14. PICK t \in Pages : t = Add(d, k + sk)
  <2>1. k + sk \in 0..NP
    BY <1>8, <1>10, <1>12
  <2>2. QED BY <2>1, RingFacts
<1>15. Dist(s, t) = k - 1
  <2>1. k + sk \in 0..NP /\ sk + 1 \in 0..NP /\ k + sk < NP
    BY <1>8, <1>10, <1>12
  <2>2. /\ t = IF d + (k + sk) < NP THEN d + (k + sk) ELSE d + (k + sk) - NP
        /\ s = IF d + (sk + 1) < NP THEN d + (sk + 1) ELSE d + (sk + 1) - NP
        /\ Dist(s, t) = IF t >= s THEN t - s ELSE t + NP - s
    BY <1>8, <1>14, <2>1, RingIs
  <2>3. QED BY <1>12, <2>1, <2>2, PageInts
<1>16. t # d /\ flash[t] = Erased /\ ram.off[t] = 0
  <2>1. Dist(s, t) < x.left /\ Dist(s, t) < k
    BY <1>8, <1>12, <1>15
  <2>2. ram.off[t] = 0
    <3>1. CASE ram.off[e] = 0
      <4>1. Dist(s, t) = Dist(s, e)
        BY <1>9, <1>10, <1>15, <3>1
      <4>2. QED BY <1>10, <3>1, <4>1
    <3>2. CASE ram.off[e] # 0
      <4>1. Dist(s, t) < Dist(s, e)
        BY <1>9, <1>10, <1>15, <3>2
      <4>2. QED BY <1>9, <4>1
    <3>3. QED BY <3>1, <3>2
  <2>3. QED BY <1>8, <1>9, <2>1, <2>2
<1>17. PICK n \in Pages : n = IF ram.off[e] = 0 THEN Inc(e) ELSE e
  BY RingFacts
<1>18. n = Inc(t)
  <2>1. CASE ram.off[e] = 0
    <3>1. Dist(s, t) = Dist(s, e)
      BY <1>9, <1>10, <1>15, <2>1
    <3>2. QED BY <1>10, <1>17, <2>1, <3>1
  <2>2. CASE ram.off[e] # 0
    <3>1. Dist(s, t) + 1 = Dist(s, e) /\ Dist(s, t) + 1 < NP
      BY <1>9, <1>10, <1>15, <2>2
    <3>2. Dist(s, Inc(t)) = Dist(s, e) /\ Inc(t) \in Pages
      BY <3>1, NextDist, RingFacts
    <3>3. QED BY <1>10, <1>17, <2>2, <3>2
  <2>3. QED BY <2>1, <2>2
\* The pages there are now.
<1>19. \A p \in Pages : ram.off[e] = 0 \/ p # e => Whole(p)
  <2> SUFFICES ASSUME NEW p \in Pages, ram.off[e] = 0 \/ p # e
               PROVE  Whole(p)
    OBVIOUS
  <2>1. CASE Dist(s, p) > Dist(s, e)
    BY <1>9, <2>1
  <2>2. CASE Dist(s, p) <= Dist(s, e)
    <3>1. Dist(s, p) < k
      <4>1. ram.off[e] # 0 => Dist(s, p) < Dist(s, e)
        BY <1>10, <2>2
      <4>2. QED BY <1>9, <1>10, <2>2, <4>1
    <3>2. flash[p] = Erased
      BY <1>9, <3>1
    <3>3. ram.off[p] = 0
      <4>1. Dist(s, p) = Dist(s, e) \/ Dist(s, p) < Dist(s, e)
        BY <1>10, <2>2
      <4>2. p = e \/ ram.off[p] = 0
        BY <1>9, <1>10, <4>1
      <4>3. QED BY <4>2
    <3>4. QED BY <3>2, <3>3, EmptySeq DEF Whole, On, Erased
  <2>3. QED BY <1>10, <2>1, <2>2
<1>20. /\ \A p \in Pages : St(p) # XSRC
       /\ On(t) = <<>> /\ St(t) = NACT /\ flash[t].mode = NORMAL /\ flash[t].ofs = NoOffset
       /\ Whole(t)
  <2>1. flash[s] = Erased
    BY <1>8, <1>9, <1>12
  <2>2. St(s) = NACT
    BY <2>1 DEF St, Erased
  <2>3. On(t) = <<>> /\ St(t) = NACT /\ flash[t].mode = NORMAL /\ flash[t].ofs = NoOffset
    BY <1>16 DEF On, St, Erased
  <2>4. QED BY <1>9, <1>16, <2>2, <2>3, EmptySeq DEF Whole
<1>21. /\ Mode(d, CDONE)
       /\ ram' = [ram EXCEPT !.tail = t, !.head = n]
       /\ x' = [x EXCEPT !.left = @ - k, !.skip = 0, !.dst = t, !.srcPages = @ - k, !.src = n]
       /\ at' = IF x.room THEN "setAct" ELSE "loop"
  <2>1. Add(ram.tail, x.cleaned + x.skip) = t /\ Inc(t) = n
    BY <1>6, <1>7, <1>8, <1>14, <1>18
  <2>2. QED BY <1>3, <1>5, <1>6, <1>11, <1>17, <2>1 DEF Cleaned, Goto, LastPage
<1>22. /\ ram' \in RamType /\ ram'.tail = t /\ ram'.head = n /\ ~ram'.failW /\ ram'.off = ram.off
       /\ ram'.act = ram.act
  BY <1>1, <1>21 DEF RamType
<1>23. /\ x' \in LocalsType /\ x'.left = x.left - k /\ x'.skip = 0 /\ x'.dst = t
       /\ x'.srcPages = x.srcPages - k /\ x'.src = n
       /\ x'.nBytes = x.nBytes /\ x'.ret = x.ret /\ x'.free = x.free /\ x'.room = x.room
  <2>1. PICK l \in Int : l = x.left - k
    BY <1>8
  <2>2. PICK m \in Int : m = x.srcPages - k
    BY <1>8
  <2>3. PICK z \in Nat : z = 0
    OBVIOUS
  <2>4. x' = [x EXCEPT !.left = l, !.skip = z, !.dst = t, !.srcPages = m, !.src = n]
    BY <1>21, <2>1, <2>2, <2>3
  <2>5. /\ x' \in LocalsType /\ x'.left = l /\ x'.skip = z /\ x'.dst = t
        /\ x'.srcPages = m /\ x'.src = n
        /\ x'.nBytes = x.nBytes /\ x'.ret = x.ret /\ x'.free = x.free /\ x'.room = x.room
    BY <1>1, <2>4 DEF LocalsType
  <2>6. QED BY <2>1, <2>2, <2>3, <2>5
<1>24. /\ flash' \in [Pages -> PageType]
       /\ \A q \in Pages : /\ On(q)' = On(q) /\ flash'[q].ofs = flash[q].ofs /\ St(q)' = St(q)
                           /\ q # d => flash'[q].mode = flash[q].mode
  <2>1. CDONE \in NORMAL..CSRC
    OBVIOUS
  <2>2. flash' \in [Pages -> PageType]
    BY <1>1, <1>21, <2>1, ModeTyped
  <2>3. \A q \in Pages : On(q)' = On(q) /\ flash'[q].ofs = flash[q].ofs
    BY <1>1, <1>21, StateKeeps
  <2>4. \A q \in Pages : /\ flash'[q].mode = (IF q = d THEN Higher(flash[q].mode, CDONE)
                                              ELSE flash[q].mode)
                         /\ St(q)' = St(q)
    BY <1>1, <1>21, ModeIs
  <2>5. QED BY <2>2, <2>3, <2>4
<1>25. /\ at' \in {"setAct", "loop"} /\ at' \in Inside /\ at' \notin Cleaning /\ at' \notin Resting
       /\ at' # "mark" /\ at \notin Resting
  BY <1>1, <1>21 DEF Inside, Filling, Cleaning, Resting, Resuming, Calling
<1>26. Typed'
  BY <1>1, <1>2, <1>22, <1>23, <1>24, <1>25 DEF Typed
<1>27. Laid'
  BY <1>1, <1>24, LaidKept
<1>28. Unused' /\ OneReady'
  BY <1>1, <1>24 DEF Unused, OneReady
<1>29. AtOff' /\ AtFresh' /\ Visited' /\ Writing' /\ AtRest'
  BY <1>25, NotStarting, NotResting DEF Fresh
<1>30. Ring' /\ Kinds'
  BY <1>1, <1>2, <1>18, <1>22, <1>25 DEF Ring, Kinds, Resuming, Resting, Calling, Fresh
<1>31. Purpose'
  <2>1. \A p \in Pages : St(p)' = St(p)
    BY <1>24
  <2>2. at' = "loop" => ~x.room
    BY <1>21
  <2>3. ASSUME x.nBytes > 0, at' = "loop"
        PROVE  x.free < x.nBytes /\ \A p \in Pages : St(p)' \notin {ACT, RDY}
    <3>1. St(d) = FULL /\ ~(x.free >= x.nBytes)
      BY <1>9, <2>2, <2>3
    <3>2. x.free \in Int
      BY <1>1 DEF LocalsType
    <3>3. QED BY <1>8, <1>11, <2>1, <2>3, <3>1, <3>2
  <2>4. ASSUME x.nBytes > 0, at' = "setAct"
        PROVE  (\E p \in Pages : St(p)' = ACT) /\ \A p \in Pages : St(p)' = ACT => Room(p)' >= x.nBytes
    <3>1. x.room
      BY <1>21, <2>4
    <3>2. St(d) = ACT /\ Room(d) >= x.nBytes
      BY <1>9, <2>4, <3>1
    <3>3. Room(d)' = Room(d)
      <4>1. \A j : Used(d, j)' = Used(d, j)
        BY <1>24 DEF Used, On
      <4>2. QED BY <1>22, <4>1 DEF Room
    <3>4. QED BY <1>11, <2>1, <2>4, <3>2, <3>3
  <2>5. at' \in {"mark"} \cup Filling => at' = "loop"
    BY <1>25 DEF Filling
  <2>6. QED BY <1>2, <1>11, <1>23, <1>25, <2>2, <2>3, <2>4, <2>5 DEF Purpose
<1>32. Window'
  <2>1. x.left - k >= 0 /\ 0 + 1 + (x.left - k) <= NP
    BY <1>8, <1>10, <1>12
  <2>2. n = Add(t, 0 + 1)
    BY <1>18 DEF Inc
  <2>3. x.nBytes = 0 => x.srcPages - k = x.left - k
    BY <1>8
  <2>4. x.nBytes > 0 => x.srcPages - k \in {0, 1}
    BY <1>8, <1>13
  <2>5. at' \in Filling \cup Cleaning => at' = "loop"
    BY <1>25 DEF Filling
  <2>6. QED BY <1>22, <1>23, <1>28, <2>1, <2>2, <2>3, <2>4, <2>5 DEF Window
<1>33. \A p \in Pages : Whole(p)' <=> Whole(p)
  BY <1>22, <1>24 DEF Whole
<1>34. Empty(t)' /\ St(t)' = NACT
  <2>1. Empty(t)
    BY <1>20 DEF Empty
  <2>2. QED BY <1>16, <1>20, <1>24, <1>33, <2>1 DEF Empty
<1>35. AtFilling'
  <2> SUFFICES ASSUME at' = "loop"
               PROVE  AtFilling'
    BY <1>25 DEF AtFilling, Filling
  <2>1. Empty(x.dst)' /\ St(x.dst)' \in {NACT, XDST}
    BY <1>23, <1>34 DEF Empty, Whole, On, St
  <2>2. \A p \in Pages : p # n => Whole(p)'
    BY <1>17, <1>19, <1>33
  <2>3. ~Whole(n)' => x.left - k > 0 /\ x.nBytes = 0 /\ ram'.off[n] <= Len(On(n)')
    <3> SUFFICES ASSUME ~Whole(n)'
                 PROVE  x.left - k > 0 /\ x.nBytes = 0 /\ ram'.off[n] <= Len(On(n)')
      OBVIOUS
    <3>1. ram.off[e] # 0 /\ n = e
      BY <1>17, <1>19, <1>33
    <3>2. ~(x.nBytes > 0)
      BY <1>13, <3>1
    <3>3. x.nBytes = 0
      BY <1>8, <3>2, NvAssumption
    <3>4. x.left - k > 0
      BY <1>8, <1>12, <3>1
    <3>5. QED BY <1>9, <1>22, <1>24, <3>1, <3>3, <3>4
  <2>4. ~Whole(x.src)' <=> ~Whole(n)'
    BY <1>23 DEF Whole, On
  <2>5. ram.off[x.src]' = ram'.off[n] /\ Len(On(x.src)') = Len(On(n)')
    BY <1>23 DEF On
  <2>6. \A p \in Pages : St(p)' # XDST /\ St(p)' # XSRC
    BY <1>9, <1>20, <1>24
  <2>7. QED BY <1>23, <2>1, <2>2, <2>3, <2>4, <2>5, <2>6 DEF AtFilling
<1>36. AtMark' /\ Copying' /\ AtSetDst' /\ AtCleaning'
  BY <1>25 DEF AtMark, Copying, AtSetDst, AtCleaning
<1>37. AtSetAct'
  <2> SUFFICES ASSUME at' = "setAct"
               PROVE  AtSetAct'
    BY DEF AtSetAct
  <2>1. ram.off[e] = 0
    <3>1. x.room
      BY <1>21
    <3>2. x.nBytes > 0
      BY <1>8, <1>9, <3>1, NvAssumption
    <3>3. QED BY <1>13, <3>2
  <2>2. \A p \in Pages : Whole(p)' /\ St(p)' # XSRC /\ St(p)' # XDST
    BY <1>9, <1>19, <1>20, <1>24, <1>33, <2>1
  <2>3. Empty(ram.tail)' /\ St(ram.tail)' = NACT
    BY <1>22, <1>34 DEF Empty, Whole, On, St
  <2>4. QED BY <1>28, <2>2, <2>3 DEF AtSetAct
<1>38. Distinct' /\ Faithful'
  <2>1. \A p \in Pages : Offset(p) = ram.off[p] /\ Offset(p)' = ram.off[p]
    BY <1>1, <1>22, <1>25 DEF Offset
  <2>2. \A p \in Pages : \A i : /\ InForce(p, i) <=> On(p)[i].active
                                /\ InForce(p, i)' <=> On(p)[i].active /\ p # t
    BY <1>1, <1>22, <1>24, <1>25 DEF InForce, Cleaning
  <2>3. Current' = Current
    BY <1>1, <1>2, <1>25 DEF Current
  <2>4. \A i \in 1..ram.off[t] : FALSE
    BY <1>16
  <2>5. QED BY <1>1, <1>24, <2>1, <2>2, <2>3, <2>4, ItemsKept DEF Core
<1>39. QED BY <1>26, <1>27, <1>28, <1>29, <1>30, <1>31, <1>32, <1>35, <1>36, <1>37, <1>38 DEF Core
\* The end of a compaction: there is a page to write to, and a tail.
LEMMA SetActStep ==
  ASSUME Core, SetAct
  PROVE  Core'
<1> USE DEF NACT, XDST, RDY, ACT, FULL, XSRC
<1>1. /\ at = "setAct" /\ at \in Inside /\ Typed /\ Laid /\ Unused /\ OneReady
      /\ op # NoCall /\ ~ram.failW /\ ram.head = Inc(ram.tail)
      /\ ram \in RamType /\ x \in LocalsType /\ flash \in [Pages -> PageType]
  BY DEF SetAct, Core, Typed, Inside, Kinds, Ring, AtSetAct
<1>2. UNCHANGED <<x, op, res, seen, crashes, fails>>
  BY DEF SetAct, Quiet
<1>3. PICK t \in Pages : t = ram.tail
  BY <1>1 DEF RamType
<1>4. /\ Empty(t) /\ St(t) \in {NACT, XDST}
      /\ \A p \in Pages : Whole(p) /\ St(p) # XSRC /\ (St(p) = XDST => p = t)
  BY <1>1, <1>3 DEF Core, AtSetAct
<1>5. /\ \/ x.nBytes = 0 /\ x.ret = "return" /\ op.kind = "compact"
         \/ x.nBytes = 0 /\ x.ret = "booted" /\ op.kind = "boot"
         \/ x.ret = "compacted" /\ op.kind = "write" /\ x.nBytes = Len(op.val)
      /\ x.nBytes > 0 => /\ x.free >= x.nBytes => \E p \in Pages : St(p) = ACT
                         /\ \A p \in Pages : St(p) = ACT => Room(p) >= x.nBytes
  BY <1>1 DEF Core, Purpose
<1>6. \A st : With(st) \subseteq Pages /\ \A p : p \in With(st) <=> p \in Pages /\ St(p) = st
  BY DEF With, St
<1>7. CASE /\ With(ACT) \cup With(RDY) = {} /\ flash[ram.head].st = NACT
           /\ State(ram.head, RDY) /\ UNCHANGED <<ram, at>>
  <2>1. PICK h \in Pages : h = ram.head
    BY <1>1 DEF RamType
  <2>2. h # t /\ St(h) = NACT
    <3>1. h = IF t = NP - 1 THEN 0 ELSE t + 1
      BY <1>1, <1>3, <2>1, RingIs
    <3>2. QED BY <1>7, <2>1, <3>1, PageInts DEF St
  <2>3. /\ flash' \in [Pages -> PageType]
        /\ \A q \in Pages : /\ On(q)' = On(q) /\ flash'[q].ofs = flash[q].ofs
                            /\ flash'[q].mode = flash[q].mode
                            /\ St(q)' = IF q = h THEN RDY ELSE St(q)
    <3>1. RDY \in NACT..XSRC /\ Higher(NACT, RDY) = RDY
      BY DEF Higher
    <3>2. flash' \in [Pages -> PageType]
      BY <1>1, <1>7, <2>1, <3>1, StateTyped
    <3>3. \A q \in Pages : On(q)' = On(q) /\ flash'[q].ofs = flash[q].ofs
      BY <1>1, <1>7, <2>1, StateKeeps
    <3>4. \A q \in Pages : /\ St(q)' = IF q = h THEN Higher(St(q), RDY) ELSE St(q)
                           /\ flash'[q].mode = flash[q].mode
      BY <1>1, <1>7, <2>1, StateIs
    <3>5. QED BY <2>2, <3>1, <3>2, <3>3, <3>4
  <2>4. /\ Typed' /\ Laid' /\ AtOff' /\ AtFresh' /\ Ring' /\ Kinds' /\ Visited' /\ Writing'
        /\ Distinct' /\ Faithful' /\ AtRest'
    BY <1>1, <1>2, <1>7, <2>3, InsideStep
  <2>5. \A p \in Pages : St(p) \notin {ACT, RDY}
    BY <1>6, <1>7
  <2>6. Unused' /\ OneReady'
    BY <1>1, <2>2, <2>3, <2>5 DEF Unused, OneReady
  <2>7. Purpose'
    <3>1. \A p \in Pages : St(p)' # ACT
      BY <2>3, <2>5
    <3>2. x.nBytes > 0 => ~(x.free >= x.nBytes)
      BY <1>5, <2>5
    <3>3. QED BY <1>1, <1>2, <1>5, <1>7, <3>1, <3>2 DEF Purpose, Filling, Cleaning
  <2>8. AtSetAct'
    <3>1. \A p \in Pages : Whole(p)' /\ St(p)' # XSRC /\ (St(p)' = XDST => p = t)
      BY <1>4, <1>7, <2>3 DEF Whole
    <3>2. On(t)' = <<>> /\ flash'[t].mode = NORMAL /\ St(t)' \in {NACT, XDST}
      BY <1>4, <2>2, <2>3 DEF Empty
    <3>3. Empty(ram.tail)' /\ St(ram.tail)' \in {NACT, XDST}
      <4>1. On(ram.tail)' = On(t)' /\ St(ram.tail)' = St(t)' /\ (Whole(ram.tail)' <=> Whole(t)')
        BY <1>3, <1>7 DEF On, St, Whole
      <4>2. ram'.tail = t
        BY <1>3, <1>7
      <4>3. QED BY <3>1, <3>2, <4>1, <4>2 DEF Empty
    <3>4. QED BY <1>3, <1>7, <2>6, <3>1, <3>3 DEF AtSetAct
  <2>9. AtMark' /\ Window' /\ AtFilling' /\ Copying' /\ AtSetDst' /\ AtCleaning'
    BY <1>1, <1>7 DEF AtMark, Window, AtFilling, Copying, AtSetDst, AtCleaning, Filling, Cleaning
  <2>10. QED BY <2>4, <2>6, <2>7, <2>8, <2>9 DEF Core
<1> DEFINE free == With(ACT) \cup With(RDY)
           a    == IF With(ACT) # {} THEN Min(With(ACT))
                   ELSE IF free # {} THEN Min(free) ELSE Dec(ram.tail)
<1>8. CASE /\ ram' = [ram EXCEPT !.act = a, !.force = FALSE]
           /\ State(ram.tail, XDST) /\ at' = x.ret
  <2>1. a \in Pages /\ (With(ACT) # {} => a \in With(ACT))
    <3>1. With(ACT) # {} => Min(With(ACT)) \in With(ACT)
      BY <1>6, ExtremePages
    <3>2. free # {} => Min(free) \in free
      BY <1>6, ExtremePages
    <3>3. Dec(ram.tail) \in Pages
      BY <1>3, RingFacts
    <3>4. QED BY <1>6, <3>1, <3>2, <3>3
  <2> HIDE DEF a, free
  <2>2. /\ ram' \in RamType /\ ram'.tail = t /\ ram'.head = ram.head /\ ram'.off = ram.off
        /\ ~ram'.failW /\ ram'.act = a
    BY <1>1, <1>3, <1>8, <2>1 DEF RamType
  <2>3. /\ flash' \in [Pages -> PageType]
        /\ \A q \in Pages : /\ On(q)' = On(q) /\ flash'[q].ofs = flash[q].ofs
                            /\ flash'[q].mode = flash[q].mode
                            /\ St(q)' = IF q = t THEN XDST ELSE St(q)
    <3>1. XDST \in NACT..XSRC /\ Higher(NACT, XDST) = XDST /\ Higher(XDST, XDST) = XDST
      BY DEF Higher
    <3>2. flash' \in [Pages -> PageType]
      BY <1>1, <1>3, <1>8, <3>1, StateTyped
    <3>3. \A q \in Pages : On(q)' = On(q) /\ flash'[q].ofs = flash[q].ofs
      BY <1>1, <1>3, <1>8, StateKeeps
    <3>4. \A q \in Pages : /\ St(q)' = IF q = t THEN Higher(St(q), XDST) ELSE St(q)
                           /\ flash'[q].mode = flash[q].mode
      BY <1>1, <1>3, <1>8, StateIs
    <3>5. St(t) = NACT \/ St(t) = XDST
      BY <1>4
    <3>6. QED BY <3>1, <3>2, <3>3, <3>4, <3>5
  <2>4. at' \in {"return", "compacted", "booted"} /\ at' \in Resting /\ at' \notin Inside
        /\ at' \notin {"off"} \cup Fresh /\ at' \notin Cleaning
    BY <1>5, <1>8 DEF Resting, Resuming, Calling, Inside, Filling, Cleaning, Fresh
  <2>5. Typed'
    BY <1>1, <1>2, <2>2, <2>3, <2>4 DEF Typed
  <2>6. Laid'
    BY <1>1, <2>3, LaidKept
  <2>7. Unused'
    BY <1>1, <1>4, <2>3 DEF Unused
  <2>8. AtOff' /\ AtFresh'
    BY <2>4, NotStarting
  <2>9. (Purpose /\ AtMark /\ Window /\ AtFilling /\ Copying /\ AtSetDst /\ AtCleaning /\ AtSetAct)'
    BY <2>4, NotInside
  <2>10. AtRest' /\ Ring'
    <3>1. OneReady'
      BY <1>1, <2>3 DEF OneReady
    <3>2. On(t)' = <<>> /\ flash'[t].mode = NORMAL
      BY <1>4, <2>3 DEF Empty
    <3>3. \A p \in Pages : (St(p)' = XDST <=> p = t) /\ St(p)' # XSRC /\ flash'[p].ofs = NoOffset
      BY <1>4, <2>3 DEF Whole
    <3>4. Settled(ram.tail)'
      BY <2>2, <3>2, <3>3 DEF Settled, On, St
    <3>5. \A p \in Pages : ram'.off[p] = Len(On(p)')
      BY <1>4, <2>2, <2>3 DEF Whole
    <3>6. QED BY <1>1, <1>3, <2>2, <2>4, <3>1, <3>4, <3>5 DEF AtRest, Ring
  <2>11. Kinds'
    <3>1. /\ at' = "return" => op.kind = "compact"
          /\ at' = "booted" => op.kind = "boot"
          /\ at' = "compacted" => op.kind = "write"
      BY <1>5, <1>8
    <3>2. QED BY <1>1, <1>2, <2>2, <2>4, <3>1 DEF Kinds, Fresh, Resuming
  <2>12. Visited' /\ Writing'
    <3>1. at' = "compacted" => x.nBytes = Len(op.val) /\ op.kind = "write"
      BY <1>5, <1>8
    <3>2. ASSUME at' = "compacted", x.free >= Len(op.val)
          PROVE  Fits'
      <4>1. x.nBytes > 0
        <5>1. op.val \in Values
          BY <1>1, <3>1, <3>2, OpIs
        <5>2. Len(op.val) \in 1..Cap
          BY <5>1, NvAssumption
        <5>3. QED BY <3>1, <3>2, <5>2, NvAssumption
      <4>2. a \in With(ACT)
        BY <1>5, <1>6, <2>1, <3>1, <3>2, <4>1
      <4>3. St(a) = ACT /\ a # t /\ Room(a) >= Len(op.val)
        BY <1>4, <1>5, <1>6, <3>1, <3>2, <4>1, <4>2
      <4>4. \A q \in Pages : q = a => Room(q)' = Room(q)
        <5>1. \A q \in Pages : \A j : Used(q, j)' = Used(q, j)
          BY <2>3 DEF Used, On
        <5>2. QED BY <2>2, <5>1 DEF Room
      <4>5. Room(ram.act)' = Room(a) /\ St(ram.act)' = ACT
        <5>1. \A q \in Pages : q = a => Room(ram.act)' = Room(q)' /\ St(ram.act)' = St(q)'
          BY <2>2 DEF Room, Used, St
        <5>2. QED BY <2>1, <2>3, <4>3, <4>4, <5>1
      <4>6. QED BY <1>2, <2>2, <4>3, <4>5 DEF Fits
    <3>3. QED BY <1>2, <2>4, <3>1, <3>2 DEF Visited, Writing
  <2>13. Distinct' /\ Faithful'
    <3>1. \A p \in Pages : Offset(p)' = Offset(p)
      BY <1>1, <2>2, <2>4 DEF Offset
    <3>2. \A p \in Pages : \A i \in 1..Offset(p) : InForce(p, i)' = InForce(p, i)
      BY <1>1, <1>3, <2>2, <2>3, <2>4 DEF InForce, Cleaning
    <3>3. Current' = Current
      <4>1. at' = "return" => Outcome = seen
        BY <1>5, <1>8 DEF Outcome, Map!Applied
      <4>2. Outcome' = Outcome
        BY <1>2 DEF Outcome, Map!Applied, Same
      <4>3. QED BY <1>1, <1>2, <2>4, <4>1, <4>2 DEF Current
    <3>4. QED BY <2>3, <3>1, <3>2, <3>3, DataKept DEF Core
  <2>14. QED BY <2>5, <2>6, <2>7, <2>8, <2>9, <2>10, <2>11, <2>12, <2>13 DEF Core
<1>9. QED BY <1>7, <1>8 DEF SetAct, Goto

\* Power is only lost between calls and while the store starts.
LEMMA CrashStep ==
  ASSUME Core, Crash, Steady'
  PROVE  Core'
<1> USE DEF NACT, XDST, RDY, ACT, FULL, XSRC
<1>1. /\ Typed /\ at' = "off" /\ ram' = Ram0 /\ x' = Locals0
      /\ op' = IF op = NoCall THEN [kind |-> "boot"] ELSE op
      /\ crashes' = crashes + 1 /\ crashes < MaxCrashes /\ crashes \in 0..MaxCrashes
      /\ UNCHANGED <<flash, res, seen, fails>>
  BY DEF Crash, Core, Typed
<1>2. MaxCrashes \in Nat /\ crashes \in Nat /\ crashes + 1 \in 0..MaxCrashes /\ crashes' # 0
  <2>1. MaxCrashes \in Nat
    BY NvAssumption
  <2>2. QED BY <1>1, <2>1
<1>3. at \in {"idle"} \cup Fresh \cup Resuming
  <2>1. Phase \in {"idle", "boot"}
    BY <1>2 DEF Steady, Crash
  <2>2. at # "off"
    BY DEF Crash
  <2>3. at \in {"off"} \cup Fresh \cup Resting \cup Inside
    BY DEF Core, Typed
  <2>4. QED BY <2>1, <2>2, <2>3
            DEF Phase, Fresh, Resting, Resuming, Calling, Inside, Filling, Cleaning
<1>4. Ram0 \in RamType /\ Locals0 \in LocalsType
  <2>1. 0 \in 0..NP /\ 0 \in 0..Cap /\ 0 \in Int /\ 0 \in Nat
    BY NvAssumption
  <2>2. Locals0 \in LocalsType
    BY <2>1, EndPages DEF Locals0, LocalsType
  <2>3. Ram0 \in RamType
    BY <2>1, EndPages DEF Ram0, RamType
  <2>4. QED BY <2>2, <2>3
<1>5. op'.kind = "boot" /\ op' # NoCall /\ op' \in Map!Calls
  <2>1. CASE op = NoCall
    BY <1>1, <2>1 DEF NoCall, Map!Calls
  <2>2. CASE op # NoCall
    <3>1. op.kind = "boot"
      BY <1>3, <2>2 DEF Core, Kinds
    <3>2. QED BY <1>1, <2>2, <3>1 DEF Typed
  <2>3. QED BY <2>1, <2>2
<1>6. Typed'
  BY <1>1, <1>2, <1>4, <1>5 DEF Typed
<1>7. \A p \in Pages : On(p)' = On(p) /\ St(p)' = St(p)
  BY <1>1 DEF On, St
<1>8. Laid' /\ Unused'
  <2>1. at # "writeHeader"
    BY <1>3 DEF Fresh, Resuming
  <2>2. QED BY <1>7, <2>1, LaidKept DEF Core, Unused
<1>9. Virgin \/ \E t \in Pages : Settled(t) /\ OneReady
  <2>1. at \in Fresh => Virgin
    BY DEF Core, AtFresh
  <2>2. at \in Resting => Settled(ram.tail) /\ OneReady /\ ram.tail \in Pages
    BY DEF Core, AtRest, Typed, RamType
  <2>3. QED BY <1>3, <2>1, <2>2 DEF Resting
<1>10. AtOff'
  <2>1. Virgin' <=> Virgin
    BY <1>1 DEF Virgin, On, St
  <2>2. \A t \in Pages : Settled(t)' <=> Settled(t)
    BY <1>1 DEF Settled, On, St
  <2>3. OneReady' <=> OneReady
    BY <1>1 DEF OneReady, St
  <2>4. QED BY <1>1, <1>9, <2>1, <2>2, <2>3 DEF AtOff
<1>11. AtFresh' /\ AtRest' /\ Visited' /\ Writing' /\ Ring'
  BY <1>1, NotResting DEF AtFresh, Fresh, Resting, Resuming, Calling, Ring, Inside, Filling, Cleaning
<1>12. (Purpose /\ AtMark /\ Window /\ AtFilling /\ Copying /\ AtSetDst /\ AtCleaning /\ AtSetAct)'
  BY <1>1, NotInside DEF Inside, Filling, Cleaning
<1>13. Kinds'
  BY <1>1, <1>5 DEF Kinds, Fresh, Resuming, Ram0
<1>14. Distinct' /\ Faithful'
  <2>1. Current' = Current
    BY <1>1, <1>3 DEF Current, Fresh, Resuming
  <2>2. \A p \in Pages : Offset(p)' = Len(On(p))
    BY <1>1, <1>7 DEF Offset
  <2>3. ASSUME at \in Resting
        PROVE  /\ \A p \in Pages : Offset(p) = Len(On(p))
               /\ \A p \in Pages : p = ram.tail => Len(On(p)) = 0
    <3>1. at # "off" /\ at # "writeHeader"
      BY <1>3 DEF Fresh, Resuming, Crash
    <3>2. \A p \in Pages : ram.off[p] = Len(On(p))
      BY <2>3, <3>1 DEF Core, AtRest
    <3>3. On(ram.tail) = <<>>
      BY <2>3 DEF Core, AtRest, Settled
    <3>4. QED BY <3>1, <3>2, <3>3, EmptySeq DEF Offset
  <2>4. ASSUME at \in Fresh
        PROVE  \A p \in Pages : Offset(p) = 0 /\ Len(On(p)) = 0
    <3>1. \A p \in Pages : ram.off[p] = 0 /\ On(p) = <<>>
      BY <2>4 DEF Core, AtFresh, Virgin
    <3>2. at # "off"
      BY DEF Crash
    <3>3. QED BY <3>1, <3>2, EmptySeq DEF Offset
  <2>5. \A p \in Pages : Offset(p) = Len(On(p)) /\ (p = ram.tail => Len(On(p)) = 0)
    BY <1>3, <2>3, <2>4 DEF Resting
  <2>6. \A p \in Pages : \A i \in 1..Len(On(p)) : InForce(p, i)' <=> InForce(p, i)
    <3>1. \A i \in 1..0 : FALSE
      OBVIOUS
    <3>2. at # "setInactive"
      BY <1>3 DEF Fresh, Resuming
    <3>3. QED BY <1>1, <1>7, <2>5, <3>1, <3>2 DEF InForce
  <2>7. \A p \in Pages : Offset(p)' = Offset(p)
    BY <2>2, <2>5
  <2>8. \A p \in Pages : \A i \in Int : i \in 1..Offset(p)' /\ InForce(p, i)'
                                       <=> i \in 1..Offset(p) /\ InForce(p, i)
    BY <2>2, <2>5, <2>6
  <2>9. QED BY <1>7, <2>1, <2>8, ItemsKept DEF Core
<1>15. QED BY <1>6, <1>8, <1>10, <1>11, <1>12, <1>13, <1>14 DEF Core
-----------------------------------------------------------------------------
(* The invariant holds *)

\* An erased flash before the first boot.
LEMMA InitCore ==
  ASSUME Init
  PROVE  Core
<1>1. /\ flash = [p \in Pages |-> Erased] /\ ram = Ram0 /\ at = "off" /\ x = Locals0
      /\ op = [kind |-> "boot"] /\ res = "ok" /\ seen = [k \in Keys |-> NoValue]
      /\ crashes = 0 /\ fails = 0
  BY DEF Init
<1>2. \A p \in Pages : /\ On(p) = <<>> /\ Len(On(p)) = 0 /\ St(p) = NACT
                       /\ flash[p].mode = NORMAL /\ flash[p].ofs = NoOffset
  BY <1>1, EmptySeq DEF On, St, Erased
<1>3. Typed
  <2>1. 0 \in 0..NP /\ 0 \in 0..Cap /\ 0 \in Int /\ 0 \in Nat /\ 0 \in 0..MaxCrashes
    BY NvAssumption
  <2>2. Locals0 \in LocalsType
    BY <2>1, EndPages DEF Locals0, LocalsType
  <2>3. Ram0 \in RamType
    BY <2>1, EndPages DEF Ram0, RamType
  <2>4. flash \in [Pages -> PageType]
    <3>1. Erased \in PageType
      BY EmptySeq DEF Erased, PageType, NACT, XSRC, NORMAL, CSRC
    <3>2. QED BY <1>1, <3>1
  <2>5. op \in Map!Calls /\ seen \in [Keys -> Values \cup {NoValue}]
    BY <1>1 DEF Map!Calls
  <2>6. QED BY <1>1, <2>1, <2>2, <2>3, <2>4, <2>5 DEF Typed
<1>4. \A i \in 1..0 : FALSE
  OBVIOUS
<1>5. Laid /\ Unused /\ AtOff
  BY <1>1, <1>2, <1>4 DEF Laid, Unused, AtOff, Virgin
<1>6. /\ AtFresh /\ AtRest /\ Ring /\ Purpose /\ AtMark /\ Window /\ AtFilling /\ Copying /\ AtSetDst
      /\ AtCleaning /\ AtSetAct /\ Visited /\ Writing
  BY <1>1 DEF AtFresh, AtRest, Ring, Purpose, AtMark, Window, AtFilling, Copying, AtSetDst, AtCleaning,
              AtSetAct, Visited, Writing, Fresh, Resting, Resuming, Calling, Inside, Filling, Cleaning
<1>7. Kinds
  BY <1>1 DEF Kinds, Ram0, NoCall, Fresh, Resuming
<1>8. Distinct /\ Faithful
  <2>1. \A p \in Pages : Offset(p) = 0
    BY <1>1, <1>2 DEF Offset
  <2>2. \A k \in Keys : Current[k] = NoValue
    BY <1>1 DEF Current
  <2>3. QED BY <1>4, <2>1, <2>2 DEF Distinct, Faithful
<1>9. QED BY <1>3, <1>5, <1>6, <1>7, <1>8 DEF Core

\* Power is lost in steps of their own.
LEMMA CrashesGrow ==
  ASSUME crashes \in Nat, [Next]_vars
  PROVE  /\ crashes' \in Nat /\ (crashes' = crashes \/ crashes' = crashes + 1)
         /\ Calls \/ Step => crashes' = crashes
         /\ Crash => crashes' = crashes + 1
<1>1. ASSUME Calls
      PROVE  crashes' = crashes
  BY <1>1 DEF Calls, WriteItem, DeleteItem, ReadItem, CompactNv, Call
<1>2. ASSUME Booting
      PROVE  crashes' = crashes
  BY <1>2 DEF Booting, Quiet, Boot, EraseAll, MarkHead, MarkTail, Resume, DropOlder, EraseDst,
              RemarkDst, Recovered
<1>3. ASSUME Working
      PROVE  crashes' = crashes
  BY <1>3 DEF Working, Quiet, GetDstPage, Compacted, FindItem, WriteData, WriteHeader, SetItemInactive,
              SetSomeInactive, VerifyDelete, Ends
<1>4. ASSUME Compacting
      PROVE  crashes' = crashes
  BY <1>4 DEF Compacting, Quiet, Mark, CompactLoop, MarkDst, Copy, PassRemnant, CopyDone,
              CopyGarbled, SetDst, CleanPage, CleanFull, Cleaned, SetAct
<1>5. ASSUME Crash
      PROVE  crashes' = crashes + 1
  BY <1>5 DEF Crash
<1>6. ASSUME UNCHANGED vars
      PROVE  crashes' = crashes
  BY <1>6 DEF vars
<1>7. QED BY <1>1, <1>2, <1>3, <1>4, <1>5, <1>6 DEF Next, Step

\* A page that has not been a destination since it was erased has no compaction headers.
Headerless(p) == flash[p].s = NoPage /\ flash[p].e = NoPage
Blank ==
  /\ \A p \in Pages : flash[p].mode = NORMAL => Headerless(p)
  /\ at = "copy" => Headerless(x.dst)

\* Without a loss of power no item is torn, and the headers are written once.
LEMMA NoRemnant ==
  ASSUME Core, Blank
  PROVE  ~PassRemnant /\ ~CopyGarbled
<1>1. ASSUME at = "copy", Remnant
      PROVE  FALSE
  <2>1. Typed /\ x.pos <= ram.off[x.cur] /\ at \in Filling
    BY <1>1 DEF Core, Copying, Filling
  <2>2. PICK c \in Pages : c = x.cur
    BY <2>1 DEF Typed, LocalsType
  <2>3. PICK o \in Nat : o = x.pos
    BY <2>1 DEF Typed, LocalsType
  <2>4. Len(On(c)) \in Nat /\ ram.off[c] \in Nat
    BY <2>1, Sizes DEF Typed, RamType
  <2>5. ram.off[c] <= Len(On(c))
    <3>1. CASE c # x.dst
      BY <2>1, <3>1, FillingData
    <3>2. CASE c = x.dst
      BY <1>1, <2>4, <3>2 DEF Core, Copying, Whole
    <3>3. QED BY <3>1, <3>2
  <2>6. o > 0 /\ o \in 1..Len(On(c)) /\ On(c)[o].torn
    BY <1>1, <2>1, <2>2, <2>3, <2>4, <2>5 DEF Remnant, On
  <2>7. QED BY <1>1, <2>6 DEF Core, Laid
<1>2. ~PassRemnant
  BY <1>1 DEF PassRemnant
<1>3. ~CopyGarbled
  BY DEF CopyGarbled, Unwritten, Blank, Headerless
<1>4. QED BY <1>2, <1>3

\* No other write touches them.
LEMMA HeadersKept ==
  ASSUME Core, [Next]_vars, ~CopyDone, NEW p \in Pages
  PROVE  \/ flash'[p] = Erased
         \/ /\ flash'[p].s = flash[p].s /\ flash'[p].e = flash[p].e
            /\ flash'[p].mode = NORMAL => flash[p].mode = NORMAL
<1> DEFINE Kept == \/ flash'[p] = Erased
                   \/ /\ flash'[p].s = flash[p].s /\ flash'[p].e = flash[p].e
                      /\ flash'[p].mode = NORMAL => flash[p].mode = NORMAL
<1>1. flash \in [Pages -> PageType] /\ flash[p] \in PageType
  BY DEF Core, Typed
<1>2. flash' = flash => Kept
  OBVIOUS
<1>3. ASSUME NEW q, NEW st, State(q, st)
      PROVE  Kept
  BY <1>1, <1>3 DEF State, PageType
<1>4. ASSUME NEW q, NEW m \in {CDST, CDONE, CSRC}, Mode(q, m)
      PROVE  Kept
  <2>1. flash[p].mode \in NORMAL..CSRC
    BY <1>1 DEF PageType
  <2>2. Higher(flash[p].mode, m) # NORMAL
    BY <2>1 DEF Higher, NORMAL, CDST, CDONE, CSRC
  <2>3. QED BY <1>1, <1>4, <2>2 DEF Mode, PageType
<1>5. ASSUME NEW q, Erase(q)
      PROVE  Kept
  BY <1>1, <1>5 DEF Erase
<1>6. ASSUME NEW q, NEW i, Put(q, i)
      PROVE  Kept
  BY <1>1, <1>6 DEF Put, PageType
<1>7. CASE Calls \/ Crash \/ UNCHANGED vars
  BY <1>2, <1>7 DEF Calls, WriteItem, DeleteItem, ReadItem, CompactNv, Call, Crash, vars
<1>8. CASE Booting
  <2>1. CASE Boot
    <3>1. flash' = flash \/ State(PgXdst, XDST)
      BY <2>1 DEF Boot, InitAction
    <3>2. QED BY <1>2, <1>3, <3>1
  <2>2. CASE EraseAll \/ EraseDst
    BY <1>5, <2>2 DEF EraseAll, EraseDst
  <2>3. CASE MarkHead \/ MarkTail \/ RemarkDst \/ Recovered
    BY <1>3, <2>3 DEF MarkHead, MarkTail, RemarkDst, Recovered
  <2>4. CASE Resume \/ DropOlder
    BY <1>2, <2>4 DEF Resume, DropOlder
  <2>5. QED BY <1>8, <2>1, <2>2, <2>3, <2>4 DEF Booting
<1>9. CASE Working
  <2>1. CASE GetDstPage
    BY <1>2, <1>3, <2>1 DEF GetDstPage, ChangeState
  <2>2. CASE Compacted \/ FindItem \/ VerifyDelete \/ Ends
    BY <1>2, <2>2 DEF Compacted, FindItem, VerifyDelete, Ends, RepairFirst
  <2>3. CASE WriteData
    BY <1>2, <1>3, <1>6, <2>3 DEF WriteData
  <2>4. CASE WriteHeader
    BY <1>1, <2>4 DEF WriteHeader, PageType
  <2>5. CASE SetItemInactive \/ SetSomeInactive
    BY <1>1, <2>5 DEF SetItemInactive, SetSomeInactive, PageType
  <2>6. QED BY <1>9, <2>1, <2>2, <2>3, <2>4, <2>5 DEF Working
<1>10. CASE Compacting
  <2>1. CASE Mark
    BY <1>2, <1>4, <2>1 DEF Mark
  <2>2. CASE CompactLoop
    BY <1>2, <1>3, <2>2 DEF CompactLoop
  <2>3. CASE MarkDst
    BY <1>3, <1>4, <2>3 DEF MarkDst
  <2>4. CASE Copy
    BY <1>2, <1>6, <2>4 DEF Copy
  <2>5. CASE PassRemnant \/ CopyGarbled
    BY <1>2, <2>5 DEF PassRemnant, CopyGarbled
  <2>6. CASE SetDst \/ CleanFull
    BY <1>3, <2>6 DEF SetDst, CleanFull
  <2>7. CASE CleanPage
    BY <1>1, <1>5, <2>7 DEF CleanPage, PageType
  <2>8. CASE Cleaned
    BY <1>2, <1>4, <2>8 DEF Cleaned
  <2>9. CASE SetAct
    BY <1>3, <2>9 DEF SetAct
  <2>10. QED BY <1>10, <2>1, <2>2, <2>3, <2>4, <2>5, <2>6, <2>7, <2>8, <2>9 DEF Compacting
<1>11. QED BY <1>7, <1>8, <1>9, <1>10 DEF Next, Step

\* Only the marking of the destination leads to the copying, on a page without headers.
LEMMA CopyStarts ==
  ASSUME Core, Blank, [Next]_vars, at' = "copy"
  PROVE  /\ Headerless(x.dst) /\ x'.dst = x.dst /\ flash'[x.dst] # Erased /\ ~CopyDone
         /\ x.dst \in Pages
<1>1. Typed /\ x \in LocalsType /\ x.dst \in Pages /\ x.ret \notin {"copy"}
  BY DEF Core, Typed, LocalsType
<1>2. at' # "copy" \/ MarkDst \/ Copy \/ PassRemnant \/ UNCHANGED vars
  <2>1. CASE Calls \/ Crash
    BY <2>1 DEF Calls, WriteItem, DeleteItem, ReadItem, CompactNv, Call, Compact, Crash
  <2>2. CASE Booting
    <3>1. CASE Boot
      BY <3>1 DEF Boot, InitAction, Goto
    <3>2. CASE EraseAll \/ EraseDst \/ MarkHead \/ MarkTail \/ Recovered
      BY <3>2 DEF EraseAll, EraseDst, MarkHead, MarkTail, Recovered, Goto
    <3>3. CASE Resume \/ DropOlder \/ RemarkDst
      BY <3>3 DEF Resume, DropOlder, RemarkDst, Compact, Goto
    <3>4. QED BY <2>2, <3>1, <3>2, <3>3 DEF Booting
  <2>3. CASE Working
    <3>1. CASE GetDstPage \/ Compacted \/ FindItem \/ WriteData \/ WriteHeader
      BY <3>1 DEF GetDstPage, Compacted, FindItem, WriteData, WriteHeader, RepairFirst, Compact, Goto
    <3>2. CASE SetItemInactive \/ SetSomeInactive \/ VerifyDelete \/ Ends
      BY <1>1, <3>2 DEF SetItemInactive, SetSomeInactive, VerifyDelete, Ends, RepairFirst, Compact, Goto
    <3>3. QED BY <2>3, <3>1, <3>2 DEF Working
  <2>4. CASE Compacting
    BY <1>1, <2>4 DEF Compacting, Mark, CompactLoop, CopyDone, CopyGarbled, SetDst, CleanPage,
       CleanFull, Cleaned, SetAct, Goto
  <2>5. QED BY <2>1, <2>2, <2>3, <2>4 DEF Next, Step
<1>3. ~PassRemnant
  BY NoRemnant
<1>4. CASE MarkDst
  <2>1. at = "markMode" /\ Mode(x.dst, CDST)
    BY <1>4 DEF MarkDst, Goto
  <2>2. Empty(x.dst)
    BY <2>1 DEF Core, AtFilling, Filling
  <2>3. flash'[x.dst].mode # NORMAL
    <3>1. flash[x.dst].mode \in NORMAL..CSRC /\ flash \in [Pages -> PageType]
      BY <1>1 DEF Typed, PageType
    <3>2. Higher(flash[x.dst].mode, CDST) # NORMAL
      BY <3>1 DEF Higher, NORMAL, CDST, CSRC
    <3>3. QED BY <1>1, <2>1, <3>1, <3>2 DEF Mode, PageType
  <2>4. x'.dst = x.dst
    BY <1>1, <1>4 DEF MarkDst, LocalsType
  <2>5. ~CopyDone
    BY <2>1 DEF CopyDone
  <2>6. QED BY <1>1, <2>2, <2>3, <2>4, <2>5 DEF Blank, Empty, Erased
<1>5. CASE Copy \/ UNCHANGED vars
  <2>1. at = "copy" /\ ~CopyDone
    BY <1>5 DEF Copy, CopyDone, vars, Goto
  <2>2. x'.dst = x.dst
    BY <1>1, <1>5 DEF Copy, vars, LocalsType
  <2>3. flash[x.dst].mode = CDST
    BY <2>1 DEF Core, Copying
  <2>4. flash'[x.dst].mode = CDST
    <3>1. flash \in [Pages -> PageType]
      BY <1>1 DEF Typed
    <3>2. QED BY <1>1, <1>5, <2>3, <3>1 DEF Copy, Put, vars, PageType
  <2>5. flash'[x.dst] # Erased
    BY <2>4 DEF Erased, CDST, NORMAL
  <2>6. QED BY <1>1, <2>1, <2>2, <2>5 DEF Blank
<1>6. QED BY <1>2, <1>3, <1>4, <1>5

\* The headers of a destination are written once per erasure.
LEMMA BlankKept ==
  ASSUME Core, Blank, [Next]_vars
  PROVE  Blank'
<1>1. ASSUME NEW p \in Pages, flash'[p].mode = NORMAL
      PROVE  Headerless(p)'
  <2>1. CASE CopyDone
    <3>1. at = "copy" /\ flash[x.dst].mode = CDST /\ flash \in [Pages -> PageType]
      BY <2>1 DEF CopyDone, Core, Copying, Typed
    <3>2. p # x.dst
      BY <1>1, <2>1, <3>1 DEF CopyDone, PageType, CDST, NORMAL
    <3>3. flash'[p] = flash[p]
      BY <2>1, <3>1, <3>2 DEF CopyDone
    <3>4. QED BY <1>1, <3>3 DEF Blank, Headerless
  <2>2. CASE ~CopyDone
    <3>1. CASE flash'[p] = Erased
      BY <3>1 DEF Headerless, Erased
    <3>2. CASE flash'[p] # Erased
      BY <1>1, <2>2, <3>2, HeadersKept DEF Blank, Headerless
    <3>3. QED BY <3>1, <3>2
  <2>3. QED BY <2>1, <2>2
<1>2. ASSUME at' = "copy"
      PROVE  Headerless(x.dst)'
  <2>1. PICK d \in Pages : d = x.dst
    BY <1>2, CopyStarts
  <2>2. /\ Headerless(d) /\ x'.dst = d /\ flash'[d] # Erased /\ ~CopyDone
    BY <1>2, <2>1, CopyStarts
  <2>3. flash'[d].s = flash[d].s /\ flash'[d].e = flash[d].e
    BY <2>2, HeadersKept
  <2>4. QED BY <2>2, <2>3 DEF Headerless
<1>3. QED BY <1>1, <1>2 DEF Blank

\* An erased flash has none.
LEMMA InitBlank ==
  ASSUME Init
  PROVE  Blank
BY DEF Init, Blank, Headerless, Erased

\* A step of a call, of a boot or of a compaction.
LEMMA StepKeeps ==
  ASSUME Core, Blank, Step
  PROVE  Core'
<1>1. at \notin {"eraseDst", "remarkDst", "recovered"}
  BY DEF Core, Typed, Fresh, Resting, Resuming, Calling, Inside, Filling, Cleaning
<1>2. CASE Booting
  BY <1>1, <1>2, BootStep, EraseAllStep, MarkHeadStep, MarkTailStep, ResumeStep, DropOlderStep
     DEF Booting, EraseDst, RemarkDst, Recovered
<1>3. CASE Working
  BY <1>3, GetDstPageStep, CompactedStep, FindItemStep, WriteDataStep, WriteHeaderStep,
     SetItemInactiveStep, SetSomeInactiveStep, VerifyDeleteStep, EndsStep DEF Working
<1>4. CASE Compacting
  BY <1>4, NoRemnant, MarkStep, CompactLoopStep, MarkDstStep, CopyStep, CopyDoneStep, SetDstStep,
     CleanPageStep, CleanFullStep, CleanedStep, SetActStep DEF Compacting
<1>5. QED BY <1>2, <1>3, <1>4 DEF Step

\* Nothing happens.
LEMMA StutterKeeps ==
  ASSUME Core, UNCHANGED vars
  PROVE  Core'
<1>1. UNCHANGED <<flash, ram, at, x, op, res, seen, crashes, fails>>
  BY DEF vars
<1>2. \A p : On(p)' = On(p) /\ St(p)' = St(p) /\ (Whole(p)' <=> Whole(p)) /\ (Empty(p)' <=> Empty(p))
             /\ Offset(p)' = Offset(p)
  BY <1>1 DEF On, St, Whole, Empty, Offset
<1>3. \A p, i : Used(p, i)' = Used(p, i) /\ Room(p)' = Room(p) /\ (InForce(p, i)' <=> InForce(p, i))
                /\ (Passed(p, i)' <=> Passed(p, i))
  BY <1>1 DEF Used, Room, InForce, Passed, On
<1>4. Typed' /\ Laid' /\ Unused'
  BY <1>1, <1>2, <1>3 DEF Core, Typed, Laid, Unused
<1>5. AtOff' /\ AtFresh' /\ AtRest' /\ Ring'
  <2>1. (Virgin' <=> Virgin) /\ (OneReady' <=> OneReady) /\ \A t : Settled(t)' <=> Settled(t)
    BY <1>1, <1>2 DEF Virgin, OneReady, Settled
  <2>2. Settled(ram.tail)' <=> Settled(ram.tail)
    BY <1>1 DEF Settled, On, St
  <2>3. QED BY <1>1, <1>2, <2>1, <2>2 DEF Core, AtOff, AtFresh, AtRest, Ring
<1>6. Purpose' /\ AtMark' /\ Window' /\ Kinds' /\ Visited'
  BY <1>1 DEF Core, Purpose, AtMark, Window, Kinds, Visited, OneReady, St, Room, Used
<1>7. AtFilling' /\ AtSetDst' /\ AtCleaning' /\ AtSetAct'
  BY <1>1 DEF Core, AtFilling, AtSetDst, AtCleaning, AtSetAct, Empty, Whole, On, St, Room, Used,
              LastPage, OneReady
<1>8. Copying'
  BY <1>1 DEF Core, Copying, CopiesOnly, CopiesOnce, CopiesAll, Passed, Whole, On, St, Used
<1>9. Writing'
  <2>1. (Fits' <=> Fits) /\ \A l, k : IsAt(l, k)' <=> IsAt(l, k)
    BY <1>1 DEF Fits, IsAt, On, St, Room, Used
  <2>2. On(ram.act)' = On(ram.act)
    BY <1>1 DEF On
  <2>3. QED BY <1>1, <2>1, <2>2 DEF Core, Writing, Same
<1>10. Distinct' /\ Faithful'
  <2>1. Current' = Current
    BY <1>1 DEF Current, Outcome, Map!Applied, Same
  <2>2. \A p \in Pages : \A i \in 1..Offset(p) : InForce(p, i)' = InForce(p, i)
    BY <1>1 DEF InForce, On
  <2>3. QED BY <1>2, <2>1, <2>2, DataKept DEF Core
<1>11. QED BY <1>4, <1>5, <1>6, <1>7, <1>8, <1>9, <1>10 DEF Core

\* The inductive invariant.
Sound == Core /\ Blank
IInv  == crashes \in Nat /\ (Steady => Sound)

\* Losses of power are not undone.
LEMMA SteadyBefore ==
  ASSUME crashes \in Nat, [Next]_vars, Steady'
  PROVE  Steady
BY CrashesGrow DEF Steady

\* The invariant is inductive.
LEMMA IInvHolds == Spec => []IInv
<1>1. Init => IInv
  BY InitCore, InitBlank DEF IInv, Sound, Init
<1>2. IInv /\ [Next]_vars => IInv'
  <2> SUFFICES ASSUME IInv, [Next]_vars, Steady'
               PROVE  Sound'
    BY CrashesGrow DEF IInv
  <2>1. Core /\ Blank
    BY SteadyBefore DEF IInv, Sound
  <2>2. Core'
    BY <2>1, CallsStep, StepKeeps, CrashStep, StutterKeeps DEF Next
  <2>3. QED BY <2>1, <2>2, BlankKept DEF Sound
<1>3. QED BY <1>1, <1>2, PTL DEF Spec
-----------------------------------------------------------------------------
(* What follows *)

\* What the types of the records say.
LEMMA CoreTyped ==
  ASSUME Core
  PROVE  TypeOK
<1>1. Typed
  BY DEF Core
<1>2. ASSUME NEW p \in Pages
      PROVE  ram.off[p] \in 0..Len(On(p))
  <2>1. ram.off[p] \in Nat /\ Len(On(p)) \in Nat
    BY <1>1, Sizes DEF Typed, RamType
  <2>2. ram.off[p] <= Len(On(p))
    <3>1. CASE at = "off"
      <4>1. ram.off[p] = 0
        BY <3>1 DEF Core, AtOff, Ram0
      <4>2. QED BY <2>1, <4>1
    <3>2. CASE at \in Fresh
      <4>1. ram.off[p] = 0
        BY <3>2 DEF Core, AtFresh
      <4>2. QED BY <2>1, <4>1
    <3>3. CASE at \in Resting \cup {"mark"}
      <4>1. ram.off[p] = Len(On(p)) - 1 \/ ram.off[p] = Len(On(p))
        BY <3>3 DEF Core, AtRest
      <4>2. QED BY <2>1, <4>1
    <3>4. CASE at \in Filling
      <4>1. CASE p # x.dst
        BY <3>4, <4>1, FillingData
      <4>2. CASE p = x.dst /\ at \in {"loop", "markDst", "markMode"}
        <5>1. Whole(x.dst)
          BY <3>4, <4>2 DEF Core, AtFilling, Empty
        <5>2. QED BY <2>1, <4>2, <5>1 DEF Whole
      <4>3. CASE p = x.dst /\ at \in {"copy", "setDst"}
        <5>1. Whole(x.dst)
          BY <4>3 DEF Core, Copying
        <5>2. QED BY <2>1, <4>3, <5>1 DEF Whole
      <4>4. QED BY <3>4, <4>1, <4>2, <4>3 DEF Filling
    <3>5. CASE at \in Cleaning
      <4>1. PICK s \in Pages : s = x.src
        BY <1>1 DEF Typed, LocalsType
      <4>2. PICK e \in Pages : e = LastPage
        BY <3>5 DEF Core, AtCleaning
      <4>3. /\ ram.off[e] <= Len(On(e))
            /\ Dist(s, p) < Dist(s, e) => ram.off[p] = 0
            /\ Dist(s, p) > Dist(s, e) => Whole(p)
        BY <3>5, <4>1, <4>2 DEF Core, AtCleaning
      <4>4. /\ Dist(s, p) \in Nat /\ Dist(s, e) \in Nat
            /\ Dist(s, p) = Dist(s, e) => p = e
        BY RingFacts
      <4>5. p = e \/ ram.off[p] = 0 \/ Whole(p)
        BY <4>3, <4>4
      <4>6. QED BY <2>1, <4>3, <4>5 DEF Whole
    <3>6. CASE at = "setAct"
      <4>1. Whole(p)
        BY <3>6 DEF Core, AtSetAct
      <4>2. QED BY <2>1, <4>1 DEF Whole
    <3>7. QED BY <1>1, <3>1, <3>2, <3>3, <3>4, <3>5, <3>6 DEF Typed, Inside
  <2>3. QED BY <2>1, <2>2
<1>3. ASSUME NEW p \in Pages
      PROVE  /\ flash[p].st \in NACT..XSRC /\ flash[p].mode \in NORMAL..CSRC
             /\ flash[p].allActive \in BOOLEAN
             /\ {flash[p].s, flash[p].e} \subseteq Pages \cup {NoPage}
             /\ {flash[p].ofs, flash[p].eOfs} \subseteq 0..Cap \cup {NoOffset}
             /\ flash[p].items \in Seq(Items)
  <2>1. flash[p] \in PageType
    BY <1>1 DEF Typed
  <2>2. QED BY <2>1 DEF PageType
<1>4. ASSUME NEW p \in Pages, NEW i \in 1..Len(flash[p].items)
      PROVE  Used(p, i) = Used(p, i - 1) + Len(flash[p].items[i].val)
  <2>1. i \in 1..Len(On(p))
    BY DEF On
  <2>2. Used(p, i) = On(p)[i].end
    BY <1>1, <2>1, Sizes
  <2>3. On(p)[i].end = Used(p, i - 1) + Len(On(p)[i].val)
    BY <2>1 DEF Core, Laid
  <2>4. QED BY <2>2, <2>3 DEF On
<1>5. /\ {ram.head, ram.tail, ram.act} \subseteq Pages /\ {ram.force, ram.failW} \subseteq BOOLEAN
      /\ seen \in [Keys -> Values \cup {NoValue}] /\ res \in {"ok", "fail", "lost"}
  BY <1>1 DEF Typed, RamType
<1>6. crashes \in 0..MaxCrashes /\ fails \in 0..MaxFails
  <2>1. MaxFails \in Nat
    BY NvAssumption
  <2>2. QED BY <1>1, <2>1 DEF Typed
<1>7. QED BY <1>2, <1>3, <1>4, <1>5, <1>6 DEF TypeOK, On

\* When no call runs, every active item is in force, and those are distinct.
LEMMA CoreUnique ==
  ASSUME Core
  PROVE  ItemsUnique
<1> SUFFICES ASSUME at = "idle", NEW k \in Keys
             PROVE  Cardinality(Matches(k, Locations)) <= 1
  BY DEF ItemsUnique
<1>1. \A l, m \in Matches(k, Locations) : l = m
  <2>1. Locations \in SUBSET Locations
    OBVIOUS
  <2>2. QED BY <2>1, FoundIs DEF Core
<1>2. Matches(k, Locations) = {} \/ \E l : Matches(k, Locations) = {l}
  BY <1>1
<1>3. CASE Matches(k, Locations) = {}
  <2>1. Cardinality(Matches(k, Locations)) = 0
    BY <1>3, FS_EmptySet
  <2>2. QED BY <2>1
<1>4. CASE \E l : Matches(k, Locations) = {l}
  <2>1. PICK l : Matches(k, Locations) = {l}
    BY <1>4
  <2>2. Cardinality({l}) = 1
    BY FS_Singleton
  <2>3. Cardinality(Matches(k, Locations)) = 1
    BY <2>1, <2>2
  <2>4. QED BY <2>3
<1>5. QED BY <1>2, <1>3, <1>4

\* Each item is unique (nvocmp_cc35xx.c:2965), and no page holds more than fits, as long as
\* no call and no compaction is cut short by a loss of power, whatever is written, deleted
\* and compacted, and however often power is lost between the calls and during a boot.
THEOREM SteadyItemsUnique == Spec => [](Steady => TypeOK /\ ItemsUnique)
<1>1. IInv => (Steady => TypeOK /\ ItemsUnique)
  BY CoreTyped, CoreUnique DEF IInv, Sound
<1>2. QED BY <1>1, IInvHolds, PTL

\* The same of the first of the stores that TLC runs.
THEOREM ItemsUniqueHolds == MCSpec => [](Steady => MCItemsUnique)
<1> DEFINE J == store = "steady" => IInv
<1>1. MCInit => J
  BY InitCore, InitBlank DEF MCInit, IInv, Sound, Init
<1>2. J /\ [MCNext]_<<vars, store>> => J'
  <2> SUFFICES ASSUME J, [MCNext]_<<vars, store>>, store' = "steady"
               PROVE  IInv'
    OBVIOUS
  <2>1. store = "steady" /\ IInv /\ [Next]_vars
    BY DEF MCNext
  <2>2. ASSUME Steady'
        PROVE  Sound'
    <3>1. Core /\ Blank
      BY <2>1, <2>2, SteadyBefore DEF IInv, Sound
    <3>2. Core'
      BY <2>1, <2>2, <3>1, CallsStep, StepKeeps, CrashStep, StutterKeeps DEF Next
    <3>3. QED BY <2>1, <3>1, <3>2, BlankKept DEF Sound
  <2>3. QED BY <2>1, <2>2, CrashesGrow DEF IInv
<1>3. J => (Steady => MCItemsUnique)
  BY CoreTyped, CoreUnique DEF IInv, Sound, MCItemsUnique
<1>4. QED BY <1>1, <1>2, <1>3, PTL DEF MCSpec

-----------------------------------------------------------------------------
(* The store is a map *)

\* What no step but the end of a call changes.
LEMMA QuietSteps ==
  ASSUME Step, ~Ends
  PROVE  UNCHANGED <<seen, op, res>>
<1>1. CASE Booting
  BY <1>1 DEF Booting, Quiet, Boot, EraseAll, MarkHead, MarkTail, Resume, DropOlder, EraseDst,
              RemarkDst, Recovered
<1>2. CASE Working
  BY <1>2 DEF Working, Quiet, GetDstPage, Compacted, FindItem, WriteData, WriteHeader, SetItemInactive,
              SetSomeInactive, VerifyDelete
<1>3. CASE Compacting
  BY <1>3 DEF Compacting, Quiet, Mark, CompactLoop, MarkDst, Copy, PassRemnant, CopyDone,
              CopyGarbled, SetDst, CleanPage, CleanFull, Cleaned, SetAct
<1>4. QED BY <1>1, <1>2, <1>3 DEF Step

\* A value is never the end of another one.
Unlike == \A v, w \in Values : Same(v, w) => v = w

\* A call that ends.
LEMMA EndsMaps ==
  ASSUME Core, Ends, Unlike
  PROVE  Map!Return \/ Map!Abandoned
<1>1. /\ at \in {"return", "fail", "booted"} /\ Typed /\ op # NoCall /\ seen' = Current
      /\ op' = NoCall
      /\ res' = CASE at = "return" -> "ok"
                  [] at = "fail" -> "fail"
                  [] at = "booted" -> IF op.kind = "boot" THEN "ok" ELSE "lost"
      /\ at = "booted" => op.kind = "boot"
  BY EndsStep DEF Core, Kinds, Ends, Resuming
<1>2. op # Map!Idle /\ op' = Map!Idle
  BY <1>1 DEF Map!Idle, NoCall
<1>3. CASE at = "fail"
  BY <1>1, <1>2, <1>3 DEF Map!Abandoned, Current
<1>4. CASE at = "booted"
  <2>1. Map!Applied(op) = seen
    BY <1>1, <1>4 DEF Map!Applied
  <2>2. QED BY <1>1, <1>2, <1>4, <2>1 DEF Map!Return, Current
<1>5. CASE at = "return"
  <2>1. Outcome = Map!Applied(op)
    <3>1. ASSUME op.kind = "write", seen[op.key] # NoValue, Same(seen[op.key], op.val)
          PROVE  Map!Applied(op) = seen
      <4>1. op.key \in Keys /\ op.val \in Values /\ seen[op.key] \in Values
        BY <1>1, <3>1, OpIs DEF Typed
      <4>2. seen[op.key] = op.val
        BY <3>1, <4>1 DEF Unlike
      <4>3. [seen EXCEPT ![op.key] = op.val] = seen
        BY <1>1, <4>1, <4>2 DEF Typed
      <4>4. QED BY <3>1, <4>3 DEF Map!Applied
    <3>2. QED BY <3>1 DEF Outcome
  <2>2. QED BY <1>1, <1>2, <1>5, <2>1 DEF Map!Return, Current
<1>6. QED BY <1>1, <1>3, <1>4, <1>5

\* Every step of the store is one of the map, or none.
LEMMA StepMaps ==
  ASSUME Core, [Next]_vars, Steady', Unlike
  PROVE  [Map!MNext]_(Map!vars)
<1>1. CASE Calls
  <2>1. op = NoCall
    <3>1. at = "idle"
      BY <1>1 DEF Calls, WriteItem, DeleteItem, ReadItem, CompactNv, Call
    <3>2. QED BY <3>1 DEF Core, Kinds
  <2>2. op' \in Map!Calls /\ UNCHANGED <<seen, res>>
    <3>1. \A k \in Keys, v \in Values : [kind |-> "write", key |-> k, val |-> v] \in Map!Calls
      BY DEF Map!Calls
    <3>2. \A k \in Keys : /\ [kind |-> "delete", key |-> k] \in Map!Calls
                          /\ [kind |-> "read", key |-> k] \in Map!Calls
      BY DEF Map!Calls
    <3>3. [kind |-> "compact"] \in Map!Calls
      BY DEF Map!Calls
    <3>4. QED BY <1>1, <3>1, <3>2, <3>3 DEF Calls, WriteItem, DeleteItem, ReadItem, CompactNv, Call
  <2>3. Map!Call(op')
    BY <2>1, <2>2 DEF Map!Call, Map!Idle, NoCall
  <2>4. QED BY <2>2, <2>3 DEF Map!MNext
<1>2. CASE Step /\ ~Ends
  BY <1>2, QuietSteps DEF Map!vars
<1>3. CASE Ends
  BY <1>3, EndsMaps DEF Map!MNext
<1>4. CASE Crash
  <2>1. op' = (IF op = NoCall THEN [kind |-> "boot"] ELSE op) /\ UNCHANGED <<seen, res>>
    BY <1>4 DEF Crash
  <2>2. CASE op = NoCall
    <3>1. [kind |-> "boot"] \in Map!Calls
      BY DEF Map!Calls
    <3>2. Map!Call([kind |-> "boot"])
      BY <2>1, <2>2 DEF Map!Call, Map!Idle, NoCall
    <3>3. QED BY <3>1, <3>2 DEF Map!MNext
  <2>3. CASE op # NoCall
    BY <2>1, <2>3 DEF Map!vars
  <2>4. QED BY <2>2, <2>3
<1>5. CASE UNCHANGED vars
  BY <1>5 DEF vars, Map!vars
<1>6. QED BY <1>1, <1>2, <1>3, <1>4, <1>5 DEF Next

\* Where every loss of power is between calls or during a boot, the invariant always holds.
OutsideCalls == MaxCrashes = 0 \/ CrashIn \subseteq {"idle", "boot"}

\* One step of it.
LEMMA CoreKept ==
  ASSUME OutsideCalls, Sound, [Next]_vars
  PROVE  Steady' /\ Sound'
<1> USE DEF Sound
<1>1. crashes \in 0..MaxCrashes /\ MaxCrashes \in Nat /\ crashes \in Nat
  BY NvAssumption DEF Core, Typed
<1>2. Steady'
  <2>1. MaxCrashes = 0 => ~Crash
    BY <1>1 DEF Crash
  <2>2. MaxCrashes = 0 => crashes' = 0
    BY <1>1, <2>1, CrashesGrow DEF Next, vars
  <2>3. QED BY <2>2 DEF Steady, OutsideCalls
<1>3. Core' /\ Blank'
  BY <1>2, CallsStep, StepKeeps, CrashStep, StutterKeeps, BlankKept DEF Next
<1>4. QED BY <1>2, <1>3

\* The store is the map that nvocmp.h promises: each read, write, delete, compaction and boot
\* leaves what the items read as exactly as the calls so far have made it, whatever was
\* copied, moved and erased below, provided power is lost at most between calls and
\* during a boot, and no value is the end of a longer one.
THEOREM StoreIsMap ==
  ASSUME OutsideCalls, Unlike
  PROVE  Spec => ImplementsMap
<1>1. Init => Sound /\ Map!MInit
  BY InitCore, InitBlank DEF Init, Map!MInit, Sound
<1>2. Sound /\ [Next]_vars => Sound' /\ [Map!MNext]_(Map!vars)
  BY CoreKept, StepMaps DEF Sound
<1>3. QED BY <1>1, <1>2, PTL DEF Spec, ImplementsMap, Map!MSpec

\* An item is there until it is deleted: no boot, no compaction, no call on another item and
\* no call that fails drops one that was readable (nvocmp.h), for values of any kind and
\* losses of power between calls and during a boot.
THEOREM ItemsAreDurable ==
  ASSUME OutsideCalls
  PROVE  Spec => Durable
<1> DEFINE Kept == \A k \in Keys : seen[k] # NoValue /\ seen'[k] = NoValue
                                  => op.kind = "delete" /\ op.key = k
<1>1. Core /\ Ends => Kept
  <2> SUFFICES ASSUME Core, Ends, NEW k \in Keys, seen[k] # NoValue, seen'[k] = NoValue
               PROVE  op.kind = "delete" /\ op.key = k
    OBVIOUS
  <2>1. Typed /\ seen' = Current
    BY EndsStep DEF Core
  <2>2. Current \in {seen, Map!Applied(op)}
    BY DEF Current, Outcome
  <2>3. seen' = Map!Applied(op)
    BY <2>1, <2>2
  <2>4. seen \in [Keys -> Values \cup {NoValue}] /\ NoValue \notin Values
    BY <2>1, NvAssumption DEF Typed
  <2>5. op.kind = "write" => op.key \in Keys /\ op.val \in Values
    BY <2>1, OpIs
  <2>6. CASE op.kind = "write"
    <3>1. seen' = [seen EXCEPT ![op.key] = op.val]
      BY <2>3, <2>6 DEF Map!Applied
    <3>2. QED BY <2>4, <2>5, <2>6, <3>1
  <2>7. CASE op.kind = "delete"
    <3>1. seen' = [seen EXCEPT ![op.key] = NoValue]
      BY <2>3, <2>7 DEF Map!Applied
    <3>2. QED BY <2>4, <2>7, <3>1
  <2>8. CASE op.kind \notin {"write", "delete"}
    BY <2>3, <2>8 DEF Map!Applied
  <2>9. QED BY <2>6, <2>7, <2>8
<1>2. [Next]_vars /\ ~Ends => seen' = seen
  BY QuietSteps DEF Next, Calls, WriteItem, DeleteItem, ReadItem, CompactNv, Call, Crash, vars
<1>3. Core /\ [Next]_vars => Kept
  BY <1>1, <1>2
<1>4. Sound /\ [Next]_vars => Sound' /\ [Kept]_vars
  BY <1>3, CoreKept DEF Sound
<1>5. Init => Sound
  BY InitCore, InitBlank DEF Sound
<1>6. QED BY <1>4, <1>5, PTL DEF Spec, Durable

-----------------------------------------------------------------------------
(* One loss of power, wherever it falls, leaves page states that initNv knows. *)

\* Page states for which initNv has an action: a page is free or the tail, or a
\* compaction has marked its destination, or nothing has been written.
Known == \/ \E p \in Pages : St(p) \in {NACT, XDST}
         \/ HasDst
         \/ Virgin

\* What initNv decides on them.
LEMMA KnownIsSafe ==
  ASSUME Known
  PROVE  InitAction # "ERROR_UNKNOWN"
<1> USE DEF NACT, XDST, RDY, ACT, FULL, XSRC
<1>1. \A st : \A p : p \in With(st) <=> p \in Pages /\ St(p) = st
  BY DEF With, St
<1>2. CASE \E p \in Pages : St(p) \in {NACT, XDST}
  <2>1. With(XDST) # {} \/ With(NACT) # {}
    BY <1>1, <1>2
  <2>2. QED BY <2>1 DEF InitAction
<1>3. CASE HasDst
  BY <1>3 DEF InitAction
<1>4. CASE Virgin
  <2>1. With(XSRC) = {} /\ With(ACT) = {} /\ With(FULL) = {}
    BY <1>1, <1>4 DEF Virgin
  <2>2. QED BY <2>1 DEF InitAction
<1>5. QED BY <1>2, <1>3, <1>4 DEF Known

\* Power may be lost before any step of a call, of a compaction and of a boot.
LEMMA CoreIsKnown ==
  ASSUME Core
  PROVE  Known
<1>1. ram.tail \in Pages /\ x.dst \in Pages /\ at \in {"off"} \cup Fresh \cup Resting \cup Inside
  BY DEF Core, Typed, RamType, LocalsType
<1>2. CASE at = "off"
  BY <1>2 DEF Core, AtOff, Known, Settled
<1>3. CASE at \in Fresh
  BY <1>3 DEF Core, AtFresh, Known
<1>4. CASE at \in Resting \cup {"mark"}
  BY <1>1, <1>4 DEF Core, AtRest, Settled, Known
<1>5. CASE at = "loop" \/ at = "markDst"
  BY <1>1, <1>5 DEF Core, AtFilling, Filling, Known
<1>6. CASE at = "markMode"
  BY <1>1, <1>6 DEF Core, AtFilling, Filling, Known
<1>7. CASE at \in {"copy", "setDst"}
  BY <1>1, <1>7 DEF Core, Copying, Known
<1>8. CASE at \in Cleaning
  BY <1>1, <1>8 DEF Core, AtCleaning, HasDst, Known
<1>9. CASE at = "setAct"
  BY <1>1, <1>9 DEF Core, AtSetAct, Known
<1>10. QED BY <1>1, <1>2, <1>3, <1>4, <1>5, <1>6, <1>7, <1>8, <1>9 DEF Inside, Filling

\* Where a compaction or a search returns to.
Returns == {"return", "verify", "compacted", "booted", "find", "dropOlder", "recovered"}
GoesOn  == "ret" \in DOMAIN x /\ x.ret \in Returns

\* No step of a call, of a compaction or of the boot leads back to where power is lost, nor
\* to where initNv stops.  First, the start of a compaction.
LEMMA CompactGoesOn ==
  ASSUME GoesOn, NEW n, NEW r \in Returns, Compact(n, r)
  PROVE  at' = "mark" /\ GoesOn'
<1> DEFINE pages == IF n > 0 THEN 1 ELSE NP - 1
           y == [x EXCEPT !.nBytes = n, !.ret = r, !.pg = 0]
           z == [y EXCEPT !.skip = 0, !.room = FALSE, !.src = ram'.head]
           w == [z EXCEPT !.dst = ram'.tail, !.left = NP - 1, !.srcPages = pages]
<1>1. at' = "mark" /\ x' = w
  BY DEF Compact
<1>2. "ret" \in DOMAIN y /\ y.ret = r
  BY DEF GoesOn
<1> HIDE DEF y
<1>3. "ret" \in DOMAIN z /\ z.ret = r
  BY <1>2
<1> HIDE DEF z, pages
<1>4. "ret" \in DOMAIN w /\ w.ret = r
  BY <1>3
<1>5. QED BY <1>1, <1>4 DEF GoesOn

\* The local variables of a call that has not started.
LEMMA LocalsGoOn == "ret" \in DOMAIN Locals0 /\ Locals0.ret \in Returns
BY DEF Locals0, Returns

\* A call starts on a store that has booted.
LEMMA CallsGoOn ==
  ASSUME GoesOn, Calls
  PROVE  at' \notin {"off", "stuck"} /\ GoesOn'
<1>1. ASSUME NEW c, NEW a \in {"getDst", "find"}, Call(c, a)
      PROVE  at' \notin {"off", "stuck"} /\ GoesOn'
  BY <1>1, LocalsGoOn DEF Call, GoesOn
<1>2. CASE CompactNv
  BY <1>2, CompactGoesOn DEF CompactNv, Returns
<1>3. QED BY <1>1, <1>2 DEF Calls, WriteItem, DeleteItem, ReadItem

\* The boot finds an action and takes it.
LEMMA BootGoesOn ==
  ASSUME GoesOn, Boot, InitAction # "ERROR_UNKNOWN"
  PROVE  at' \notin {"off", "stuck"} /\ GoesOn'
<1>1. InitAction \in {"FORCE_CLEAN", "NORMAL_INIT", "NORMAL_RESUME", "RECOVER_COMPACT",
                      "RECOVER_ERASE"}
  BY DEF InitAction
<1>2. CASE InitAction = "RECOVER_ERASE"
  BY <1>2 DEF Boot, Goto, GoesOn, Returns
<1>3. CASE InitAction # "RECOVER_ERASE"
  BY <1>1, <1>3 DEF Boot, Goto, GoesOn
<1>4. QED BY <1>2, <1>3

\* The rest of the boot.
LEMMA BootingGoesOn ==
  ASSUME GoesOn, Booting, ~Boot
  PROVE  at' \notin {"off", "stuck"} /\ GoesOn'
<1>1. CASE EraseAll \/ MarkHead \/ MarkTail \/ EraseDst \/ Recovered
  BY <1>1 DEF EraseAll, MarkHead, MarkTail, EraseDst, Recovered, Goto, GoesOn
<1>2. CASE RemarkDst
  BY <1>2, CompactGoesOn DEF RemarkDst, Returns
<1>3. CASE Resume
  <2> DEFINE i == flash[ram'.act].items[ram.off[ram'.act]]
  <2>1. \/ at' = "booted" /\ x' = x
        \/ at' = "dropOlder" /\ x' = [x EXCEPT !.key = i.key]
        \/ Compact(0, "booted")
    <3>1. IF With(ACT) = {} \/ ram.off[ram'.act] = 0 THEN Goto("booted") /\ UNCHANGED x
          ELSE IF ~i.torn /\ i.active THEN Goto("dropOlder") /\ x' = [x EXCEPT !.key = i.key]
          ELSE Compact(0, "booted")
      BY <1>3, Zenon DEF Resume
    <3> HIDE DEF i
    <3>2. QED BY <3>1 DEF Goto
  <2>2. CASE Compact(0, "booted")
    BY <2>2, CompactGoesOn DEF Returns
  <2> HIDE DEF i
  <2>3. QED BY <2>1, <2>2 DEF GoesOn
<1>4. CASE DropOlder
  <2>1. CASE Compact(0, "dropOlder")
    BY <2>1, CompactGoesOn DEF Returns
  <2>2. CASE ~Compact(0, "dropOlder")
    BY <1>4, <2>2 DEF DropOlder, Goto, GoesOn, Returns
  <2>3. QED BY <2>1, <2>2
<1>5. QED BY <1>1, <1>2, <1>3, <1>4 DEF Booting

\* A call.
LEMMA WorkingGoesOn ==
  ASSUME GoesOn, Working
  PROVE  at' \notin {"off", "stuck"} /\ GoesOn'
<1>1. CASE Compacted \/ WriteData \/ WriteHeader
  BY <1>1 DEF Compacted, WriteData, WriteHeader, Goto, GoesOn
<1>2. CASE SetItemInactive \/ SetSomeInactive
  BY <1>2 DEF SetItemInactive, SetSomeInactive, Goto, GoesOn, Returns
<1>3. CASE Ends
  BY <1>3, LocalsGoOn DEF Ends, GoesOn
<1>4. CASE GetDstPage
  <2>1. CASE Compact(Len(op.val), "compacted")
    BY <2>1, CompactGoesOn DEF Returns
  <2>2. CASE ~Compact(Len(op.val), "compacted")
    BY <1>4, <2>2 DEF GetDstPage, Goto, GoesOn
  <2>3. QED BY <2>1, <2>2
<1>5. CASE FindItem
  <2>1. CASE RepairFirst("find")
    BY <2>1, CompactGoesOn DEF RepairFirst, Returns
  <2>2. CASE ~RepairFirst("find")
    BY <1>5, <2>2 DEF FindItem, Goto, GoesOn, Returns
  <2>3. QED BY <2>1, <2>2
<1>6. CASE VerifyDelete
  <2>1. CASE RepairFirst("verify")
    BY <2>1, CompactGoesOn DEF RepairFirst, Returns
  <2>2. CASE ~RepairFirst("verify")
    BY <1>6, <2>2 DEF VerifyDelete, Goto, GoesOn
  <2>3. QED BY <2>1, <2>2
<1>7. QED BY <1>1, <1>2, <1>3, <1>4, <1>5, <1>6 DEF Working

\* A compaction.
LEMMA CompactingGoesOn ==
  ASSUME GoesOn, Compacting
  PROVE  at' \notin {"off", "stuck"} /\ GoesOn'
<1>1. CASE Mark
  BY <1>1 DEF Mark, Goto, GoesOn, Returns
<1>2. CASE CompactLoop
  BY <1>2 DEF CompactLoop, Goto, GoesOn
<1>3. CASE MarkDst \/ CopyDone \/ CopyGarbled \/ SetDst
  BY <1>3 DEF MarkDst, CopyDone, CopyGarbled, SetDst, Goto, GoesOn
<1>4. CASE Copy \/ PassRemnant
  BY <1>4 DEF Copy, PassRemnant, GoesOn
<1>5. CASE CleanPage \/ CleanFull
  BY <1>5 DEF CleanPage, CleanFull, Goto, GoesOn
<1>6. CASE Cleaned
  BY <1>6 DEF Cleaned, Goto, GoesOn
<1>7. CASE SetAct
  BY <1>7 DEF SetAct, Goto, GoesOn, Returns
<1>8. QED BY <1>1, <1>2, <1>3, <1>4, <1>5, <1>6, <1>7 DEF Compacting

\* After the loss the store is off, on page states that are known, or past the boot.
Lost == GoesOn /\ at # "stuck" /\ (at = "off" => InitAction # "ERROR_UNKNOWN")
LostOnce == /\ crashes \in Nat
            /\ crashes = 0 => Sound
            /\ crashes = 1 => Lost

\* initNv always finds an action (the assertion at nvocmp_cc35xx.c:2594): one loss of
\* power, before any write or erase of any call, compaction or boot, never leaves page states
\* that stop it, for any number of pages and whatever was stored.
THEOREM NeverStuckHolds == Spec => [](crashes <= 1 => NeverStuck)
<1>1. Init => LostOnce
  <2>1. Init => Sound
    BY InitCore, InitBlank DEF Sound
  <2>2. QED BY <2>1 DEF Init, LostOnce
<1>2. LostOnce /\ [Next]_vars => LostOnce'
  <2> SUFFICES ASSUME LostOnce, [Next]_vars
               PROVE  LostOnce'
    OBVIOUS
  <2>1. crashes \in Nat /\ crashes' \in Nat /\ (crashes' = crashes \/ crashes' = crashes + 1)
    BY CrashesGrow DEF LostOnce
  <2>2. ASSUME crashes' = 0
        PROVE  Sound'
    <3>1. crashes = 0 /\ Core /\ Blank /\ ~Crash
      BY <2>1, <2>2, CrashesGrow DEF LostOnce, Sound
    <3>2. QED BY <3>1, CallsStep, StepKeeps, StutterKeeps, BlankKept DEF Next, Sound
  <2>3. ASSUME crashes' = 1
        PROVE  Lost'
    <3>1. CASE Crash
      <4>1. crashes = 0 /\ Core
        BY <2>1, <2>3, <3>1, CrashesGrow DEF LostOnce, Sound
      <4>2. InitAction # "ERROR_UNKNOWN"
        BY <4>1, CoreIsKnown, KnownIsSafe
      <4>3. flash' = flash /\ at' = "off" /\ x' = Locals0
        BY <3>1 DEF Crash
      <4>4. InitAction' = InitAction
        BY <4>3 DEF InitAction, With, HasDst
      <4>5. QED BY <4>2, <4>3, <4>4, LocalsGoOn DEF Lost, GoesOn
    <3>2. CASE Calls \/ Step
      <4>1. Lost
        BY <2>3, <3>2, CrashesGrow DEF LostOnce
      <4>2. CASE Boot
        <5>1. at = "off"
          BY <4>2 DEF Boot
        <5>2. QED BY <4>1, <4>2, <5>1, BootGoesOn DEF Lost
      <4>3. CASE ~Boot
        BY <3>2, <4>1, <4>3, CallsGoOn, BootingGoesOn, WorkingGoesOn, CompactingGoesOn DEF Lost, Step
      <4>4. QED BY <4>2, <4>3
    <3>3. CASE UNCHANGED vars
      <4>1. crashes' = crashes /\ flash' = flash /\ at' = at /\ x' = x
        BY <3>3 DEF vars
      <4>2. Lost
        BY <2>3, <4>1 DEF LostOnce
      <4>3. InitAction' = InitAction
        BY <4>1 DEF InitAction, With, HasDst
      <4>4. QED BY <4>1, <4>2, <4>3 DEF Lost, GoesOn
    <3>4. QED BY <3>1, <3>2, <3>3 DEF Next
  <2>4. QED BY <2>1, <2>2, <2>3 DEF LostOnce
<1>3. LostOnce => (crashes <= 1 => NeverStuck)
  <2> SUFFICES ASSUME LostOnce, crashes <= 1
               PROVE  at # "stuck"
    BY DEF NeverStuck
  <2>1. CASE crashes = 0
    BY <2>1 DEF LostOnce, Sound, Core, Typed, Fresh, Resting, Resuming, Calling, Inside, Filling, Cleaning
  <2>2. CASE crashes = 1
    BY <2>2 DEF LostOnce, Lost
  <2>3. QED BY <2>1, <2>2 DEF LostOnce
<1>4. QED BY <1>1, <1>2, <1>3, PTL DEF Spec

=============================================================================
