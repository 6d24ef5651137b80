------------------------------- MODULE NvStore -------------------------------
(***************************************************************************)
(* The NV item store (src/nvocmp_cc35xx.c, more than two pages, RAM        *)
(* optimisation, no encryption): items are appended to flash pages, one    *)
(* page (the tail) is kept free, and compaction copies what is still       *)
(* active into it.                                                         *)
(*                                                                         *)
(* A step performs at most one write or erase of the flash, so that a loss *)
(* of power falls between any two of them.  Every call runs under the      *)
(* driver's mutex, hence one call at a time.  Of the flash writes, that of *)
(* an item may fail.  Sizes are in units of the data of an item, offsets   *)
(* count items; a page state or mode written over another is their bitwise *)
(* AND, the later one in the order of the bit patterns (0xFF, 0xFE, ...).  *)
(* As on the flash, an item knows where it ends: the offset behind it.     *)
(***************************************************************************)
EXTENDS Integers, Sequences, FiniteSets, FiniteSetsExt, SequencesExt

CONSTANTS NP,         \* NVOCMP_NVSIZE
          Cap,        \* data that fits in a page
          Keys, Values, NoValue,
          MaxCrashes, \* bound: losses of power
          CrashIn,    \* where they strike, a subset of Phases
          MaxFails,   \* bound: writes of items that fail
          Small       \* longest data written in one piece with its header

Phases == {"idle", "call", "compaction", "boot"}

ASSUME NvAssumption ==
  /\ NP \in Nat /\ NP > 2 /\ Cap \in Nat /\ Cap > 0 /\ {MaxCrashes, MaxFails, Small} \subseteq Nat
  /\ \A v \in Values : Len(v) \in 1..Cap
  /\ NoValue \notin Values
  /\ CrashIn \subseteq Phases

Pages == 0..(NP - 1)
Add(p, n) == (p + n) % NP
Inc(p) == Add(p, 1)
Dec(p) == Add(p, NP - 1)


\* Page states and compaction modes, in the order of their bit patterns.
NACT == 0
XDST == 1
RDY  == 2
ACT  == 3
FULL == 4
XSRC == 5

NORMAL == 0
CDST   == 1
CDONE  == 2
CSRC   == 3

VARIABLES
  flash,     \* the pages: header, compaction headers, items
  ram,       \* NVOCMP_nvHandle: headPage, tailPage, actPage, the offsets, forceCompact;
             \* and failW, that the last flash write failed
  at,        \* what the running call does next
  x,         \* its local variables, compactInfo among them
  op,        \* the call; kept over a loss of power (history)
  res,       \* how the last call ended
  seen,      \* what the items read as when the last call ended (history)
  crashes,   \* losses of power so far
  fails      \* failed writes so far

vars == <<flash, ram, at, x, op, res, seen, crashes, fails>>

NoOffset == -1
NoPage   == -1

Erased == [st |-> NACT, mode |-> NORMAL, allActive |-> TRUE, ofs |-> NoOffset,
           s |-> NoPage, e |-> NoPage, eOfs |-> NoOffset, items |-> <<>>]

Item(k, v) == [key |-> k, val |-> v, active |-> TRUE, torn |-> TRUE, end |-> 0]

Used(p, n) == IF n = 0 THEN 0 ELSE flash[p].items[n].end
Room(p)    == Cap - Used(p, ram.off[p])
With(st)   == {p \in Pages : flash[p].st = st}

Locals0 == [pg |-> 0, n |-> 0, found |-> <<>>, key |-> NoPage, ret |-> "return",
            free |-> 0, nBytes |-> 0, src |-> 0, dst |-> 0, srcPages |-> 0, left |-> 0,
            skip |-> 0, room |-> FALSE, sPage |-> 0, cur |-> 0, pos |-> 0, cleaned |-> 0,
            old |-> <<>>, failed |-> FALSE]

Ram0 == [head |-> 0, tail |-> 0, act |-> 0, off |-> [p \in Pages |-> 0], force |-> FALSE,
         failW |-> FALSE]

-----------------------------------------------------------------------------
(* Flash writes *)

Higher(a, b) == IF a > b THEN a ELSE b

\* NVOCMP_changePageState: making a page active also moves actPage.
State(p, st) == flash' = [flash EXCEPT ![p].st = Higher(@, st)]
ChangeState(p, st) ==
  /\ State(p, st)
  /\ ram' = [ram EXCEPT !.failW = FALSE, !.act = IF st = ACT THEN p ELSE @]

Mode(p, m) == flash' = [flash EXCEPT ![p].mode = Higher(@, m)]

\* NVOCMP_erase: at boot a page whose header is not back yet is erased again.
Erase(p) == /\ flash' = [flash EXCEPT ![p] = Erased]
            /\ ram' = [ram EXCEPT !.off[p] = 0]

\* An item is written behind the last one of the page.
Put(p, i) ==
  LET n == Len(flash[p].items) IN
  flash' = [flash EXCEPT ![p].items = Append(@, [i EXCEPT !.end = Used(p, n) + Len(i.val)])]

Quiet == UNCHANGED <<op, res, seen, crashes, fails>>
Goto(a) == at' = a

-----------------------------------------------------------------------------
(* NVOCMP_findItem: from the newest item of actPage back to its oldest, then  *)
(* the pages before it, the tail excepted.  Meeting an item without a valid   *)
(* header compacts the pages and starts again.                                *)

Locations == UNION {{<<p, i>> : i \in 1..ram.off[p]} : p \in Pages \ {ram.tail}}
Distance(p) == (ram.act + NP - p) % NP
Before(a, b) == \/ Distance(a[1]) < Distance(b[1])
                \/ a[1] = b[1] /\ a[2] > b[2]
At(l) == flash[l[1]].items[l[2]]

First(S) == IF S = {} THEN <<>> ELSE CHOOSE l \in S : \A m \in S : m = l \/ Before(l, m)

Matches(k, S) == {l \in S : ~At(l).torn /\ At(l).active /\ At(l).key = k}
Torn(S) == {l \in S : At(l).torn}

Found(k, S)     == First(Matches(k, S))
Corrupted(k, S) == LET f == First(Matches(k, S) \cup Torn(S)) IN f # <<>> /\ At(f).torn

\* What a read of k returns.
Value(k) == LET f == Found(k, Locations) IN IF f = <<>> THEN NoValue ELSE At(f).val

\* Call NVOCMP_compactPage(nBytes), then go on at ret.
Compact(nBytes, ret) ==
  /\ at' = "mark"
  /\ x' = [x EXCEPT !.nBytes = nBytes, !.ret = ret, !.pg = 0, !.skip = 0, !.room = FALSE,
                    !.src = ram'.head, !.dst = ram'.tail, !.left = NP - 1,
                    !.srcPages = IF nBytes > 0 THEN 1 ELSE NP - 1]

RepairFirst(ret) == /\ ram' = [ram EXCEPT !.force = TRUE]
                    /\ Compact(0, ret)
                    /\ UNCHANGED flash

-----------------------------------------------------------------------------
(* The API calls *)

NoCall == [kind |-> "none"]

Call(c, a) ==
  /\ at = "idle"
  /\ op' = c /\ at' = a
  /\ x' = [Locals0 EXCEPT !.pg = ram.act]
  /\ UNCHANGED <<flash, ram, res, seen, crashes, fails>>

WriteItem(k, v) == Call([kind |-> "write", key |-> k, val |-> v], "getDst")
DeleteItem(k)   == Call([kind |-> "delete", key |-> k], "find")
ReadItem(k)     == Call([kind |-> "read", key |-> k], "find")

CompactNv ==
  /\ at = "idle"
  /\ op' = [kind |-> "compact"]
  /\ UNCHANGED <<flash, ram, res, seen, crashes, fails>>
  /\ Compact(0, "return")

\* NVOCMP_getDstPage: the first page, from actPage on, with room for the item.
GetDstPage ==
  /\ at = "getDst"
  /\ LET p == x.pg
         next == [x EXCEPT !.pg = Inc(p), !.n = @ + 1]
     IN \/ /\ x.n < NP /\ (p = ram.tail \/ flash[p].st = FULL)
           /\ x' = next
           /\ UNCHANGED <<flash, ram, at>>
        \/ /\ x.n < NP /\ p # ram.tail /\ flash[p].st \in {NACT, RDY}
           /\ ChangeState(p, ACT)
           /\ UNCHANGED <<at, x>>
        \/ /\ x.n < NP /\ p # ram.tail /\ flash[p].st \notin {NACT, RDY, FULL}
           /\ IF Room(p) >= Len(op.val)
              THEN /\ Goto("find") /\ UNCHANGED <<flash, x>>
                   /\ ram' = [ram EXCEPT !.act = p]
              ELSE /\ State(p, FULL) /\ x' = next /\ UNCHANGED at
                   /\ ram' = [ram EXCEPT !.act = p, !.failW = FALSE]
        \/ /\ x.n = NP
           /\ UNCHANGED <<flash, ram>>
           /\ Compact(Len(op.val), "compacted")
  /\ Quiet

Compacted ==
  /\ at = "compacted"
  /\ Goto(IF x.free < Len(op.val) THEN "fail" ELSE "find")
  /\ UNCHANGED <<flash, ram, x>> /\ Quiet

\* NVOCMP_NWSAMEITEM: as many bytes as are to be written, counted back from the
\* end of the old item, are compared with them.
Same(old, new) == /\ Len(new) <= Len(old)
                  /\ SubSeq(old, Len(old) - Len(new) + 1, Len(old)) = new

\* A write that follows a failed one does not look for the old item.
FindItem ==
  /\ at = "find"
  /\ LET skip == op.kind = "write" /\ ram.failW
         f    == IF skip THEN <<>> ELSE Found(op.key, Locations)
     IN
     IF ~skip /\ Corrupted(op.key, Locations) THEN RepairFirst("find")
     ELSE /\ x' = [x EXCEPT !.found = f,
                             !.ret = IF op.kind = "delete" THEN "verify" ELSE "return"]
          /\ Goto(CASE op.kind = "write" -> IF f # <<>> /\ Same(At(f).val, op.val)
                                            THEN "return" ELSE "writeData"
                    [] op.kind = "delete" /\ f # <<>> -> "setInactive"
                    [] OTHER -> "return")
          /\ UNCHANGED <<flash, ram>>
  /\ Quiet

\* NVOCMP_writeItem: the data, then the header; until then the item is torn.
\* An RDY page becomes active, but the state read before says it is not.
WriteData ==
  /\ at = "writeData"
  /\ LET p == ram.act IN
     IF flash[p].st = ACT /\ Room(p) >= Len(op.val)
     THEN /\ Put(p, Item(op.key, op.val))
          /\ Goto("writeHeader")
          /\ ram' = [ram EXCEPT !.failW = FALSE]
     ELSE /\ IF flash[p].st = RDY THEN State(p, ACT) ELSE UNCHANGED flash
          /\ Goto("fail")
          /\ ram' = [ram EXCEPT !.failW = TRUE]
  /\ UNCHANGED x /\ Quiet

\* The driver refuses the write.  A small item is then marked inactive, without a
\* header, and as that write succeeds (NVOCMP_writeByte) so does the call: the old
\* item is dropped.  Of a longer one nothing is there, the offset stays, and failW
\* lasts until the next write.
WriteFails ==
  /\ at = "writeData" /\ fails < MaxFails
  /\ flash[ram.act].st = ACT /\ Room(ram.act) >= Len(op.val)
  /\ LET p == ram.act IN
     \/ /\ Len(op.val) <= Small
        /\ Put(p, Item(op.key, op.val))
        /\ ram' = [ram EXCEPT !.off[p] = @ + 1]
        /\ x' = [x EXCEPT !.old = x.found, !.found = <<p, ram.off[p] + 1>>,
                          !.ret = "dropOld", !.failed = TRUE]
        /\ Goto("setInactive")
     \/ /\ Len(op.val) > Small
        /\ ram' = [ram EXCEPT !.failW = TRUE]
        /\ x' = [x EXCEPT !.failed = TRUE]
        /\ Goto("fail")
        /\ UNCHANGED flash
  /\ fails' = fails + 1
  /\ UNCHANGED <<op, res, seen, crashes>>

DropOld ==
  /\ at = "dropOld"
  /\ IF x.old = <<>> THEN Goto("return") /\ UNCHANGED x
     ELSE Goto("setInactive") /\ x' = [x EXCEPT !.found = x.old, !.ret = "return"]
  /\ UNCHANGED <<flash, ram>> /\ Quiet

\* Mutant: the old item stays active.
WriteHeaderKeepsOld ==
  /\ at = "writeHeader"
  /\ LET p == ram.act
         i == Len(flash[p].items)
     IN /\ flash' = [flash EXCEPT ![p].items[i].torn = FALSE]
        /\ ram' = [ram EXCEPT !.off[p] = @ + 1]
  /\ Goto("return")
  /\ UNCHANGED x /\ Quiet

WriteHeader ==
  /\ at = "writeHeader"
  /\ LET p == ram.act
         i == Len(flash[p].items)
     IN /\ flash' = [flash EXCEPT ![p].items[i].torn = FALSE]
        /\ ram' = [ram EXCEPT !.off[p] = @ + 1]
  /\ Goto(IF x.found = <<>> THEN "return" ELSE "setInactive")
  /\ UNCHANGED x /\ Quiet

\* Mutant: the page's allActive bits stay.
SetItemInactiveOnly ==
  /\ at = "setInactive"
  /\ flash' = [flash EXCEPT ![x.found[1]].items[x.found[2]].active = FALSE]
  /\ ram' = [ram EXCEPT !.failW = FALSE]
  /\ Goto(x.ret)
  /\ UNCHANGED x /\ Quiet

\* NVOCMP_setItemInactive: the item, then the page's allActive bits.
SetItemInactive ==
  /\ at = "setInactive"
  /\ flash' = [flash EXCEPT ![x.found[1]].items[x.found[2]].active = FALSE]
  /\ ram' = [ram EXCEPT !.failW = FALSE]
  /\ Goto(IF flash[x.found[1]].allActive THEN "setSomeInactive" ELSE x.ret)
  /\ UNCHANGED x /\ Quiet

SetSomeInactive ==
  /\ at = "setSomeInactive"
  /\ flash' = [flash EXCEPT ![x.found[1]].allActive = FALSE]
  /\ Goto(x.ret)
  /\ UNCHANGED <<ram, x>> /\ Quiet

\* A delete looks whether the item is gone.
VerifyDelete ==
  /\ at = "verify"
  /\ IF Corrupted(op.key, Locations) THEN RepairFirst("verify")
     ELSE /\ Goto(IF Found(op.key, Locations) = <<>> THEN "return" ELSE "fail")
          /\ UNCHANGED <<flash, ram, x>>
  /\ Quiet

Read == [k \in Keys |-> Value(k)]

Ends ==
  /\ at \in {"return", "fail", "booted"}
  /\ res' = CASE at = "return" -> "ok"
              [] at = "fail" -> "fail"
              [] at = "booted" -> IF op.kind = "boot" THEN "ok" ELSE "lost"
  /\ at' = "idle" /\ op' = NoCall /\ x' = Locals0 /\ seen' = Read
  /\ UNCHANGED <<flash, ram, crashes, fails>>

-----------------------------------------------------------------------------
(* NVOCMP_compactPage *)

\* Every page in use becomes a compaction source; nothing is done when all
\* items are active.
Mark ==
  /\ at = "mark"
  /\ LET p == x.pg IN
     IF p = NP
     THEN /\ IF ~ram.force /\ \A q \in Pages \ {ram.tail} : flash[q].allActive
             THEN Goto(x.ret) /\ x' = [x EXCEPT !.free = 0]
             ELSE Goto("loop") /\ UNCHANGED x
          /\ UNCHANGED <<flash, ram>>
     ELSE /\ x' = [x EXCEPT !.pg = @ + 1]
          /\ IF p # ram.tail /\ flash[p].st \in {ACT, FULL}
             THEN Mode(p, CSRC) /\ ram' = [ram EXCEPT !.failW = FALSE]
             ELSE UNCHANGED <<flash, ram>>
          /\ UNCHANGED at
  /\ Quiet

\* Mutant: the source page is not marked.
CompactLoopUnmarked ==
  /\ at = "loop"
  /\ LET y == [x EXCEPT !.srcPages = Higher(@, 1)]
         p == x.src
     IN \/ /\ x.left = 0
           /\ Goto("setAct") /\ UNCHANGED x
        \/ /\ x.left > 0 /\ x.nBytes > 0 /\ flash[p].allActive
           /\ x' = [y EXCEPT !.src = Inc(p), !.free = 0, !.srcPages = @ - 1,
                             !.left = @ - 1, !.skip = @ + 1]
           /\ UNCHANGED at
        \/ /\ x.left > 0 /\ (x.nBytes = 0 \/ ~flash[p].allActive)
           /\ x' = y /\ Goto("markDst")
  /\ UNCHANGED <<flash, ram>> /\ Quiet

\* NVOCMP_FASTCP: making room for an item skips the pages with nothing to drop.
CompactLoop ==
  /\ at = "loop"
  /\ LET y == [x EXCEPT !.srcPages = Higher(@, 1)]
         p == x.src
     IN \/ /\ x.left = 0
           /\ Goto("setAct") /\ UNCHANGED <<flash, x>>
        \/ /\ x.left > 0 /\ x.nBytes > 0 /\ flash[p].allActive
           /\ x' = [y EXCEPT !.src = Inc(p), !.free = 0, !.srcPages = @ - 1,
                             !.left = @ - 1, !.skip = @ + 1]
           /\ UNCHANGED <<flash, at>>
        \/ /\ x.left > 0 /\ (x.nBytes = 0 \/ ~flash[p].allActive)
           /\ State(p, XSRC)
           /\ x' = y /\ Goto("markDst")
  /\ UNCHANGED ram /\ Quiet

\* Mutant: the destination is not marked as such.
MarkDstNoMode ==
  /\ \/ at = "markDst" /\ State(x.dst, XDST) /\ Goto("markMode")
     \/ at = "markMode" /\ UNCHANGED flash /\ Goto("copy")
  /\ x' = [x EXCEPT !.sPage = x.src, !.cur = x.src, !.pos = ram.off[x.src]]
  /\ UNCHANGED ram /\ Quiet

MarkDst ==
  /\ \/ at = "markDst" /\ State(x.dst, XDST) /\ Goto("markMode")
     \/ at = "markMode" /\ Mode(x.dst, CDST) /\ Goto("copy")
  /\ x' = [x EXCEPT !.sPage = x.src, !.cur = x.src, !.pos = ram.off[x.src]]
  /\ UNCHANGED ram /\ Quiet

\* NVOCMP_compact: item by item from the newest of each source page.  After an
\* item without a valid header the next one is found by its signature; when
\* there is none before it on the page, the copying ends there, one byte before
\* the end of that remnant.
LastSource == Add(x.sPage, x.srcPages - 1)
Remnant    == x.pos > 0 /\ \A j \in 1..x.pos : flash[x.cur].items[j].torn

CopyEnds ==
  \/ x.cur = x.dst
  \/ Room(x.dst) = 0
  \/ x.pos = 0 /\ x.cur = LastSource
  \/ Remnant
  \/ /\ x.pos > 0
     /\ LET i == flash[x.cur].items[x.pos] IN
        ~i.torn /\ i.active /\ Len(i.val) > Room(x.dst)

Copy ==
  /\ at = "copy" /\ ~CopyEnds
  /\ IF x.pos = 0
     THEN /\ x' = [x EXCEPT !.cur = Inc(@), !.pos = ram.off[Inc(x.cur)]]
          /\ UNCHANGED <<flash, ram>>
     ELSE LET i == flash[x.cur].items[x.pos] IN
          /\ x' = [x EXCEPT !.pos = @ - 1]
          /\ IF ~i.torn /\ i.active
             THEN /\ Put(x.dst, i)
                  /\ ram' = [ram EXCEPT !.off[x.dst] = @ + 1]
             ELSE UNCHANGED <<flash, ram>>
  /\ UNCHANGED at /\ Quiet

\* Rounds that free no page have the same destination and start at the remnant,
\* which loses a byte or more in each: after any number of them it is no longer
\* than a header, and the copying goes on with the next source page.  On the
\* last one it ends there all the same, and that page is never erased.
PassRemnant ==
  /\ at = "copy" /\ Remnant
  /\ x.cur \notin {x.dst, LastSource} /\ Room(x.dst) > 0
  /\ flash[x.dst].e = x.cur
  /\ x' = [x EXCEPT !.cur = Inc(@), !.pos = ram.off[Inc(x.cur)]]
  /\ UNCHANGED <<flash, ram, at>> /\ Quiet

\* Two headers on the destination say where the copying began and ended; until
\* the next step the destination is still XDST, and is erased after a crash.
LastCopied == IF x.cur = x.dst THEN Dec(x.cur) ELSE x.cur
Unwritten  == /\ flash[x.dst].s \in {NoPage, x.sPage}
              /\ flash[x.dst].e \in {NoPage, LastCopied}

CopyDone ==
  /\ at = "copy" /\ CopyEnds /\ Unwritten
  /\ LET o == IF x.cur = x.dst THEN ram.off[LastCopied] ELSE x.pos
     IN flash' = [flash EXCEPT ![x.dst] =
                    [@ EXCEPT !.s = x.sPage, !.e = LastCopied, !.eOfs = o]]
  /\ x' = [x EXCEPT !.free = Room(x.dst)]
  /\ Goto("setDst")
  /\ UNCHANGED ram /\ Quiet

\* Over the headers of an earlier round others are written: the pages they then
\* name are the AND of both, which are not those copied.  The model ends there.
CopyGarbled ==
  /\ at = "copy" /\ CopyEnds /\ ~Unwritten
  /\ Goto("garbled")
  /\ UNCHANGED <<flash, ram, x>> /\ Quiet

Span(s, e) == {p \in Pages : (p + NP - s) % NP <= (e + NP - s) % NP}

\* Mutant: the last page keeps all its items.
CorrectedWhole(off, d) == [p \in Pages |-> IF p \in Span(d.s, d.e) /\ (p # d.e \/ d.eOfs = 0)
                                           THEN 0 ELSE off[p]]

\* The offsets of the source pages: what has not been copied stays.
Corrected(off, d) == [p \in Pages |-> IF p = d.e THEN d.eOfs
                                      ELSE IF p \in Span(d.s, d.e) THEN 0 ELSE off[p]]

SetDst ==
  /\ at = "setDst"
  /\ LET st == IF x.free >= Higher(x.nBytes, 1) THEN ACT ELSE FULL
         d  == flash[x.dst]
     IN /\ State(x.dst, st)
        /\ ram' = [ram EXCEPT !.act = IF st = ACT THEN x.dst ELSE @,
                              !.off = Corrected(@, d)]
        /\ x' = [x EXCEPT !.pg = d.s, !.cleaned = 0,
                          !.room = @ \/ (x.nBytes > 0 /\ x.free >= x.nBytes)]
  /\ Goto("clean") /\ Quiet

\* NVOCMP_cleanPage, for a compaction and for its recovery: pages that have been
\* copied are erased; the last one may keep its older part.
CleanPage ==
  /\ at = "clean"
  /\ LET p == x.pg
         last == p = flash[x.dst].e
         next == IF last THEN "cleaned" ELSE "clean"
     IN IF ram.off[p] = 0
        THEN /\ Erase(p)
             /\ x' = [x EXCEPT !.pg = Inc(p), !.cleaned = @ + 1]
             /\ Goto(next)
        ELSE /\ flash' = [flash EXCEPT ![p].ofs = ram.off[p]]
             /\ IF flash[p].st = ACT THEN Goto("cleanFull") /\ UNCHANGED x
                ELSE Goto(next) /\ x' = [x EXCEPT !.pg = Inc(p)]
             /\ UNCHANGED ram
  /\ Quiet

CleanFull ==
  /\ at = "cleanFull"
  /\ State(x.pg, FULL)
  /\ x' = [x EXCEPT !.pg = Inc(@)]
  /\ Goto(IF x.pg = flash[x.dst].e THEN "cleaned" ELSE "clean")
  /\ UNCHANGED ram /\ Quiet


\* The freed pages move to the tail; recovery at boot ends here.
Cleaned ==
  /\ at = "cleaned"
  /\ LET tail == Add(x.dst, x.cleaned)
         t    == Add(ram.tail, x.cleaned + x.skip)
         e    == flash[x.dst].e
     IN IF x.ret = "recovered"
        THEN /\ ram' = [ram EXCEPT !.tail = tail, !.head = Inc(tail)]
             /\ Goto("recovered") /\ UNCHANGED <<flash, x>>
        ELSE /\ Mode(x.dst, CDONE)
             /\ ram' = [ram EXCEPT !.tail = t, !.head = Inc(t)]
             /\ x' = [x EXCEPT !.left = @ - x.cleaned, !.skip = 0, !.dst = t,
                               !.srcPages = @ - x.cleaned,
                               !.src = IF ram.off[e] = 0 THEN Inc(e) ELSE e]
             /\ Goto(IF x.room THEN "setAct" ELSE "loop")
  /\ Quiet

SetAct ==
  /\ at = "setAct"
  /\ LET free == With(ACT) \cup With(RDY) IN
     IF free = {} /\ flash[ram.head].st = NACT
     THEN State(ram.head, RDY) /\ UNCHANGED <<ram, at>>
     ELSE /\ ram' = [ram EXCEPT !.act = IF With(ACT) # {} THEN Min(With(ACT))
                                        ELSE IF free # {} THEN Min(free) ELSE Dec(ram.tail),
                                !.force = FALSE]
          /\ State(ram.tail, XDST)
          /\ Goto(x.ret)
  /\ UNCHANGED x /\ Quiet

-----------------------------------------------------------------------------
(* NVOCMP_initNv, and the loss of power *)

Phase ==
  CASE at = "idle" -> "idle"
    [] at \in {"getDst", "compacted", "find", "writeData", "writeHeader", "dropOld", "setInactive",
               "setSomeInactive", "verify", "return", "fail"} -> "call"
    [] at \in {"mark", "loop", "markDst", "markMode", "copy", "setDst", "clean",
               "cleanFull", "cleaned", "setAct"} -> "compaction"
    [] OTHER -> "boot"

Crash ==
  /\ at \notin {"off", "garbled"} /\ crashes < MaxCrashes /\ Phase \in CrashIn
  /\ at' = "off" /\ ram' = Ram0 /\ x' = Locals0
  /\ op' = IF op = NoCall THEN [kind |-> "boot"] ELSE op
  /\ crashes' = crashes + 1
  /\ UNCHANGED <<flash, res, seen, fails>>

\* NVOCMP_scanPage: where the items of a page end.
Scanned(d) == IF d.st \in {NACT, XDST} THEN 0
              ELSE IF d.ofs # NoOffset THEN d.ofs
              ELSE Len(d.items)

HasDst == \E p \in Pages : flash[p].mode = CDST

InitAction ==
  IF \E st \in {XDST, XSRC, RDY} : Cardinality(With(st)) > 1 THEN "FORCE_CLEAN"
  ELSE IF With(NACT) = Pages THEN "NORMAL_INIT"
  ELSE IF With(XSRC) # {}
       THEN IF With(XDST) \cup With(NACT) # {} THEN "RECOVER_COMPACT"
            ELSE IF HasDst THEN "RECOVER_ERASE" ELSE "ERROR_UNKNOWN"
  ELSE IF With(XDST) # {} THEN "NORMAL_RESUME"
  ELSE IF With(ACT) \cup With(FULL) # {}
       THEN IF HasDst THEN "RECOVER_ERASE"
            ELSE IF With(NACT) # {} THEN "NORMAL_RESUME" ELSE "ERROR_UNKNOWN"
  ELSE "FORCE_CLEAN"

\* The page to be the tail: the one marked, else the last that is not in use.
PgXdst == IF With(XDST) # {} THEN Max(With(XDST)) ELSE Max(With(NACT))

Boot ==
  /\ at = "off"
  /\ LET off  == [p \in Pages |-> Scanned(flash[p])]
         ends == [Ram0 EXCEPT !.off = off, !.tail = PgXdst, !.head = Inc(PgXdst)]
     IN CASE InitAction = "FORCE_CLEAN" ->
               Goto("eraseAll") /\ ram' = [Ram0 EXCEPT !.off = off] /\ UNCHANGED <<flash, x>>
          [] InitAction = "NORMAL_INIT" ->
               /\ Goto("markHead")
               /\ ram' = [Ram0 EXCEPT !.tail = NP - 1]
               /\ UNCHANGED <<flash, x>>
          [] InitAction = "NORMAL_RESUME" ->
               /\ Goto("resume") /\ ram' = ends /\ State(PgXdst, XDST) /\ UNCHANGED x
          [] InitAction = "RECOVER_COMPACT" ->
               Goto("eraseDst") /\ ram' = ends /\ UNCHANGED <<flash, x>>
          [] InitAction = "RECOVER_ERASE" ->
               LET p == Min({q \in Pages : flash[q].mode = CDST}) IN
               /\ Goto("clean")
               /\ ram' = [Ram0 EXCEPT !.off = Corrected(off, flash[p])]
               /\ x' = [x EXCEPT !.dst = p, !.pg = flash[p].s, !.ret = "recovered"]
               /\ UNCHANGED flash
          [] InitAction = "ERROR_UNKNOWN" ->
               Goto("stuck") /\ UNCHANGED <<flash, ram, x>>
  /\ Quiet

EraseAll ==
  /\ at = "eraseAll"
  /\ Erase(x.pg)
  /\ x' = [x EXCEPT !.pg = @ + 1]
  /\ Goto(IF x.pg = NP - 1 THEN "markHead" ELSE "eraseAll")
  /\ Quiet

\* NVOCMP_NORMAL_INIT: the first page is ready, the last is the tail.
MarkHead ==
  /\ at = "markHead"
  /\ ram' = [ram EXCEPT !.head = 0, !.tail = NP - 1, !.act = 0]
  /\ State(0, RDY)
  /\ Goto("markTail")
  /\ UNCHANGED x /\ Quiet

MarkTail ==
  /\ at = "markTail"
  /\ State(ram.tail, XDST)
  /\ Goto("booted")
  /\ UNCHANGED <<ram, x>> /\ Quiet

\* NVOCMP_NORMAL_RESUME: the active page; its last item may have a predecessor
\* that a loss of power has left active.
Resume ==
  /\ at = "resume"
  /\ ram' = [ram EXCEPT !.act = IF With(ACT) # {} THEN Max(With(ACT))
                                ELSE IF With(RDY) # {} THEN Max(With(RDY)) ELSE ram.head]
  /\ LET p == ram'.act
         n == ram.off[p]
     IN IF With(ACT) = {} \/ n = 0 THEN Goto("booted") /\ UNCHANGED x
        ELSE LET i == flash[p].items[n] IN
             IF ~i.torn /\ i.active
             THEN Goto("dropOlder") /\ x' = [x EXCEPT !.key = i.key]
             ELSE Compact(0, "booted")
  /\ UNCHANGED flash /\ Quiet

\* The search starts below the last item; after a repair it starts again.
DropOlder ==
  /\ at = "dropOlder"
  /\ LET k     == x.key
         last  == <<ram.act, ram.off[ram.act]>>
         where == IF x.ret = "dropOlder" THEN Locations ELSE Locations \ {last}
         f     == Found(k, where)
     IN IF Corrupted(k, where)
        THEN /\ ram' = [ram EXCEPT !.force = TRUE]
             /\ Compact(0, "dropOlder")
             /\ UNCHANGED flash
        ELSE /\ IF f # <<>> /\ f # last
                THEN Goto("setInactive") /\ x' = [x EXCEPT !.found = f, !.ret = "booted"]
                ELSE Goto("booted") /\ UNCHANGED x
             /\ UNCHANGED <<flash, ram>>
  /\ Quiet

\* NVOCMP_RECOVER_COMPACT: the copying starts over on an erased page.
EraseDst ==
  /\ at = "eraseDst"
  /\ Erase(ram.tail)
  /\ Goto("remarkDst")
  /\ UNCHANGED x /\ Quiet

RemarkDst ==
  /\ at = "remarkDst"
  /\ State(ram.tail, XDST)
  /\ ram' = [ram EXCEPT !.force = TRUE]
  /\ Compact(0, "booted")
  /\ Quiet

\* NVOCMP_RECOVER_ERASE: after the pages already copied have been erased.
Recovered ==
  /\ at = "recovered"
  /\ LET known == SelectSeq(<<ACT, RDY, NACT, FULL>>, LAMBDA st : With(st) # {}) IN
     ram' = [ram EXCEPT !.act = IF known = <<>> THEN ram.head ELSE Min(With(Head(known)))]
  /\ State(ram.tail, XDST)
  /\ Goto("booted")
  /\ UNCHANGED x /\ Quiet

-----------------------------------------------------------------------------
Init ==
  /\ flash = [p \in Pages |-> Erased]
  /\ ram = Ram0
  /\ at = "off"
  /\ x = Locals0
  /\ op = [kind |-> "boot"]
  /\ res = "ok"
  /\ seen = [k \in Keys |-> NoValue]
  /\ crashes = 0
  /\ fails = 0

Calls == \/ \E k \in Keys, v \in Values : WriteItem(k, v)
         \/ \E k \in Keys : DeleteItem(k) \/ ReadItem(k)
         \/ CompactNv

Booting == \/ Boot \/ EraseAll \/ MarkHead \/ MarkTail \/ Resume \/ DropOlder
           \/ EraseDst \/ RemarkDst \/ Recovered

Working == \/ GetDstPage \/ Compacted \/ FindItem \/ WriteData \/ WriteHeader
           \/ SetItemInactive \/ SetSomeInactive \/ VerifyDelete \/ Ends

Compacting == \/ Mark \/ CompactLoop \/ MarkDst \/ Copy \/ PassRemnant \/ CopyDone
              \/ CopyGarbled \/ SetDst \/ CleanPage \/ CleanFull \/ Cleaned \/ SetAct

Step == Booting \/ Working \/ Compacting

Next == Calls \/ Step \/ Crash

\* The same on a flash that refuses some writes.
FailingNext == Next \/ WriteFails \/ DropOld

Spec == Init /\ [][Next]_vars

\* The task that made the call keeps running while there is power, and a remnant
\* has finitely many bytes to lose.
LiveSpec == Spec /\ WF_vars(Step) /\ SF_vars(PassRemnant)

-----------------------------------------------------------------------------
Items == [key : Keys, val : Values, active : BOOLEAN, torn : BOOLEAN, end : 1..Cap]

\* Type invariant: among it, no page holds more than fits.
TypeOK ==
  /\ \A p \in Pages :
       /\ flash[p].st \in NACT..XSRC /\ flash[p].mode \in NORMAL..CSRC
       /\ flash[p].allActive \in BOOLEAN
       /\ {flash[p].s, flash[p].e} \subseteq Pages \cup {NoPage}
       /\ {flash[p].ofs, flash[p].eOfs} \subseteq 0..Cap \cup {NoOffset}
       /\ flash[p].items \in Seq(Items)
       /\ \A i \in 1..Len(flash[p].items) :
            Used(p, i) = Used(p, i - 1) + Len(flash[p].items[i].val)
       /\ ram.off[p] \in 0..Len(flash[p].items)
  /\ {ram.head, ram.tail, ram.act} \subseteq Pages /\ {ram.force, ram.failW} \subseteq BOOLEAN
  /\ seen \in [Keys -> Values \cup {NoValue}]
  /\ res \in {"ok", "fail", "lost"}
  /\ crashes \in 0..MaxCrashes /\ fails \in 0..MaxFails

Map == INSTANCE NvMap WITH store <- seen, pending <- op, result <- res

\* The store is the map nvocmp.h promises: what the items read as after a call
\* is what the calls so far have written, whatever was copied, moved, erased or
\* cut short below.
ImplementsMap == Map!MSpec

\* An item is there until it is deleted: initNv, compaction and a failing call
\* drop none of those that were readable.
Durable == [][\A k \in Keys : seen[k] # NoValue /\ seen'[k] = NoValue
                => op.kind = "delete" /\ op.key = k]_vars

\* A write fails for want of room only when the items that exist, the old value
\* of this one included, and the new one do not fit: compaction finds the room
\* that deletions and updates leave anywhere, skipped pages included.  A page may
\* end in a gap smaller than the largest item.
Longest == Max({Len(v) : v \in Values})
Size(v) == IF v = NoValue THEN 0 ELSE Len(v)

Full(v) ==
  MapThenSumSet(LAMBDA k : Size(seen[k]), Keys) + Len(v) > (NP - 1) * (Cap - Longest + 1)

\* nvocmp_cc35xx.c: "Each item is unique, addressed using three ID values".
\* When no call runs, no item id has two active instances, one of which would
\* come back when the other is deleted.
ItemsUnique == at = "idle" => \A k \in Keys : Cardinality(Matches(k, Locations)) <= 1

Doubled(k) == Cardinality(Matches(k, Locations)) > 1

\* The first item of a page has no header: compaction cannot free that page.
FirstTorn == \E p \in Pages : flash[p].items # <<>> /\ flash[p].items[1].torn

\* What a failed write may do: a call changes what no other item reads as, unless an
\* earlier failure left that one active twice, and a later write that returns
\* success is what the item reads as, unless it is the end of a longer old value.
OnlyOwnItem ==
  /\ \A k \in Keys : seen'[k] # seen[k]
                     => \/ Doubled(k) \/ FirstTorn
                        \/ op.kind \in {"write", "delete"} /\ op.key = k
  /\ op.kind = "write" /\ at = "return" /\ at' = "idle" /\ ~x.failed
       => \/ FirstTorn \/ seen'[op.key] = op.val
          \/ Same(seen[op.key], op.val) /\ UNCHANGED seen

\* initNv always finds an action: one loss of power never leaves page states
\* that hold it in NVOCMP_ASSERT1.
NeverStuck == at # "stuck"

\* nvocmp_cc35xx.c: compaction "will resume where it was interrupted and
\* complete the process": every call, and initNv, ends.  False of the code when
\* a loss of power has torn the first item of the last source page.
Ended     == at \in {"idle", "garbled"}
Completes == (at # "idle") ~> Ended

\* The remnant of a write is all that is left on the last source page: it keeps
\* the compaction from freeing that page, and from ending.
Endless == at = "copy" /\ Remnant /\ x.cur = LastSource /\ x.nBytes = 0


\* NVOCMP_writeItemApi: "data is not checked for redundancy.  Data passed to
\* this function will be written to NV."  False of the code where Values holds
\* the end of another value (README, section 6).
WritesTaken ==
  [][op.kind = "write" /\ at = "return" /\ at' = "idle" => seen'[op.key] = op.val]_vars
=============================================================================
