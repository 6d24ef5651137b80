------------------------------- MODULE OsiFile -------------------------------
(***************************************************************************)
(* The file functions the radio stacks use (src/adaptation/                *)
(* osi_filesystem.c): read-only flash areas (the firmware in one of two    *)
(* slots, the configuration found through the manifest of the vendor       *)
(* image) and six files that are one NV item each.  The NV store is a map, *)
(* as NvStore shows; its calls do not overlap.  A write deletes the item   *)
(* before it writes it, and power may be lost between the two.             *)
(***************************************************************************)
EXTENDS Integers, Sequences, FiniteSets

CONSTANTS BleFiles,   \* our_sec, peer_sec, cccd
          WlanFiles,  \* conn_p, profiles, .fast
          Data,       \* contents of a file
          Manifests,  \* manifests a vendor image may have: sequences of TLV types
          Open,       \* bound: handles open at a time
          MaxBoots    \* bound: losses of power

VARIABLES nv,       \* the items: their contents or NoData
          file,     \* the handles that are open: [name, xmem], xmem 0 when there is none
          xmem,     \* XMEM handles that are open
          confAt,   \* confGpeDataOffset, as the index of a TLV; 0 before the first open
          manifest, \* the manifest of the vendor image
          slot,     \* Fwslot
          writes,   \* handles whose osi_fwrite has deleted and not yet written
          promised, \* what the last complete write of an item left (history)
          cut,      \* items whose write failed or was cut short (history)
          boots

fileVars == <<nv, file, xmem, confAt, manifest, slot, writes, promised, cut, boots>>

NoData   == "none"
NvFiles  == BleFiles \cup WlanFiles
Names    == NvFiles \cup {"fw", "cc35xx-conf", "rambtlr"}
Handles  == 1..Open
IsOpen(f) == file[f].name # "closed"
Closed   == [name |-> "closed", xmem |-> 0]

Init ==
  /\ nv = [n \in NvFiles |-> NoData]
  /\ file = [f \in Handles |-> Closed]
  /\ xmem = {} /\ confAt = 0 /\ slot = 1
  /\ manifest \in Manifests
  /\ writes = [f \in Handles |-> NoData]
  /\ promised = nv /\ cut = {} /\ boots = 0

\* osi_fset: the slot of the firmware files opened from now on.
SetSlot(s) ==
  /\ slot # s /\ slot' = s
  /\ UNCHANGED <<nv, file, xmem, confAt, manifest, writes, promised, cut, boots>>

\* getProtectedTlvManifestHdr and findTlvInTlvManifestTlv: the first line of that type,
\* and every read of the flash may fail.
FindTlv(type) ==
  {i \in DOMAIN manifest :
     manifest[i] = type /\ \A j \in 1..(i - 1) : manifest[j] # type}

NewXmem == CHOOSE h \in 1..(Open + 1) : h \notin xmem

OpenPlain(f, name) ==
  /\ ~IsOpen(f) /\ name \in NvFiles \cup {"rambtlr"}
  /\ file' = [file EXCEPT ![f] = [name |-> name, xmem |-> 0]]
  /\ UNCHANGED <<nv, xmem, confAt, manifest, slot, writes, promised, cut, boots>>

OpenFw(f) ==
  /\ ~IsOpen(f)
  /\ file' = [file EXCEPT ![f] = [name |-> "fw", xmem |-> NewXmem]]
  /\ xmem' = xmem \cup {NewXmem}
  /\ UNCHANGED <<nv, confAt, manifest, slot, writes, promised, cut, boots>>

\* osi_fopen("cc35xx-conf") and getConfContent.
OpenConf(f) ==
  /\ ~IsOpen(f)
  /\ \E i \in FindTlv("conf") :
       /\ confAt' = i
       /\ file' = [file EXCEPT ![f] = [name |-> "cc35xx-conf", xmem |-> NewXmem]]
       /\ xmem' = xmem \cup {NewXmem}
  /\ UNCHANGED <<nv, manifest, slot, writes, promised, cut, boots>>

\* The read of the manifest fails, or it has no such line: the handle is closed again.
OpenConfFails(f) ==
  /\ ~IsOpen(f)
  /\ UNCHANGED fileVars

\* osi_fclose: the bonding items are deleted with their file, the others stay.
Close(f) ==
  /\ IsOpen(f) /\ writes[f] = NoData
  /\ LET n == file[f].name
         gone == IF n \in BleFiles THEN {n} ELSE {} IN
     /\ nv' = [m \in NvFiles |-> IF m \in gone THEN NoData ELSE nv[m]]
     /\ promised' = [m \in NvFiles |-> IF m \in gone THEN NoData ELSE promised[m]]
     /\ cut' = cut \ gone
     /\ xmem' = xmem \ {file[f].xmem}
  /\ file' = [file EXCEPT ![f] = Closed]
  /\ UNCHANGED <<confAt, manifest, slot, writes, boots>>

\* osi_fwrite deletes ...  One file is written by one thread at a time.
WriteBegins(f, data) ==
  /\ file[f].name \in NvFiles /\ writes[f] = NoData
  /\ \A g \in Handles \ {f} : file[g].name = file[f].name => writes[g] = NoData
  /\ nv' = [nv EXCEPT ![file[f].name] = NoData]
  /\ writes' = [writes EXCEPT ![f] = data]
  /\ cut' = cut \cup {file[f].name}
  /\ UNCHANGED <<file, xmem, confAt, manifest, slot, promised, boots>>

\* ... and writes.
WriteEnds(f) ==
  /\ writes[f] # NoData
  /\ nv' = [nv EXCEPT ![file[f].name] = writes[f]]
  /\ promised' = [promised EXCEPT ![file[f].name] = writes[f]]
  /\ cut' = cut \ {file[f].name}
  /\ writes' = [writes EXCEPT ![f] = NoData]
  /\ UNCHANGED <<file, xmem, confAt, manifest, slot, boots>>

\* The store is full: the old contents are gone too.
WriteFails(f) ==
  /\ writes[f] # NoData
  /\ writes' = [writes EXCEPT ![f] = NoData]
  /\ UNCHANGED <<nv, file, xmem, confAt, manifest, slot, promised, cut, boots>>

\* osi_fremove removes only the fast-connect file; of the others it says so too.
Remove(f) ==
  /\ file[f].name = ".fast" /\ \A g \in Handles : file[g].name = ".fast" => writes[g] = NoData
  /\ nv' = [nv EXCEPT ![".fast"] = NoData]
  /\ promised' = [promised EXCEPT ![".fast"] = NoData]
  /\ cut' = cut \ {".fast"}
  /\ UNCHANGED <<file, xmem, confAt, manifest, slot, writes, boots>>

\* Power is lost: what is in RAM is gone.
PowerLost ==
  /\ boots < MaxBoots /\ boots' = boots + 1
  /\ file' = [f \in Handles |-> Closed]
  /\ xmem' = {} /\ confAt' = 0 /\ slot' = 1
  /\ writes' = [f \in Handles |-> NoData]
  /\ UNCHANGED <<nv, manifest, promised, cut>>

Next ==
  \/ \E s \in {1, 2} : SetSlot(s)
  \/ \E f \in Handles :
       \/ \E name \in Names : OpenPlain(f, name)
       \/ OpenFw(f) \/ OpenConf(f) \/ OpenConfFails(f) \/ Close(f)
       \/ \E data \in Data : WriteBegins(f, data)
       \/ WriteEnds(f) \/ WriteFails(f) \/ Remove(f)
  \/ PowerLost

Spec == Init /\ [][Next]_fileVars

-----------------------------------------------------------------------------
\* Every open flash handle belongs to an open file, a configuration file that is open is
\* read where its TLV is, and an item holds what was last written to it, across losses of
\* power and closed files, unless a write was cut between its two halves
\* (osi_filesystem.c:711).
FilesSafe ==
  /\ xmem = {file[f].xmem : f \in {g \in Handles : file[g].xmem # 0}}
  /\ \A f \in Handles : file[f].name = "cc35xx-conf" => manifest[confAt] = "conf"
  /\ \A n \in NvFiles \ cut : nv[n] = promised[n]
=============================================================================
