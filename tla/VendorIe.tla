-------------------------------- MODULE VendorIe --------------------------------
(* The vendor information elements of a role (wlan_cmd.c): a circular list with a   *)
(* sentinel, kept per role, from which the template the firmware sends is made.     *)
(* Only the command thread works on it.                                             *)
EXTENDS Integers, Sequences, FiniteSets, Functions

CONSTANTS VieRoles,  \* roles that have a list
          Nodes      \* bound: the nodes os_malloc may give

VARIABLES vieHead,  \* g_vendor_ie
          heap,     \* the allocated nodes: their oui and the next node
          firmware, \* the elements the firmware sends, per role
          step,     \* the command that runs: what it does and to which role
          untold,   \* roles whose firmware was not told of the last change of their list
          stray     \* a list that does not exist was followed

vieVars == <<vieHead, heap, firmware, step, untold, stray>>

Null == "null"
End == "END_VENDOR_LIST"
Ouis == <<"oui1", "oui2">>   \* of example_1 and example_2, or example_3 and example_4
Done == [does |-> "nothing", role |-> Null, i |-> 0]
ToDo(does, r, i) == [does |-> does, role |-> r, i |-> i]

Init ==
  /\ vieHead = [r \in VieRoles |-> Null]
  /\ heap = [n \in {} |-> Null]
  /\ firmware = [r \in VieRoles |-> <<>>]
  /\ step = Done /\ untold = {} /\ stray = FALSE

With(h, n, rec) == [m \in DOMAIN h \cup {n} |-> IF m = n THEN rec ELSE h[m]]
Without(h, ns) == [m \in DOMAIN h \ ns |-> h[m]]
Node(oui, next) == [oui |-> oui, next |-> next]

\* The nodes of a list from its head on: as far as the sentinel, which is reached
\* within as many steps as there are nodes if the list is sound.
Walk(h, head) ==
  LET w[k \in 0..Cardinality(Nodes)] ==
        IF k = 0 THEN <<head>>
        ELSE LET l == w[k - 1] last == l[Len(l)] IN
             IF last \in DOMAIN h /\ h[last].next # head THEN Append(l, h[last].next) ELSE l
  IN Tail(w[Cardinality(Nodes)])
OuisOf(h, head) ==
  LET l == Walk(h, head) IN
    [k \in DOMAIN l |-> IF l[k] \in DOMAIN h THEN h[l[k]].oui ELSE Null]
FreeNode == CHOOSE n \in Nodes : n \notin DOMAIN heap
HasNode == Nodes \ DOMAIN heap # {}

\* set_vendor_ie: the template, which two elements never make too long, is sent.
Sends(r, ouis) ==
  /\ firmware' = [firmware EXCEPT ![r] = ouis]
  /\ untold' = untold \ {r}

\* No memory for the template, or Wlan_Set refuses it: nothing takes the change of the
\* list back.
SendFails(r) == untold' = untold \cup {r} /\ UNCHANGED firmware

\* A command goes on once an element's template was sent, and ends if that failed.
SendsOrEnds(h, then) ==
  \/ Sends(step.role, OuisOf(h, vieHead[step.role])) /\ step' = then
  \/ SendFails(step.role) /\ step' = Done

\* create_vendor_ie_list: a list that is there already is only complained about.  Without
\* memory for the sentinel nothing changes.
Creates(r, then) ==
  /\ HasNode
  /\ LET n == FreeNode IN
    /\ heap' = With(heap, n, Node(End, n))
    /\ vieHead' = [vieHead EXCEPT ![r] = n]
    /\ untold' = IF vieHead[r] = Null THEN untold ELSE untold \cup {r}
    /\ step' = then
    /\ UNCHANGED <<firmware, stray>>

\* cmdCreateVendorIEListCallback, and cmdAddVendorIECallback, which always makes a list.
CreateList(r) == step = Done /\ Creates(r, Done)
AddVendorIe(r) == step = Done /\ Creates(r, ToDo("add", r, 1))

\* add_vendor_ie, for the first element and then the second: the sentinel comes first
\* in its walk, so a new element always goes behind it,
\* whether or not the list has one of its oui.  The command ends if there is no memory.
AddIe ==
  /\ step.does = "add"
  /\ \/ /\ HasNode
        /\ LET n == FreeNode head == vieHead[step.role] IN
             heap' = With([heap EXCEPT ![head].next = n], n, Node(Ouis[step.i], heap[head].next))
        /\ SendsOrEnds(heap', IF step.i = 1 THEN [step EXCEPT !.i = 2] ELSE Done)
     \/ step' = Done /\ UNCHANGED <<heap, firmware, untold>>
  /\ UNCHANGED <<vieHead, stray>>

\* cmdDeleteVendorIECallback: both elements, then the list.  Nothing asks whether there
\* is a list.
DeleteVendorIe(r) ==
  /\ step = Done
  /\ IF vieHead[r] = Null THEN stray' = TRUE /\ UNCHANGED step
                          ELSE step' = ToDo("delete", r, 1) /\ UNCHANGED stray
  /\ UNCHANGED <<vieHead, heap, firmware, untold>>

Holding(r, oui) ==
  {n \in Range(Walk(heap, vieHead[r])) : heap[n].oui = oui}

AfterDelete == IF step.i = 1 THEN [step EXCEPT !.i = 2] ELSE [step EXCEPT !.does = "list"]

\* Mutant: the list is not closed over the deleted element.
DeleteIeUnlinked ==
  /\ step.does = "delete"
  /\ heap' = Without(heap, Holding(step.role, Ouis[step.i]))
  /\ SendsOrEnds(heap', AfterDelete)
  /\ UNCHANGED <<vieHead, stray>>

\* delete_vendor_ie: the list is closed over the element and the template sent; no
\* such element, and nothing is done.
DeleteIe ==
  /\ step.does = "delete"
  /\ LET r == step.role found == Holding(r, Ouis[step.i]) IN
       \/ found = {} /\ step' = AfterDelete /\ UNCHANGED <<heap, firmware, untold>>
       \/ \E n \in found, prev \in Range(<<vieHead[r]>> \o Walk(heap, vieHead[r])) :
            /\ heap[prev].next = n
            /\ heap' = Without([heap EXCEPT ![prev].next = heap[n].next], {n})
            /\ SendsOrEnds(heap', AfterDelete)
  /\ UNCHANGED <<vieHead, stray>>

\* delete_vendor_ie_list: for a list with elements, clear_vendor_ie_list (which starts at
\* the sentinel and so frees none of them) and an empty template, which may be refused;
\* then the sentinel.
DeletesList(r) ==
  /\ IF OuisOf(heap, vieHead[r]) = <<>> THEN UNCHANGED <<firmware, untold>>
                                       ELSE Sends(r, <<>>) \/ SendFails(r)
  /\ heap' = Without(heap, {vieHead[r]})
  /\ vieHead' = [vieHead EXCEPT ![r] = Null]
  /\ step' = Done

\* cmdDeleteVendorIEListCallback.
DeleteList(r) ==
  /\ step = Done
  /\ IF vieHead[r] = Null
     THEN stray' = TRUE /\ UNCHANGED <<vieHead, heap, firmware, step, untold>>
     ELSE DeletesList(r) /\ UNCHANGED stray

DeleteEnds ==
  /\ step.does = "list" /\ DeletesList(step.role)
  /\ UNCHANGED stray

Next ==
  \/ \E r \in VieRoles : CreateList(r) \/ AddVendorIe(r) \/ DeleteVendorIe(r) \/ DeleteList(r)
  \/ AddIe \/ DeleteIe \/ DeleteEnds

Spec == Init /\ [][Next]_vieVars

-----------------------------------------------------------------------------
\* Whatever was added and deleted in whatever order, a list is one cycle through its own
\* sentinel: no freed node in it, none twice, and none shared between two roles
\* (wlan_cmd.c:1577, 1638).
Members(r) == Range(Walk(heap, vieHead[r])) \cup {vieHead[r]}

ListsSound ==
  \A r \in VieRoles : vieHead[r] # Null =>
    /\ Members(r) \subseteq DOMAIN heap
    /\ IsInjective(Walk(heap, vieHead[r]))
    /\ \A n \in Members(r) : heap[n].oui = End <=> n = vieHead[r]
    /\ \A q \in VieRoles \ {r} : vieHead[q] # Null => Members(q) \cap Members(r) = {}

\* Between commands the firmware sends exactly the elements of the list, except after a
\* template that was not sent (wlan_cmd.c:1668, 1718, 1517) or a list created over another
\* (1449), and then only until the next template is sent.
FirmwareFollows ==
  step = Done => \A r \in VieRoles \ untold :
    firmware[r] = IF vieHead[r] = Null THEN <<>> ELSE OuisOf(heap, vieHead[r])

=============================================================================
