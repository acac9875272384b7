---------------------------- MODULE AddressSpace ----------------------------
(***************************************************************************)
(* What the virtual memory manager promises: a partial function from       *)
(* virtual pages to frames with flags.  A call names a range of pages; it  *)
(* deals with them one by one, in order, and changes no others.            *)
(***************************************************************************)
EXTENDS Integers

CONSTANTS
  Size,    \* virtual pages; page numbers wrap round
  Starts,  \* the pages ranges start at
  Firsts,  \* the frames they are mapped to start at
  Flags,
  Counts   \* lengths of ranges

VARIABLES
  mapping,
  call,   \* what is left of the call in progress
  result  \* what the last call returned

NoCall ==
  [op |-> "none", page |-> 0, frame |-> 0, flags |-> "none", left |-> 0, ranged |-> FALSE]

MapRequests ==
  [op : {"map"}, page : Starts, frame : Firsts, flags : Flags, left : Counts, ranged : {TRUE}]

UnmapRequests ==
  [op : {"unmap"}, page : Starts, frame : {0}, flags : {"none"}, left : Counts,
   ranged : BOOLEAN]

Init == mapping = [v \in {} |-> 0] /\ call = NoCall /\ result = 0

Begin ==
  /\ call = NoCall
  /\ call' \in MapRequests \cup UnmapRequests
  /\ UNCHANGED <<mapping, result>>

\* A call to map may be refused, at once or in the middle of its range.
Refuse ==
  /\ call.op \in {"none", "map"}
  /\ call' = NoCall /\ result' = -1
  /\ UNCHANGED mapping

\* The page at hand, and the rest of the call once it is dealt with.
Page == call.page % Size

GoOn(r) ==
  IF call.left > 1
    THEN /\ call' = [call EXCEPT !.page = @ + 1, !.frame = @ + 1, !.left = @ - 1]
         /\ UNCHANGED result
    ELSE call' = NoCall /\ result' = r

Map ==
  /\ call.op = "map"
  /\ mapping' = [v \in DOMAIN mapping \cup {Page} |->
                   IF v = Page THEN [page |-> call.frame, flags |-> call.flags]
                   ELSE mapping[v]]
  /\ GoOn(0)

\* Unmapping one page reports whether it was mapped; unmapping a range does not.
Unmap ==
  /\ call.op = "unmap"
  /\ mapping' = [v \in DOMAIN mapping \ {Page} |-> mapping[v]]
  /\ GoOn(IF call.ranged \/ Page \in DOMAIN mapping THEN 0 ELSE -1)

Next == Begin \/ Refuse \/ Map \/ Unmap

Spec == Init /\ [][Next]_<<mapping, call, result>>
=============================================================================
