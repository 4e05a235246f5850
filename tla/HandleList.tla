----------------------------- MODULE HandleList -----------------------------
(***************************************************************************)
(* What a doubly linked list with stable handles promises: a sequence of   *)
(* elements, each under a handle that no other element ever had or will    *)
(* have.  An operation on a handle works on the element that was inserted  *)
(* under it, or fails and changes nothing.                                 *)
(***************************************************************************)
EXTENDS Naturals, SequencesExt

CONSTANTS Value,    \* the elements
          Handle,   \* the handles this list may issue
          Foreign   \* the handles of other lists

VARIABLES entries,  \* the elements in list order, each with its handle
          issued,   \* every handle an insertion ever returned
          obs       \* the last call and what it returned

vars == <<entries, issued, obs>>

HandleListInit == entries = <<>> /\ issued = {} /\ obs = <<"New">>

-----------------------------------------------------------------------------
(* Insertions.                                                             *)

\* A new element, under handle h, becomes the k-th.
AddEntry(h, k, x) ==
  /\ issued' = issued \cup {h}
  /\ entries' = InsertAt(entries, k, [h |-> h, v |-> x])

\* The handle of a new element was never issued.
InsertEntry(call, k, x) ==
  \E h \in Handle \ issued :
    obs' = call \o <<x, "Done", h>> /\ AddEntry(h, k, x)

Push(x) ==
  \/ InsertEntry(<<"PushFront">>, 1, x)
  \/ InsertEntry(<<"PushBack">>, Len(entries) + 1, x)

InsertBeside(k, x) ==
  \/ InsertEntry(<<"InsertBefore", entries[k].h>>, k, x)
  \/ InsertEntry(<<"InsertAfter", entries[k].h>>, k + 1, x)

-----------------------------------------------------------------------------
(* Operations on the k-th element, through its handle.                     *)

RemoveElement(k) ==
  /\ obs' = <<"Remove", entries[k].h, "Done", entries[k].v>>
  /\ entries' = RemoveAt(entries, k)
  /\ UNCHANGED issued

Set(k, x) ==
  /\ obs' = <<"Set", entries[k].h, x, "Done">>
  /\ entries' = [entries EXCEPT ![k].v = x]
  /\ UNCHANGED issued

HandleAt(k) == IF k \in DOMAIN entries THEN <<"Some", entries[k].h>>
                                       ELSE <<"None">>

ReadElement(k) ==
  LET e == entries[k]
  IN /\ \/ obs' = <<"Get", e.h, "Done", e.v>>
        \/ obs' = <<"Next", e.h, "Done">> \o HandleAt(k + 1)
        \/ obs' = <<"Prev", e.h, "Done">> \o HandleAt(k - 1)
     /\ UNCHANGED <<entries, issued>>

-----------------------------------------------------------------------------
(* Calls on no element.                                                    *)

Refused(h, error) ==
  /\ obs' = <<"Fail", h, error>>
  /\ UNCHANGED <<entries, issued>>

Unused == Handle \ { entries[k].h : k \in DOMAIN entries }

ReadAll ==
  /\ \/ obs' = <<"Length", Len(entries)>>
     \/ obs' = <<"ToList", [k \in DOMAIN entries |-> entries[k].v]>>
  /\ UNCHANGED <<entries, issued>>

-----------------------------------------------------------------------------
HandleListNext ==
  \/ \E h \in Foreign : Refused(h, "ForeignHandle")
  \/ \E h \in Handle : Refused(h, "StaleHandle") /\ h \in Unused
  \/ ReadAll
  \/ \E k \in DOMAIN entries : RemoveElement(k) \/ ReadElement(k)
  \/ \E k \in DOMAIN entries, x \in Value : InsertBeside(k, x) \/ Set(k, x)
  \/ \E x \in Value : Push(x)

HandleListSpec == HandleListInit /\ [][HandleListNext]_vars
=============================================================================
