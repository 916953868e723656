---------------------------- MODULE MCFileTools ----------------------------
(* A file and a path with no file yet.  An edit and two patches meet on p1;  *)
(* the patches take p1 and p2 in opposite orders, one creating p2 and the    *)
(* other deleting it, and a write races both there.                          *)
EXTENDS FileTools, TLC

CONSTANTS c1, c2, p1, p2, l1, l2

MCLocks == {l1, l2}
MCPaths == {p1, p2}
MCCallers == {c1, c2}

Update(p, subs) == [kind |-> "update", path |-> p, subs |-> subs, text |-> {}]
Add(p, text)    == [kind |-> "add", path |-> p, subs |-> <<>>, text |-> text]
Delete(p)       == [kind |-> "delete", path |-> p, subs |-> <<>>, text |-> {}]
Put(p, text)    == [kind |-> "put", path |-> p, subs |-> <<>>, text |-> text]

Edit(p, subs)   == [tool |-> "edit", ops |-> <<Update(p, subs)>>]
Patch(ops)      == [tool |-> "patch", ops |-> ops]
Write(p, text)  == [tool |-> "write", ops |-> <<Put(p, text)>>]

MCFragments == {"a", "a1", "a2", "b", "c", "c1", "d", "d1", "n", "q", "w"}

MCFiles0 == (p1 :> {"a", "b", "c", "d"}) @@ (p2 :> NoFile)

EditNoOp  == Edit(p1, << <<"q", "q">> >>)
EditTwice == Edit(p1, << <<"a", "a1">>, <<"a1", "a2">> >>)
PatchOut  == Patch(<< Update(p1, << <<"c", "c1">> >>), Add(p2, {"n"}) >>)
PatchBack == Patch(<< Delete(p2), Update(p1, << <<"d", "d1">> >>) >>)
WriteNew  == Write(p2, {"w"})

AllTools == {EditTwice, EditNoOp, PatchOut, PatchBack, WriteNew}

\* Only when every call has returned may everybody rest: a state where calls are under
\* way and none can go on is a deadlock.
Rest ==
  /\ \A j \in Jobs : status[j] # "new" /\ \A c \in Callers : job[c] # j
  /\ UNCHANGED fvars

MCNext == FNext \/ Rest

MCSpec == FInit /\ [][MCNext]_fvars
=============================================================================
