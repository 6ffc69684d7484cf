------------------------ MODULE MCConversationFiles ------------------------
(* Small values for ConversationFiles. *)
EXTENDS ConversationFiles

CONSTANTS k1, k2, k3, t1, t2

AllKeys == {k1, k2, k3}

\* Dropped is the filter of the library, on short lists.
ASSUME \A list \in UNION {[1 .. n -> AllKeys] : n \in 0 .. 4}, k \in AllKeys :
         Dropped(list, k) = SelectSeq(list, LAMBDA x : x # k)

AllTexts == {t1, t2}
AllPaths == {<<"a">>, <<"a", "b">>}

Delete1(k) == [tool |-> "delete", key |-> k]
ListAt(p) == [tool |-> "list", path |-> p]
Make(p) == [tool |-> "folder", path |-> p]
Upload(p, t) == [tool |-> "upload", path |-> p, text |-> t]
Unlink(p) == [tool |-> "remove", path |-> p]
Bash(p) == [tool |-> "bash", path |-> p]

\* Deletes of one file, and of two in one message; uploads beside others.
SomeBatches ==
  {<<Delete1(k1)>>, <<Delete1(k1), Delete1(k2)>>, <<Delete1(k1), Delete1(k1)>>,
   <<Upload(<<"a", "b">>, t1), Unlink(<<"a">>)>>,
   <<Upload(<<"a", "b">>, t1), Upload(<<"a", "b">>, t2)>>,
   <<Upload(<<"a">>, t1), ListAt(<<>>)>>,
   <<Unlink(<<"a">>), Make(<<"a", "b">>)>>,
   <<Upload(<<"a", "b">>, t1), Bash(<<"a">>)>>}

=============================================================================
