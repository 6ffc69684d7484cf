------------------------ MODULE ConversationDocument ------------------------
(***************************************************************************)
(* The persisted document of one conversation and what each operation of   *)
(* LocalConversationStore does to it, as operators without state.  The     *)
(* store (ConversationStore) and its abstract specification                *)
(* (AtomicDocument) share them.                                            *)
(*                                                                         *)
(* Kept of a document: the owner organisation, the status, the context     *)
(* (messages, tool calls and durable events as one value), last_message_at *)
(* (the stamp) and the title.  The usage and system_prompt fields travel   *)
(* with the context.                                                       *)
(***************************************************************************)
EXTENDS Naturals

CONSTANTS Orgs,      \* organisations that call the store
          Contexts,  \* the contexts and titles the callers write
          None       \* Python's None: no document, no context, no title

Statuses == {"working", "idle", "error"}

Docs == [org: Orgs, status: Statuses, ctx: Contexts \cup {None},
         stamp: Nat, title: Contexts \cup {None}]

\* Bug: a status no client knows.
BugNewDoc(org, now) ==
  [org |-> org, status |-> "new", ctx |-> None, stamp |-> now, title |-> None]

\* What create() writes for a new conversation.
NewDoc(org, now) ==
  [org |-> org, status |-> "working", ctx |-> None, stamp |-> now, title |-> None]

-----------------------------------------------------------------------------
(* The requests.  A save carries the last_message_at its caller computed;  *)
(* a claim the status and the stamp its caller read.                       *)

Saves  == [kind: {"save"}, org: Orgs, status: Statuses, ctx: Contexts, stamp: Nat]
Marks  == [kind: {"status"}, org: Orgs, status: Statuses]
Titles == [kind: {"title"}, org: Orgs, title: Contexts]
Claims == [kind: {"claim"}, org: Orgs, allowed: Statuses, expected: Nat]

Requests == Saves \cup Marks \cup Titles \cup Claims

ASSUME NoneAssumption == None \notin Contexts \cup Docs \cup Requests

\* The document is there and belongs to the caller's organisation.
Matches(doc, org) == doc # None /\ doc.org = org

\* The checks an operation makes on the document it read under the lock.
Accepts(r, doc) ==
  /\ Matches(doc, r.org)
  /\ r.kind = "title" => doc.title = None
  /\ r.kind = "claim" => doc.status = r.allowed /\ doc.stamp = r.expected

Saved(r, doc) ==
  [doc EXCEPT !.status = r.status, !.ctx = r.ctx, !.stamp = r.stamp]

Marked(r, doc, now) ==
  [doc EXCEPT !.status = r.status,
              !.stamp = IF r.status = "working" THEN now ELSE @]

\* Bug: the claim leaves last_message_at as it was.
BugClaimed(doc, now) == [doc EXCEPT !.status = "working"]

Claimed(doc, now) == [doc EXCEPT !.status = "working", !.stamp = now]

\* The document the operation writes back.
Edited(r, doc, now) ==
  CASE r.kind = "save"   -> Saved(r, doc)
    [] r.kind = "status" -> Marked(r, doc, now)
    [] r.kind = "title"  -> [doc EXCEPT !.title = r.title]
    [] r.kind = "claim"  -> Claimed(doc, now)

=============================================================================
