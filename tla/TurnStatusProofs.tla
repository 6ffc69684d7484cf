-------------------------- MODULE TurnStatusProofs ---------------------------
(***************************************************************************)
(* Proof about TurnLifecycle, while nobody cancels and no turn runs into   *)
(* its tool call limit: one turn runs at a time and is shown as working,   *)
(* for any senders, uploads and store calls that fail, and restarts.  The  *)
(* last section proves the types and the two locks with cancels and the    *)
(* limit as well.                                                          *)
(*                                                                         *)
(* The argument: from the claim that let it in to its last save a request  *)
(* and its turn own the status "working", and a claim is only accepted for *)
(* a status that its caller read, which was another.  A turn whose last    *)
(* save has acted holds the lock until it ends.                            *)
(***************************************************************************)
EXTENDS TurnLifecycle, FiniteSetTheorems, SequenceTheorems, NaturalsInduction,
        WellFoundedInduction, TLAPS

-----------------------------------------------------------------------------
(* The invariant *)

\* Stages with a store call that keeps "working", that may replace it, and all.
Holding   == {"seeding", "marking", "saving"}
Releasing == {"restoring", "completing", "failing", "refailing", "giveUp"}
Calling   == Holding \cup Releasing \cup {"claiming"}

\* r has claimed the turn and its call that ends the claim has not acted.
Owns(r) ==
  \/ pc[r] = "claiming" /\ outcome[r] = "done"
  \/ pc[r] \in Holding
       \cup {"uploading", "loading", "merging", "load", "running", "unwinding", "reload",
             "refail"}
  \/ pc[r] \in Releasing /\ outcome[r] # "done"

\* That call has acted and r has not gone on.
Leaving(r) == pc[r] \in Releasing /\ outcome[r] = "done"

Writes(r) == r.kind \in {"save", "status"}

\* What the store was asked for fits the stage.
Fits(r) ==
  /\ pc[r] \notin Calling => call[r] = None
  /\ call[r] = None => outcome[r] = "pending"
  /\ pc[r] = "claiming" => call[r].kind = "claim" /\ call[r].allowed # "working"
  /\ pc[r] \in Holding => Writes(call[r]) /\ call[r].status = "working"
  /\ pc[r] \in Releasing => Writes(call[r])

\* A call that has acted belongs to the lock's holder.
AtHead(r) == outcome[r] # "pending" => lockQ # <<>> /\ Head(lockQ) = r

IsDoc(d) ==
  \E A, B, C, D, E : d \in [org: A, status: B, ctx: C, stamp: D, title: E]

Shaped ==
  /\ pc = [r \in Requesters |-> pc[r]] /\ call = [r \in Requesters |-> call[r]]
  /\ outcome = [r \in Requesters |-> outcome[r]]
  /\ lockQ \in Seq(Requesters)
  /\ cancelled = {} /\ late = None

Begun ==
  IF pc[Creator] = "start"
  THEN doc = None /\ \A r \in Requesters : pc[r] = "start"
  ELSE IsDoc(doc)

Owned ==
  /\ \A r \in Requesters : Owns(r) => doc.status = "working"
  /\ \A q, r \in Requesters : Owns(q) /\ (Owns(r) \/ Leaving(r)) => q = r

OInv ==
  /\ Shaped /\ Begun /\ Owned
  /\ \A r \in Requesters : Fits(r) /\ AtHead(r) /\ pc[r] # "limited"

-----------------------------------------------------------------------------
(* What the steps have in common *)

\* r goes on; the others and the document stay as they are.
Moves(r) ==
  /\ pc' = [pc EXCEPT ![r] = pc'[r]] /\ call' = [call EXCEPT ![r] = call'[r]]
  /\ outcome' = [outcome EXCEPT ![r] = outcome'[r]]
  /\ doc' = doc

LEMMA MoveKeeps ==
  ASSUME OInv, NEW r \in Requesters, Moves(r), lockQ' \in Seq(Requesters),
         cancelled' = {}, late' = None,
         pc[Creator] # "start", pc'[r] \notin {"start", "limited"},
         Fits(r)', AtHead(r)', ~Leaving(r)',
         Owns(r)' => Owns(r),
         \A q \in Requesters \ {r} :
           outcome[q] # "pending" => lockQ' # <<>> /\ Head(lockQ') = q
  PROVE  OInv'
<1>1. \A q \in Requesters \ {r} :
        pc'[q] = pc[q] /\ call'[q] = call[q] /\ outcome'[q] = outcome[q]
  BY DEF OInv, Shaped, Moves
<1>2. Creator \in Requesters
  BY DEF Requesters
<1>3. Shaped'
  BY DEF OInv, Shaped, Moves
<1>4. Begun'
  BY <1>1, <1>2 DEF OInv, Begun, Moves
<1>5. \A q \in Requesters \ {r} :
        /\ Fits(q)' /\ AtHead(q)' /\ pc'[q] # "limited"
        /\ Owns(q)' = Owns(q) /\ Leaving(q)' = Leaving(q)
  BY <1>1 DEF OInv, Fits, AtHead, Owns, Leaving
<1>6. Owned'
  BY <1>5 DEF OInv, Owned, Moves
<1>7. QED
  BY <1>3, <1>4, <1>5, <1>6 DEF OInv

\* r asks the store: at the end of the lock's queue, having left its head.
LEMMA AskKeeps ==
  ASSUME OInv, NEW r \in Requesters, NEW q, Ask(r, q),
         pc' = [pc EXCEPT ![r] = pc'[r]], cancelled' = {}, late' = None,
         pc[Creator] # "start", pc'[r] \in Calling,
         call[r] = None \/ outcome[r] # "pending",
         pc'[r] = "claiming" => q.kind = "claim" /\ q.allowed # "working",
         pc'[r] \in Holding => Writes(q) /\ q.status = "working",
         pc'[r] \in Releasing => Writes(q),
         pc'[r] = "claiming" \/ Owns(r)
  PROVE  OInv'
<1>1. call[r] # None => lockQ # <<>> /\ Head(lockQ) = r
  BY DEF OInv, AtHead
<1>2. lockQ' \in Seq(Requesters)
  BY <1>1 DEF OInv, Shaped, Ask
<1>3. \A p \in Requesters \ {r} :
        outcome[p] # "pending" => lockQ' # <<>> /\ Head(lockQ') = p
  <2> SUFFICES ASSUME NEW p \in Requesters \ {r}, outcome[p] # "pending"
               PROVE  lockQ' # <<>> /\ Head(lockQ') = p
    OBVIOUS
  <2>1. lockQ # <<>> /\ Head(lockQ) = p
    BY DEF OInv, AtHead
  <2>2. lockQ' = Append(lockQ, r)
    BY <1>1, <2>1 DEF Ask
  <2>3. lockQ \in Seq(Requesters)
    BY DEF OInv, Shaped
  <2>4. QED
    BY <2>1, <2>2, <2>3
<1>4. call'[r] = q /\ outcome'[r] = "pending" /\ Moves(r)
  BY DEF OInv, Shaped, Ask, Moves
<1>5. Fits(r)' /\ AtHead(r)' /\ ~Leaving(r)' /\ (Owns(r)' => Owns(r))
  BY <1>4 DEF Fits, AtHead, Leaving, Owns, Calling, Holding, Releasing
<1>6. pc'[r] \notin {"start", "limited"}
  BY DEF Calling, Holding, Releasing
<1>7. QED
  BY <1>2, <1>3, <1>4, <1>5, <1>6, MoveKeeps

\* r's call came back and r goes on without another.
LEMMA ReturnKeeps ==
  ASSUME OInv, NEW r \in Requesters, Return(r), outcome[r] # "pending",
         pc' = [pc EXCEPT ![r] = pc'[r]], cancelled' = {}, late' = None,
         pc[Creator] # "start",
         pc'[r] \notin Calling \cup {"start", "limited"},
         Owns(r)' => Owns(r)
  PROVE  OInv'
<1>1. lockQ \in Seq(Requesters) /\ lockQ # <<>> /\ Head(lockQ) = r
  BY DEF OInv, Shaped, AtHead
<1>2. lockQ' \in Seq(Requesters)
  BY <1>1 DEF Return
<1>3. \A p \in Requesters \ {r} : outcome[p] = "pending"
  BY <1>1 DEF OInv, AtHead
<1>4. call'[r] = None /\ outcome'[r] = "pending" /\ Moves(r)
  BY DEF OInv, Shaped, Return, Moves
<1>5. Fits(r)' /\ AtHead(r)' /\ ~Leaving(r)'
  BY <1>4 DEF Fits, AtHead, Leaving, Calling, Holding, Releasing
<1>6. QED
  BY <1>2, <1>3, <1>4, <1>5, MoveKeeps

\* r goes on without the store.
LEMMA GoesOnKeeps ==
  ASSUME OInv, NEW r \in Requesters, UNCHANGED store,
         pc' = [pc EXCEPT ![r] = pc'[r]], cancelled' = {}, late' = None,
         pc[Creator] # "start",
         pc[r] \notin Calling,
         pc'[r] \notin Calling \cup {"start", "limited"},
         Owns(r)' => Owns(r)
  PROVE  OInv'
<1>1. call[r] = None /\ outcome[r] = "pending"
  BY DEF OInv, Fits
<1>2. lockQ' = lockQ /\ call' = call /\ outcome' = outcome /\ doc' = doc
  BY DEF store
<1>3. Moves(r) /\ lockQ' \in Seq(Requesters)
  BY <1>2 DEF OInv, Shaped, Moves
<1>4. \A p \in Requesters \ {r} :
        outcome[p] # "pending" => lockQ' # <<>> /\ Head(lockQ') = p
  BY <1>2 DEF OInv, AtHead
<1>5. Fits(r)' /\ AtHead(r)' /\ ~Leaving(r)'
  BY <1>1, <1>2 DEF Fits, AtHead, Leaving, Calling, Holding, Releasing
<1>6. QED
  BY <1>3, <1>4, <1>5, MoveKeeps

-----------------------------------------------------------------------------
(* The steps *)

LEMMA OwnerInit == ASSUME Cancels = {} PROVE Init => OInv
<1>1. Actors = Requesters
  BY DEF Actors
<1>2. QED
  BY <1>1 DEF Init, OInv, Shaped, Begun, Owned, Fits, AtHead, Owns, Leaving, Requesters,
              Calling, Holding, Releasing

LEMMA Going ==
  ASSUME OInv, NEW r \in Requesters, pc[r] # "start"
  PROVE  pc[Creator] # "start"
  BY DEF OInv, Begun, Requesters

LEMMA CreateKeeps == OInv /\ Create => OInv'
<1> SUFFICES ASSUME OInv, Create PROVE OInv'
  OBVIOUS
<1>1. /\ pc[Creator] = "start" /\ Creator \in Requesters
      /\ doc' = NewDoc("own", Now)
      /\ pc' = [pc EXCEPT ![Creator] = "uploading"]
      /\ lockQ' = lockQ /\ call' = call /\ outcome' = outcome
      /\ cancelled' = cancelled /\ late' = late
  BY DEF Create, Goto, requestOnly, Requesters
<1>2. \A r \in Requesters : pc[r] = "start" /\ call[r] = None /\ outcome[r] = "pending"
  BY <1>1 DEF OInv, Begun, Fits, Calling, Holding, Releasing
<1>3. Shaped' /\ pc'[Creator] = "uploading"
        /\ \A r \in Requesters \ {Creator} : pc'[r] = "start"
  BY <1>1, <1>2 DEF OInv, Shaped
<1>4. IsDoc(doc') /\ doc'.status = "working"
  <2>1. /\ doc' \in [org: {"own"}, status: {"working"}, ctx: {None}, stamp: {Now},
                     title: {None}]
        /\ doc'.status = "working"
    BY <1>1 DEF NewDoc
  <2>2. QED
    BY <2>1 DEF IsDoc
<1>5. \A r \in Requesters : Fits(r)' /\ AtHead(r)' /\ pc'[r] # "limited"
  BY <1>1, <1>2, <1>3 DEF Fits, AtHead, Calling, Holding, Releasing
<1>6. \A r \in Requesters : ~Leaving(r)' /\ (Owns(r)' => r = Creator)
  BY <1>1, <1>2, <1>3 DEF Leaving, Owns, Holding, Releasing
<1>7. Begun' /\ Owned'
  BY <1>1, <1>3, <1>4, <1>6 DEF Begun, Owned, IsDoc
<1>8. QED
  BY <1>3, <1>5, <1>7 DEF OInv

\* A request goes from its read to its claim, through its uploads to its turn.
LEMMA RequestKeeps ==
  ASSUME OInv, NEW r \in Requesters, RequestStep(r)
  PROVE  OInv'
<1> USE DEF Calling, Holding, Releasing
<1>1. CASE Get(r)
  BY <1>1, GoesOnKeeps DEF Get, Look, requestOnly, OInv, Shaped, Begun, Owns
<1>2. CASE Check(r)
  <2>1. CASE view[r].status = "working"
    BY <1>2, <2>1, Going, GoesOnKeeps DEF Check, Goto, requestOnly, OInv, Shaped, Owns
  <2>2. CASE view[r].status # "working"
    BY <1>2, <2>2, Going, AskKeeps
    DEF Check, Goto, requestOnly, OInv, Shaped, Fits, Claim
  <2>3. QED
    BY <2>1, <2>2
<1>3. CASE ClaimReturns(r)
  <2>1. CASE pc'[r] # "marking"
    BY <1>3, <2>1, Going, ReturnKeeps
    DEF ClaimReturns, Back, Goto, requestOnly, OInv, Shaped, Owns
  <2>2. CASE pc'[r] = "marking"
    BY <1>3, <2>2, Going, AskKeeps
    DEF ClaimReturns, Back, Goto, requestOnly, OInv, Shaped, Owns, Fits, Mark, Writes
  <2>3. QED
    BY <2>1, <2>2
<1>4. CASE Upload(r)
  <2>1. CASE pc'[r] = "loading"
    BY <1>4, <2>1, Going, GoesOnKeeps DEF Upload, Goto, requestOnly, OInv, Shaped, Owns
  <2>2. CASE pc'[r] = "seeding"
    BY <1>4, <2>2, Going, AskKeeps
    DEF Upload, Goto, requestOnly, OInv, Shaped, Owns, Fits, Save, Writes
  <2>3. QED
    BY <1>4, <2>1, <2>2 DEF Upload, Goto, OInv, Shaped
<1>5. CASE UploadFails(r)
  BY <1>5, Going, AskKeeps
  DEF UploadFails, Goto, requestOnly, OInv, Shaped, Owns, Fits, Mark, Writes
<1>6. CASE LoadForFiles(r)
  BY <1>6, Going, GoesOnKeeps DEF LoadForFiles, Look, requestOnly, OInv, Shaped, Owns
<1>7. CASE Merge(r)
  BY <1>7, Going, AskKeeps
  DEF Merge, Goto, requestOnly, OInv, Shaped, Owns, Fits, Save, Writes
<1>8. CASE Refuse(r)
  BY <1>8, Going, ReturnKeeps DEF Refuse, Back, Goto, requestOnly, OInv, Shaped, Owns
<1>9. CASE StartTurn(r)
  <2>1. CASE pc[r] = "merging" /\ UNCHANGED store
    BY <1>9, <2>1, Going, GoesOnKeeps DEF StartTurn, Goto, OInv, Shaped, Owns
  <2>2. CASE Back(r, {"seeding", "marking"}, {"done"}) /\ Return(r)
    BY <1>9, <2>2, Going, ReturnKeeps DEF StartTurn, Back, Goto, OInv, Shaped, Owns
  <2>3. QED
    BY <1>9, <2>1, <2>2 DEF StartTurn
<1>10. CASE r = Creator /\ SeedFails
  BY <1>10, Going, AskKeeps
  DEF SeedFails, Back, Goto, requestOnly, OInv, Shaped, Owns, Mark, Writes
<1>11. QED
  BY <1>1, <1>2, <1>3, <1>4, <1>5, <1>6, <1>7, <1>8, <1>9, <1>10, CreateKeeps
  DEF RequestStep

\* A turn keeps "working" until its last save, whatever raises before.
LEMMA TurnKeeps ==
  ASSUME OInv, Limited = {}, NEW r \in Requesters, TurnStep(r)
  PROVE  OInv'
<1> USE DEF Calling, Holding, Releasing
<1>1. CASE Load(r)
  BY <1>1, Going, GoesOnKeeps
  DEF Load, Runs, Finally, End, Goto, turnOnly, OInv, Shaped, Owns
<1>2. CASE StartFails(r)
  BY <1>2, Going, AskKeeps
  DEF StartFails, Runs, Goto, turnOnly, OInv, Shaped, Owns, Fits, Save, Writes
<1>3. CASE Message(r)
  BY <1>3, Going, AskKeeps
  DEF Message, Runs, Publish, Goto, turnOnly, OInv, Shaped, Owns, Fits, Save, Writes
<1>4. CASE Limit(r)
  BY <1>4 DEF Limit
<1>5. CASE Published(r)
  BY <1>5, Going, ReturnKeeps
  DEF Published, Runs, Back, Goto, turnOnly, OInv, Shaped, Owns
<1>6. CASE Complete(r)
  BY <1>6, Going, AskKeeps
  DEF Complete, Runs, Back, Publish, Goto, turnOnly, OInv, Shaped, Owns, Fits, Save,
      Writes
<1>7. CASE Fail(r)
  BY <1>7, Going, AskKeeps
  DEF Fail, Runs, Back, Publish, Goto, turnOnly, OInv, Shaped, Owns, Fits, Save, Writes
<1>8. CASE Finish(r)
  BY <1>8, Going, ReturnKeeps
  DEF Finish, Runs, Back, Finally, End, Goto, turnOnly, OInv, Shaped, Owns
<1>9. CASE Unwind(r)
  BY <1>9, Going, ReturnKeeps
  DEF Unwind, Runs, Back, Finally, Goto, turnOnly, OInv, Shaped, Owns
<1>10. CASE Drained(r)
  BY <1>10, Going, GoesOnKeeps
  DEF Drained, Runs, End, Goto, turnOnly, OInv, Shaped, Owns
<1>11. CASE Reload(r)
  BY <1>11, Going, GoesOnKeeps DEF Reload, Runs, Look, turnOnly, OInv, Shaped, Owns
<1>12. CASE Refail(r)
  BY <1>12, Going, AskKeeps
  DEF Refail, Runs, Publish, Goto, turnOnly, OInv, Shaped, Owns, Fits, Save, Writes
<1>13. CASE GiveUp(r)
  BY <1>13, Going, AskKeeps
  DEF GiveUp, Runs, Back, Goto, OInv, Shaped, Owns, Fits, Mark, Writes
<1>14. CASE GivenUp(r)
  BY <1>14, Going, ReturnKeeps
  DEF GivenUp, Runs, Back, End, Goto, turnOnly, OInv, Shaped, Owns
<1>15. CASE Interrupt(r)
  BY <1>15 DEF Interrupt, OInv, Shaped
<1>16. QED
  BY <1>1, <1>2, <1>3, <1>4, <1>5, <1>6, <1>7, <1>8, <1>9, <1>10, <1>11, <1>12, <1>13,
     <1>14, <1>15 DEF TurnStep

LEMMA Records ==
  ASSUME NEW A, NEW B, NEW C, NEW D, NEW E,
         NEW d \in [org: A, status: B, ctx: C, stamp: D, title: E]
  PROVE  IsDoc(d)
  BY DEF IsDoc

\* What a call makes of the status.
LEMMA EditedStatus ==
  ASSUME NEW q, NEW d, IsDoc(d), NEW now
  PROVE  /\ Writes(q) => IsDoc(Edited(q, d, now)) /\ Edited(q, d, now).status = q.status
         /\ q.kind = "claim" =>
              IsDoc(Edited(q, d, now)) /\ Edited(q, d, now).status = "working"
<1>1. PICK A, B, C, D, E : d \in [org: A, status: B, ctx: C, stamp: D, title: E]
  BY DEF IsDoc
<1>2. /\ Saved(q, d) \in [org: A, status: {q.status}, ctx: {q.ctx}, stamp: {q.stamp},
                          title: E]
      /\ Saved(q, d).status = q.status
  BY <1>1 DEF Saved
<1>3. /\ Marked(q, d, now) \in [org: A, status: {q.status}, ctx: C,
                                stamp: D \cup {now}, title: E]
      /\ Marked(q, d, now).status = q.status
  BY <1>1 DEF Marked
<1>4. /\ Claimed(d, now) \in [org: A, status: {"working"}, ctx: C, stamp: {now},
                              title: E]
      /\ Claimed(d, now).status = "working"
  BY <1>1 DEF Claimed
<1>5. IsDoc(Saved(q, d)) /\ IsDoc(Marked(q, d, now)) /\ IsDoc(Claimed(d, now))
  <2>1. IsDoc(Saved(q, d))
    BY <1>2, Records
  <2>2. IsDoc(Marked(q, d, now))
    BY ZenonT(30), <1>3, Records
  <2>3. IsDoc(Claimed(d, now))
    BY <1>4, Records
  <2>4. QED
    BY <2>1, <2>2, <2>3
<1>6. /\ q.kind = "save" => Edited(q, d, now) = Saved(q, d)
      /\ q.kind = "status" => Edited(q, d, now) = Marked(q, d, now)
      /\ q.kind = "claim" => Edited(q, d, now) = Claimed(d, now)
  BY DEF Edited
<1>7. QED
  BY <1>2, <1>3, <1>4, <1>5, <1>6 DEF Writes

\* A call acts, is refused, or raises.
LEMMA LandKeeps ==
  ASSUME OInv, NEW a \in Requesters, Land(a)
  PROVE  OInv'
<1> USE DEF Calling, Holding, Releasing
<1>1. /\ lockQ # <<>> /\ Head(lockQ) = a /\ lockQ' = lockQ
      /\ call[a] # None /\ outcome[a] = "pending" /\ call' = call /\ pc' = pc
      /\ cancelled' = cancelled /\ late' = late
  BY DEF Land
<1>2. pc[a] \in Calling /\ pc[Creator] # "start" /\ IsDoc(doc)
  <2>1. pc[a] \in Calling
    BY <1>1 DEF OInv, Fits
  <2>2. pc[Creator] # "start"
    BY <2>1, Going
  <2>3. QED
    BY <2>1, <2>2 DEF OInv, Begun
<1>3. Shaped' /\ outcome'[a] \in {"done", "refused", "failed"}
      /\ \A r \in Requesters \ {a} : outcome'[r] = outcome[r]
  BY <1>1 DEF Land, OInv, Shaped
<1>4. \A r \in Requesters \ {a} : outcome[r] = "pending"
  BY <1>1 DEF OInv, AtHead
<1>5. \A r \in Requesters : Fits(r)' /\ AtHead(r)' /\ pc'[r] # "limited"
  BY <1>1, <1>3, <1>4 DEF OInv, Fits, AtHead
<1>6. \A r \in Requesters \ {a} : Owns(r)' = Owns(r) /\ ~Leaving(r) /\ ~Leaving(r)'
  BY <1>1, <1>3, <1>4 DEF Owns, Leaving
<1>7. CASE outcome'[a] # "done" \/ pc[a] \in Holding
  <2>1. Owns(a)' = Owns(a) /\ ~Leaving(a)'
    BY <1>1, <1>2, <1>3, <1>7 DEF Owns, Leaving
  <2>2. IsDoc(doc') /\ (Owns(a) => doc'.status = "working")
    <3>1. CASE outcome'[a] # "done"
      BY <1>1, <1>2, <3>1 DEF Land, OInv, Owned, Shaped
    <3>2. CASE outcome'[a] = "done" /\ pc[a] \in Holding
      <4>1. doc' = Edited(call[a], doc, Now)
        BY <3>2 DEF Land, OInv, Shaped
      <4>2. Writes(call[a]) /\ call[a].status = "working"
        BY <3>2 DEF OInv, Fits
      <4>3. QED
        BY <1>2, <4>1, <4>2, EditedStatus
    <3>3. QED
      BY <1>7, <3>1, <3>2
  <2>3. \A r \in Requesters : Owns(r) => doc'.status = "working"
    <3>1. CASE outcome'[a] # "done"
      <4>1. doc' = doc
        BY <1>1, <3>1 DEF Land, OInv, Shaped
      <4>2. QED
        BY <4>1 DEF OInv, Owned
    <3>2. CASE pc[a] \in Holding
      <4>1. Owns(a)
        BY <3>2 DEF Owns
      <4>2. QED
        BY <2>2, <4>1 DEF OInv, Owned
    <3>3. QED
      BY <1>7, <3>1, <3>2
  <2>4. Begun' /\ Owned'
    BY <1>1, <1>2, <1>6, <2>1, <2>2, <2>3 DEF OInv, Begun, Owned
  <2>5. QED
    BY <1>3, <1>5, <2>4 DEF OInv
<1>8. CASE outcome'[a] = "done" /\ pc[a] = "claiming"
  <2>1. call[a].kind = "claim" /\ call[a].allowed # "working"
    BY <1>8 DEF OInv, Fits
  <2>2. Accepts(call[a], doc) /\ doc' = Edited(call[a], doc, Now)
    BY <1>8 DEF Land, OInv, Shaped
  <2>3. IsDoc(doc') /\ doc'.status = "working"
    BY <1>2, <2>1, <2>2, EditedStatus
  <2>4. doc.status # "working"
    BY <2>1, <2>2 DEF Accepts
  <2>5. \A r \in Requesters : ~Owns(r)
    BY <2>4 DEF OInv, Owned
  <2>6. Owns(a)' /\ ~Leaving(a)'
    BY <1>1, <1>8 DEF Owns, Leaving
  <2>7. Begun' /\ Owned'
    BY <1>1, <1>2, <1>6, <2>3, <2>5, <2>6 DEF Begun, Owned
  <2>8. QED
    BY <1>3, <1>5, <2>7 DEF OInv
<1>9. CASE outcome'[a] = "done" /\ pc[a] \in Releasing
  <2>1. doc' = Edited(call[a], doc, Now) /\ Writes(call[a])
    BY <1>9 DEF Land, OInv, Shaped, Fits
  <2>2. IsDoc(doc')
    BY <1>2, <2>1, EditedStatus
  <2>3. Owns(a) /\ ~Owns(a)'
    BY <1>1, <1>9 DEF Owns
  <2>4. \A r \in Requesters : ~Owns(r)'
    BY <1>6, <2>3 DEF OInv, Owned
  <2>5. Begun' /\ Owned'
    BY <1>1, <1>2, <2>2, <2>4 DEF Begun, Owned
  <2>6. QED
    BY <1>3, <1>5, <2>5 DEF OInv
<1>10. QED
  BY <1>2, <1>3, <1>7, <1>8, <1>9

LEMMA CrashKeeps == ASSUME Cancels = {}, OInv, Crash PROVE OInv'
<1> USE DEF Calling, Holding, Releasing
<1>1. Actors = Requesters /\ Creator \in Requesters
  BY DEF Actors, Requesters
<1>2. Shaped' /\ doc' = doc
  BY <1>1 DEF Crash, OInv, Shaped
<1>3. \A r \in Requesters :
        /\ pc'[r] \in {"start", "ended", "replied"} /\ (pc'[r] = "start" <=> pc[r] = "start")
        /\ call'[r] = None /\ outcome'[r] = "pending"
  BY <1>1 DEF Crash
<1>4. \A r \in Requesters :
        Fits(r)' /\ AtHead(r)' /\ pc'[r] # "limited" /\ ~Owns(r)' /\ ~Leaving(r)'
  BY <1>3 DEF Fits, AtHead, Owns, Leaving
<1>5. Begun' /\ Owned'
  BY <1>1, <1>2, <1>3, <1>4 DEF OInv, Begun, Owned
<1>6. QED
  BY <1>2, <1>4, <1>5 DEF OInv

LEMMA OwnerNext ==
  ASSUME Cancels = {}, Limited = {}
  PROVE  OInv /\ [Next]_vars => OInv'
<1> SUFFICES ASSUME OInv, [Next]_vars PROVE OInv'
  OBVIOUS
<1>1. CASE UNCHANGED vars
  BY <1>1 DEF vars, OInv, Shaped, Begun, Owned, Fits, AtHead, Owns, Leaving
<1>2. ASSUME NEW a \in Actors, Land(a) PROVE OInv'
  BY <1>2, LandKeeps DEF Actors
<1>3. ASSUME NEW r \in Requesters, RequestStep(r) \/ TurnStep(r) PROVE OInv'
  BY <1>3, RequestKeeps, TurnKeeps
<1>4. CASE LateWrite
  BY <1>4 DEF LateWrite, OInv, Shaped
<1>5. CASE Crash
  BY <1>5, CrashKeeps
<1>6. QED
  BY <1>1, <1>2, <1>3, <1>4, <1>5 DEF Next

-----------------------------------------------------------------------------
(* The results *)

LEMMA OwnerFacts == OInv => OneRunner /\ TurnShowsWorking
<1> SUFFICES ASSUME OInv PROVE OneRunner /\ TurnShowsWorking
  OBVIOUS
<1> USE DEF Calling, Holding, Releasing
<1>1. \A r \in Requesters : Turning(r) => Owns(r) \/ Leaving(r)
  BY DEF OInv, Turning, TurnStages, Owns, Leaving
<1>2. \A r \in Requesters : Leaving(r) => Head(lockQ) = r
  BY DEF OInv, AtHead, Leaving
<1>3. OneRunner
  BY <1>1, <1>2 DEF OneRunner, OInv, Owned
<1>4. TurnShowsWorking
  BY DEF TurnShowsWorking, OInv, Owned, Owns
<1>5. QED
  BY <1>3, <1>4

\* While nobody cancels and no turn runs into its tool call limit, two turns never
\* run over one conversation: claim_turn lets a request in only for a status that
\* is not "working", and nobody replaces that before the turn's last save
\* (router.py:102-164, 358-425), whatever uploads and saves fail.
THEOREM OneTurnRuns == ASSUME Cancels = {}, Limited = {} PROVE Spec => []OneRunner
<1>1. QED
  BY OwnerInit, OwnerNext, OwnerFacts, PTL DEF Spec

\* Then a turn at work is shown as working until its last save, so that a request
\* that comes meanwhile is refused (router.py:378-382).
THEOREM WorkingIsShown ==
  ASSUME Cancels = {}, Limited = {} PROVE Spec => []TurnShowsWorking
<1>1. QED
  BY OwnerInit, OwnerNext, OwnerFacts, PTL DEF Spec


-----------------------------------------------------------------------------
(***************************************************************************)
(* Proof about TurnLifecycle, while nobody cancels, no turn runs into its  *)
(* tool call limit or fails before it has its state, and the store calls   *)
(* that raise are a claim's or a turn's own, but not the last resort of a  *)
(* turn: the stored status is true, so "working" always has an owner.      *)
(*                                                                         *)
(* The argument: every call that ends a claim writes another status than   *)
(* "working" and is accepted, since it names the conversation's own        *)
(* organisation; and a turn finds a context, since the creation's request  *)
(* owns the conversation until it has stored one.                          *)
(***************************************************************************)

CalmAssumption ==
  /\ Cancels = {} /\ Limited = {} /\ BadStart = {}
  /\ Creator \notin BadUpload
  /\ FaultAt \cap {"seeding", "marking", "restoring", "giveUp"} = {}
  /\ None \notin Seq(Events) /\ ~IsDoc(None)

-----------------------------------------------------------------------------
(* The invariant *)

Contents == Seq(Events) \cup {None}

\* What r holds in memory and has asked the store for.
Local(r) ==
  /\ log[r] \in Seq(Events)
  /\ pc[r] \in {"merging", "refail"} => view[r].ctx \in Contents
  /\ pc[r] \in {"claiming", "uploading"} /\ r # Creator => view[r].status # "working"
  /\ pc[r] \in Calling =>
       /\ call[r].org = "own"
       /\ call[r].kind = "save" => call[r].ctx \in Seq(Events)
  /\ pc[r] = "seeding" => r = Creator /\ call[r].kind = "save"
  /\ pc[r] \in Releasing => call[r].status # "working"
  /\ outcome[r] = "refused" => pc[r] = "claiming"
  /\ outcome[r] = "failed" => pc[r] \in FaultAt

\* Until the creation has stored a context it owns the conversation.
Seeded ==
  doc.ctx = None => /\ pc[Creator] \in {"uploading", "seeding"} /\ outcome[Creator] = "pending"
                    /\ Owns(Creator)

Kept == doc.status = "working" => \E r \in Requesters : Owns(r)

KInv ==
  /\ view = [r \in Requesters |-> view[r]] /\ log = [r \in Requesters |-> log[r]]
  /\ crashes \in Nat
  /\ \A r \in Requesters : Local(r)
  /\ pc[Creator] # "start" => doc.org = "own" /\ doc.ctx \in Contents
  /\ crashes = 0 /\ pc[Creator] # "start" => Seeded /\ Kept

-----------------------------------------------------------------------------
(* What the steps have in common *)

\* r goes on, and keeps what it owns.
LEMMA StayKeeps ==
  ASSUME KInv, NEW r \in Requesters, Moves(r), pc[Creator] # "start", crashes' = crashes,
         OInv, pc'[r] # "start",
         view' = [view EXCEPT ![r] = view'[r]], log' = [log EXCEPT ![r] = log'[r]],
         Local(r)',
         crashes = 0 /\ Owns(r) => Owns(r)',
         crashes = 0 /\ r = Creator /\ doc.ctx = None =>
           pc'[r] \in {"uploading", "seeding"} /\ outcome'[r] = "pending"
  PROVE  KInv'
<1>1. \A q \in Requesters \ {r} :
        /\ pc'[q] = pc[q] /\ call'[q] = call[q] /\ outcome'[q] = outcome[q]
        /\ view'[q] = view[q] /\ log'[q] = log[q]
  <2>1. \A q \in Requesters \ {r} :
          pc'[q] = pc[q] /\ call'[q] = call[q] /\ outcome'[q] = outcome[q]
    BY DEF OInv, Shaped, Moves
  <2>2. \A q \in Requesters \ {r} : view'[q] = view[q] /\ log'[q] = log[q]
    BY DEF KInv
  <2>3. QED
    BY <2>1, <2>2
<1>2. \A q \in Requesters \ {r} : Local(q)' /\ Owns(q)' = Owns(q)
  <2> SUFFICES ASSUME NEW q \in Requesters \ {r} PROVE Local(q)' /\ Owns(q)' = Owns(q)
    OBVIOUS
  <2>1. /\ pc'[q] = pc[q] /\ call'[q] = call[q] /\ outcome'[q] = outcome[q]
        /\ view'[q] = view[q] /\ log'[q] = log[q]
    BY <1>1
  <2>2. Local(q)
    BY DEF KInv
  <2>3. Local(q)'
    BY <2>1, <2>2, Zenon DEF Local
  <2>4. Owns(q)' = Owns(q)
    BY <2>1 DEF Owns
  <2>5. QED
    BY <2>3, <2>4
<1>3. Creator \in Requesters /\ doc' = doc
  BY DEF Requesters, Moves
<1>4. pc'[Creator] # "start"
  BY <1>1, <1>3
<1>5. view' = [q \in Requesters |-> view'[q]] /\ log' = [q \in Requesters |-> log'[q]]
  BY DEF KInv
<1>6. crashes' = 0 => Seeded' /\ Kept'
  <2> SUFFICES ASSUME crashes' = 0 PROVE Seeded' /\ Kept'
    OBVIOUS
  <2>1. Seeded /\ Kept
    BY DEF KInv
  <2>2. Seeded'
    BY <1>1, <1>2, <1>3, <2>1 DEF Seeded
  <2>3. Kept'
    BY <1>2, <1>3, <2>1 DEF Kept
  <2>4. QED
    BY <2>2, <2>3
<1>7. QED
  BY <1>2, <1>3, <1>4, <1>5, <1>6 DEF KInv

LEMMA NothingLogged == ASSUME CalmAssumption PROVE <<>> \in Seq(Events) /\ None \notin Seq(Events)
  BY DEF CalmAssumption

LEMMA StatusInit == ASSUME CalmAssumption PROVE Init => KInv
<1>1. Actors = Requesters /\ Creator \in Requesters
  BY DEF Actors, Requesters, CalmAssumption
<1>2. QED
  BY <1>1, NothingLogged DEF Init, KInv, Local, Calling, Holding, Releasing

LEMMA CreateStatus ==
  ASSUME CalmAssumption, OInv, KInv, Create
  PROVE  KInv'
<1> USE DEF Calling, Holding, Releasing
<1>1. /\ pc[Creator] = "start" /\ Creator \in Requesters
      /\ doc' = NewDoc("own", Now)
      /\ pc' = [pc EXCEPT ![Creator] = "uploading"]
      /\ lockQ' = lockQ /\ call' = call /\ outcome' = outcome /\ view' = view /\ log' = log
      /\ crashes' = crashes
  BY DEF Create, Goto, requestOnly, Requesters
<1>2. pc'[Creator] = "uploading" /\ \A r \in Requesters \ {Creator} : pc'[r] = "start"
  BY <1>1 DEF OInv, Shaped, Begun
<1>3. \A r \in Requesters : Local(r)'
  <2>1. \A r \in Requesters : pc[r] = "start" /\ Local(r)
    BY <1>1 DEF OInv, Begun, KInv
  <2>2. \A r \in Requesters : log[r] \in Seq(Events) /\ outcome[r] = "pending"
    BY <2>1, <1>1 DEF Local, OInv, Fits
  <2>3. \A r \in Requesters : pc'[r] = IF r = Creator THEN "uploading" ELSE "start"
    BY <1>2
  <2>4. QED
    BY <1>1, <2>2, <2>3 DEF Local
<1>4. doc'.org = "own" /\ doc'.ctx = None
  BY <1>1 DEF NewDoc
<1>5. Owns(Creator)' /\ outcome'[Creator] = "pending"
  BY <1>1, <1>2 DEF Owns, OInv, Fits
<1>6. QED
  BY <1>1, <1>2, <1>3, <1>4, <1>5 DEF KInv, Contents, Seeded, Kept

\* r asks the store for q.
LEMMA AskStatus ==
  ASSUME CalmAssumption, OInv, KInv, NEW r \in Requesters, NEW q, Ask(r, q),
         pc' = [pc EXCEPT ![r] = pc'[r]], view' = [view EXCEPT ![r] = view'[r]],
         log' = [log EXCEPT ![r] = log'[r]], crashes' = crashes,
         pc[Creator] # "start", pc'[r] \in Calling,
         q.org = "own", q.kind = "save" => q.ctx \in Seq(Events),
         pc'[r] = "seeding" => r = Creator /\ q.kind = "save",
         pc'[r] \in Releasing => q.status # "working",
         log'[r] \in Seq(Events),
         pc'[r] = "claiming" => view'[r].status # "working" /\ ~Owns(r),
         r = Creator /\ doc.ctx = None /\ crashes = 0 => pc'[r] = "seeding"
  PROVE  KInv'
<1> USE DEF Calling, Holding, Releasing
<1>1. call'[r] = q /\ outcome'[r] = "pending" /\ Moves(r)
  BY DEF OInv, Shaped, Ask, Moves
<1>2. Local(r)' /\ (Owns(r) => Owns(r)')
  BY <1>1 DEF Local, Owns
<1>3. QED
  BY <1>1, <1>2, StayKeeps

\* r goes on, and has no call.
LEMMA GoStatus ==
  ASSUME CalmAssumption, OInv, KInv, NEW r \in Requesters,
         \/ Return(r)
         \/ UNCHANGED store /\ pc[r] \notin Calling,
         pc' = [pc EXCEPT ![r] = pc'[r]], view' = [view EXCEPT ![r] = view'[r]],
         log' = [log EXCEPT ![r] = log'[r]], crashes' = crashes,
         pc[Creator] # "start", pc'[r] \notin Calling \cup {"start"},
         log'[r] \in Seq(Events),
         pc'[r] \in {"merging", "refail"} => view'[r].ctx \in Contents,
         pc'[r] = "uploading" => r = Creator \/ view'[r].status # "working",
         crashes = 0 /\ Owns(r) => Owns(r)',
         ~(r = Creator /\ doc.ctx = None /\ crashes = 0)
  PROVE  KInv'
<1> USE DEF Calling, Holding, Releasing
<1>1. call'[r] = None /\ outcome'[r] = "pending" /\ Moves(r)
  <2>1. CASE Return(r)
    BY <2>1 DEF OInv, Shaped, Return, Moves
  <2>2. CASE UNCHANGED store /\ pc[r] \notin Calling
    BY <2>2 DEF store, OInv, Shaped, Fits, Moves
  <2>3. QED
    BY <2>1, <2>2
<1>2. Local(r)'
  BY <1>1 DEF Local
<1>3. QED
  BY <1>1, <1>2, StayKeeps

-----------------------------------------------------------------------------
(* The steps *)

\* What r may not have stored yet, and the calls that cannot be refused or raise.
LEMMA AtWork ==
  ASSUME CalmAssumption, OInv, KInv, NEW r \in Requesters, pc[r] # "start"
  PROVE  /\ pc[Creator] # "start" /\ log[r] \in Seq(Events) /\ doc.ctx \in Contents
         /\ view = [view EXCEPT ![r] = view[r]] /\ log = [log EXCEPT ![r] = log[r]]
         /\ crashes = 0 /\ r = Creator /\ doc.ctx = None =>
              pc[r] \in {"uploading", "seeding"} /\ outcome[r] = "pending"
         /\ crashes = 0 /\ r # Creator /\ doc.ctx = None => ~Owns(r)
         /\ outcome[r] = "refused" => pc[r] = "claiming"
         /\ outcome[r] = "failed" => pc[r] \notin {"seeding", "marking", "restoring", "giveUp"}
<1>1. pc[Creator] # "start" /\ Creator \in Requesters
  BY Going DEF Requesters
<1>2. Local(r)
  BY DEF KInv
<1>3. QED
  BY <1>1, <1>2 DEF KInv, Local, Seeded, OInv, Owned, CalmAssumption

LEMMA RequestStatus ==
  ASSUME CalmAssumption, OInv, KInv, NEW r \in Requesters, RequestStep(r)
  PROVE  KInv'
<1> USE DEF Calling, Holding, Releasing
<1>1. CASE Get(r)
  BY <1>1, GoStatus DEF Get, Look, requestOnly, OInv, Shaped, Begun, Owns, KInv, Local
<1>2. CASE Check(r)
  <2>1. CASE view[r].status = "working"
    BY <1>2, <2>1, AtWork, GoStatus DEF Check, Goto, requestOnly, OInv, Shaped, Owns
  <2>2. CASE view[r].status # "working"
    BY <1>2, <2>2, AtWork, AskStatus
    DEF Check, Goto, requestOnly, OInv, Shaped, Owns, Claim
  <2>3. QED
    BY <2>1, <2>2
<1>3. CASE ClaimReturns(r)
  <2>1. CASE pc'[r] # "marking"
    BY <1>3, <2>1, AtWork, GoStatus
    DEF ClaimReturns, Back, Goto, requestOnly, OInv, Shaped, Owns, KInv, Local
  <2>2. CASE pc'[r] = "marking"
    BY <1>3, <2>2, AtWork, AskStatus, ActorsAssumption
    DEF ClaimReturns, Back, Goto, requestOnly, OInv, Shaped, Owns, Mark
  <2>3. QED
    BY <2>1, <2>2
<1>4. CASE Upload(r)
  <2>1. CASE pc'[r] = "loading"
    BY <1>4, <2>1, AtWork, GoStatus, ActorsAssumption
    DEF Upload, Goto, requestOnly, OInv, Shaped, Owns
  <2>2. CASE pc'[r] = "seeding"
    BY <1>4, <2>2, AtWork, AskStatus, NothingLogged
    DEF Upload, Goto, requestOnly, OInv, Shaped, Save
  <2>3. QED
    BY <1>4, <2>1, <2>2 DEF Upload, Goto, OInv, Shaped
<1>5. CASE UploadFails(r)
  BY <1>5, AtWork, AskStatus
  DEF UploadFails, Goto, requestOnly, OInv, Shaped, KInv, Local, Mark, CalmAssumption
<1>6. CASE LoadForFiles(r)
  BY <1>6, AtWork, GoStatus DEF LoadForFiles, Look, requestOnly, OInv, Shaped, Owns, KInv
<1>7. CASE Merge(r)
  BY <1>7, AtWork, AskStatus
  DEF Merge, Goto, requestOnly, OInv, Shaped, KInv, Local, Save, Contents
<1>8. CASE Refuse(r)
  BY <1>8, AtWork, GoStatus DEF Refuse, Back, Goto, requestOnly, OInv, Shaped, Owns
<1>9. CASE StartTurn(r)
  <2>1. CASE pc[r] = "merging" /\ UNCHANGED store
    BY <1>9, <2>1, AtWork, GoStatus DEF StartTurn, Goto, OInv, Shaped, Owns
  <2>2. CASE Back(r, {"seeding", "marking"}, {"done"}) /\ Return(r)
    BY <1>9, <2>2, AtWork, GoStatus DEF StartTurn, Back, Goto, OInv, Shaped, Owns
  <2>3. QED
    BY <1>9, <2>1, <2>2 DEF StartTurn
<1>10. CASE r = Creator /\ SeedFails
  BY <1>10, AtWork DEF SeedFails, Back
<1>11. QED
  BY <1>1, <1>2, <1>3, <1>4, <1>5, <1>6, <1>7, <1>8, <1>9, <1>10, CreateStatus
  DEF RequestStep

\* A turn appends to its log and saves it all.
LEMMA PublishStatus ==
  ASSUME CalmAssumption, OInv, KInv, NEW r \in Requesters, NEW base \in Seq(Events),
         NEW kind \in Kinds, NEW status, Publish(r, base, kind, status),
         NEW s \in {"saving", "completing", "failing", "refailing"}, Goto(r, s),
         view' = view, crashes' = crashes,
         pc[r] \notin {"start", "uploading", "seeding"},
         status = "working" => s = "saving"
  PROVE  KInv'
<1> DEFINE grown == Append(base, [turn |-> r, kind |-> kind])
<1>1. grown \in Seq(Events)
  BY DEF Events
<1>2. log' = [log EXCEPT ![r] = grown] /\ Ask(r, Save("own", status, grown))
  BY DEF Publish
<1> HIDE DEF grown
<1>3. /\ log'[r] = grown /\ log' = [log EXCEPT ![r] = log'[r]]
      /\ view' = [view EXCEPT ![r] = view'[r]]
  BY <1>2 DEF KInv
<1>4. pc'[r] = s /\ pc' = [pc EXCEPT ![r] = pc'[r]]
  BY DEF Goto, OInv, Shaped
<1> DEFINE q == Save("own", status, grown)
<1>5. q.org = "own" /\ q.kind = "save" /\ q.ctx = grown /\ q.status = status
  BY DEF Save
<1>6. Ask(r, q)
  BY <1>2
<1> HIDE DEF q
<1>7. s \in Calling /\ s # "claiming" /\ s # "seeding" /\ (s \in Releasing => s # "saving")
  BY DEF Calling, Holding, Releasing
<1>8. QED
  BY <1>1, <1>3, <1>4, <1>5, <1>6, <1>7, AtWork, AskStatus

LEMMA TurnStatus ==
  ASSUME CalmAssumption, OInv, KInv, NEW r \in Requesters, TurnStep(r)
  PROVE  KInv'
<1> USE DEF Calling, Holding, Releasing
<1>a. \A k \in {"message", "completed", "error"} : k \in Kinds
  BY DEF Kinds
<1>1. CASE Load(r)
  <2>1. /\ pc[r] = "load" /\ pc[Creator] # "start" /\ UNCHANGED store
        /\ view' = view /\ crashes' = crashes /\ view' = [view EXCEPT ![r] = view'[r]]
        /\ log' = [log EXCEPT ![r] = log'[r]]
    BY <1>1, AtWork DEF Load, turnOnly, KInv
  <2>2. CASE doc.ctx = None /\ r # Creator
    <3>1. log' = log /\ pc'[r] \in {"ended", "draining"} /\ pc' = [pc EXCEPT ![r] = pc'[r]]
      BY <1>1, <2>2 DEF Load, Finally, End, Goto, OInv, Shaped
    <3>2. crashes = 0 => ~Owns(r)
      BY <2>1, <2>2, AtWork
    <3>3. QED
      BY <2>1, <2>2, <3>1, <3>2, AtWork, GoStatus
  <2>3. CASE ~(doc.ctx = None /\ r # Creator)
    <3>1. pc'[r] = "running" /\ pc' = [pc EXCEPT ![r] = pc'[r]]
      BY <1>1, <2>3 DEF Load, Goto, OInv, Shaped
    <3>2. log'[r] = IF doc.ctx = None THEN <<>> ELSE doc.ctx
      BY <1>1, <2>3 DEF Load, KInv
    <3>3. log'[r] \in Seq(Events)
      BY <2>1, <3>2, AtWork, NothingLogged DEF Contents
    <3>4. Owns(r)'
      BY <3>1 DEF Owns
    <3>5. QED
      BY <2>1, <3>1, <3>3, <3>4, AtWork, GoStatus
  <2>4. QED
    BY <2>2, <2>3
<1>2. CASE StartFails(r)
  BY <1>2 DEF StartFails, CalmAssumption
<1>3. CASE Message(r)
  BY <1>a, <1>3, AtWork, PublishStatus DEF Message, turnOnly
<1>4. CASE Limit(r)
  BY <1>4 DEF Limit, CalmAssumption
<1>5. CASE Published(r)
  BY <1>5, AtWork, GoStatus
  DEF Published, Runs, Back, Goto, turnOnly, OInv, Shaped, Owns
<1>6. CASE Complete(r)
  BY <1>a, <1>6, AtWork, PublishStatus DEF Complete, Back, turnOnly
<1>7. CASE Fail(r)
  BY <1>a, <1>7, AtWork, PublishStatus DEF Fail, Back, turnOnly
<1>8. CASE Finish(r)
  BY <1>8, AtWork, GoStatus
  DEF Finish, Runs, Back, Finally, End, Goto, turnOnly, OInv, Shaped, Owns
<1>9. CASE Unwind(r)
  BY <1>9, AtWork, GoStatus
  DEF Unwind, Runs, Back, Finally, Goto, turnOnly, OInv, Shaped, Owns
<1>10. CASE Drained(r)
  BY <1>10, AtWork, GoStatus
  DEF Drained, Runs, End, Goto, turnOnly, OInv, Shaped, Owns
<1>11. CASE Reload(r)
  BY <1>11, AtWork, GoStatus
  DEF Reload, Runs, Look, turnOnly, OInv, Shaped, Owns, KInv
<1>12. CASE Refail(r)
  <2>1. (IF view[r].ctx = None THEN <<>> ELSE view[r].ctx) \in Seq(Events)
    BY <1>12, NothingLogged DEF Refail, KInv, Local, Contents
  <2>2. PICK base \in Seq(Events) : Publish(r, base, "error", "error")
    BY <1>12, <2>1 DEF Refail
  <2>3. QED
    BY <1>a, <1>12, <2>2, AtWork, PublishStatus DEF Refail, turnOnly
<1>13. CASE GiveUp(r)
  BY <1>13, AtWork, AskStatus DEF GiveUp, Runs, Back, Goto, OInv, Shaped, Mark
<1>14. CASE GivenUp(r)
  BY <1>14, AtWork, GoStatus
  DEF GivenUp, Runs, Back, End, Goto, turnOnly, OInv, Shaped, Owns
<1>15. CASE Interrupt(r)
  BY <1>15 DEF Interrupt, OInv, Shaped
<1>16. QED
  BY <1>1, <1>2, <1>3, <1>4, <1>5, <1>6, <1>7, <1>8, <1>9, <1>10, <1>11, <1>12, <1>13,
     <1>14, <1>15 DEF TurnStep

\* What a call makes of the organisation and the context.
LEMMA EditedOwner ==
  ASSUME NEW q, NEW d, IsDoc(d), NEW now
  PROVE  /\ q.kind \in {"save", "status", "claim"} => Edited(q, d, now).org = d.org
         /\ q.kind = "save" => Edited(q, d, now).ctx = q.ctx
         /\ q.kind \in {"status", "claim"} => Edited(q, d, now).ctx = d.ctx
<1>1. PICK A, B, C, D, E : d \in [org: A, status: B, ctx: C, stamp: D, title: E]
  BY DEF IsDoc
<1>2. Saved(q, d).org = d.org /\ Saved(q, d).ctx = q.ctx
  BY <1>1 DEF Saved
<1>3. Marked(q, d, now).org = d.org /\ Marked(q, d, now).ctx = d.ctx
  BY <1>1 DEF Marked
<1>4. Claimed(d, now).org = d.org /\ Claimed(d, now).ctx = d.ctx
  BY <1>1 DEF Claimed
<1>5. /\ q.kind = "save" => Edited(q, d, now) = Saved(q, d)
      /\ q.kind = "status" => Edited(q, d, now) = Marked(q, d, now)
      /\ q.kind = "claim" => Edited(q, d, now) = Claimed(d, now)
  BY DEF Edited
<1>6. QED
  BY <1>2, <1>3, <1>4, <1>5

\* A call acts, is refused, or raises.
LEMMA LandStatus ==
  ASSUME CalmAssumption, OInv, KInv, NEW a \in Requesters, Land(a)
  PROVE  KInv'
<1> USE DEF Calling, Holding, Releasing
<1>1. /\ call[a] # None /\ outcome[a] = "pending" /\ call' = call /\ pc' = pc
      /\ view' = view /\ log' = log /\ crashes' = crashes
  BY DEF Land
<1>2. /\ pc[a] \in Calling /\ Local(a) /\ Fits(a)
      /\ pc[Creator] # "start" /\ IsDoc(doc) /\ doc # None /\ Creator \in Requesters
      /\ doc.org = "own" /\ doc.ctx \in Contents
  <2>1. pc[a] \in Calling /\ Local(a) /\ Fits(a)
    BY <1>1 DEF OInv, Fits, KInv
  <2>2. pc[Creator] # "start"
    BY <2>1, Going
  <2>3. IsDoc(doc) /\ doc # None
    BY <2>2 DEF OInv, Begun, CalmAssumption
  <2>4. QED
    BY <2>1, <2>2, <2>3 DEF KInv, Requesters
<1>3. /\ outcome'[a] \in {"done", "refused", "failed"}
      /\ \A r \in Requesters \ {a} : outcome'[r] = outcome[r]
      /\ outcome'[a] = "done" => doc' = Edited(call[a], doc, Now)
      /\ outcome'[a] # "done" => doc' = doc
      /\ outcome'[a] = "refused" => ~Accepts(call[a], doc)
      /\ outcome'[a] = "failed" => pc[a] \in FaultAt
  BY <1>1 DEF Land, OInv, Shaped
<1>4. pc[a] # "claiming" => Accepts(call[a], doc)
  BY <1>2 DEF Fits, Writes, Local, Accepts, Matches
<1>5. \A r \in Requesters : Local(r)'
  <2>1. Local(a)'
    BY <1>1, <1>2, <1>3, <1>4 DEF Local
  <2>2. \A r \in Requesters \ {a} : Local(r)'
    BY <1>1, <1>3 DEF KInv, Local
  <2>3. QED
    BY <2>1, <2>2
<1>6. call[a].kind \in {"save", "status", "claim"}
  BY <1>2 DEF Fits, Writes
<1>7. doc'.org = "own" /\ (doc'.ctx = doc.ctx \/ doc'.ctx \in Seq(Events))
  BY <1>2, <1>3, <1>6, EditedOwner DEF Local
<1>8. ASSUME crashes = 0 PROVE Seeded'
  <2> SUFFICES ASSUME doc'.ctx = None
               PROVE  /\ pc'[Creator] \in {"uploading", "seeding"}
                      /\ outcome'[Creator] = "pending" /\ Owns(Creator)'
    BY DEF Seeded
  <2>1. doc.ctx = None
    BY <1>7, NothingLogged
  <2>2. /\ pc[Creator] \in {"uploading", "seeding"} /\ outcome[Creator] = "pending"
        /\ Owns(Creator)
    BY <1>2, <1>8, <2>1 DEF KInv, Seeded
  <2>3. a # Creator
    <3> SUFFICES ASSUME a = Creator PROVE FALSE
      OBVIOUS
    <3>1. pc[a] = "seeding"
      BY <1>2, <2>2
    <3>2. outcome'[a] = "done"
      BY <1>3, <1>4, <3>1 DEF CalmAssumption
    <3>3. doc'.ctx = call[a].ctx /\ call[a].ctx \in Seq(Events)
      BY <1>2, <1>3, <3>1, <3>2, EditedOwner DEF Local
    <3>4. QED
      BY <3>3, NothingLogged
  <2>4. QED
    BY <1>1, <1>2, <1>3, <2>2, <2>3 DEF Owns
<1>9. ASSUME crashes = 0 PROVE Kept'
  <2> SUFFICES ASSUME doc'.status = "working" PROVE \E r \in Requesters : Owns(r)'
    BY DEF Kept
  <2>1. CASE outcome'[a] = "done"
    <3>1. pc[a] \notin Releasing
      <4> SUFFICES ASSUME pc[a] \in Releasing PROVE FALSE
        OBVIOUS
      <4>1. Writes(call[a]) /\ call[a].status # "working"
        BY <1>2 DEF Fits, Local
      <4>2. QED
        BY <1>2, <1>3, <2>1, <4>1, EditedStatus
    <3>2. Owns(a)'
      BY <1>1, <1>2, <2>1, <3>1 DEF Owns
    <3>3. QED
      BY <3>2
  <2>2. CASE outcome'[a] # "done"
    <3>1. PICK r \in Requesters : Owns(r)
      BY <1>2, <1>3, <1>9, <2>2 DEF KInv, Kept
    <3>2. Owns(r)'
      BY <1>1, <1>2, <1>3, <2>2, <3>1 DEF Owns
    <3>3. QED
      BY <3>2
  <2>3. QED
    BY <2>1, <2>2
<1>10. QED
  BY <1>1, <1>2, <1>5, <1>7, <1>8, <1>9 DEF KInv, Contents

\* The log of a turn that is no more does not matter.
LEMMA CrashStatus == ASSUME CalmAssumption, OInv, KInv, Crash PROVE KInv'
<1> USE DEF Calling, Holding, Releasing
<1>1. Actors = Requesters /\ Creator \in Requesters
  BY DEF Actors, Requesters, CalmAssumption
<1>2. /\ log' = log /\ doc' = doc /\ crashes' = crashes + 1
      /\ view' = [r \in Requesters |-> None]
  BY <1>1 DEF Crash
<1>3. \A r \in Requesters :
        /\ pc'[r] \in {"start", "ended", "replied"} /\ (pc'[r] = "start" <=> pc[r] = "start")
        /\ call'[r] = None /\ outcome'[r] = "pending"
  BY <1>1 DEF Crash
<1>4. \A r \in Requesters : Local(r)'
  BY <1>2, <1>3 DEF KInv, Local
<1>5. crashes' \in Nat /\ crashes' # 0
  BY <1>2 DEF KInv
<1>6. view' = [r \in Requesters |-> view'[r]] /\ log' = [r \in Requesters |-> log'[r]]
  BY <1>2 DEF KInv
<1>7. pc'[Creator] # "start" => doc'.org = "own" /\ doc'.ctx \in Contents
  BY <1>1, <1>2, <1>3 DEF KInv
<1>8. QED
  BY <1>4, <1>5, <1>6, <1>7 DEF KInv, Contents

LEMMA StatusNext == ASSUME CalmAssumption PROVE OInv /\ KInv /\ [Next]_vars => KInv'
<1> SUFFICES ASSUME OInv, KInv, [Next]_vars PROVE KInv'
  OBVIOUS
<1>1. CASE UNCHANGED vars
  BY <1>1 DEF vars, KInv, Local, Seeded, Kept, Owns, Contents
<1>2. ASSUME NEW a \in Actors, Land(a) PROVE KInv'
  BY <1>2, LandStatus DEF Actors, CalmAssumption
<1>3. ASSUME NEW r \in Requesters, RequestStep(r) \/ TurnStep(r) PROVE KInv'
  BY <1>3, RequestStatus, TurnStatus
<1>4. CASE LateWrite
  BY <1>4 DEF LateWrite, OInv, Shaped
<1>5. CASE Crash
  BY <1>5, CrashStatus
<1>6. QED
  BY <1>1, <1>2, <1>3, <1>4, <1>5 DEF Next, CalmAssumption

-----------------------------------------------------------------------------
(* The result *)

LEMMA StatusFacts == OInv /\ KInv => StatusIsTrue
<1> SUFFICES ASSUME OInv, KInv PROVE StatusIsTrue
  OBVIOUS
<1> USE DEF Calling, Holding, Releasing
<1>1. OneRunner /\ TurnShowsWorking
  BY OwnerFacts
<1>2. ASSUME ~Abandoned, Working PROVE WorkingHasOwner
  <2>1. crashes = 0 /\ pc[Creator] # "start"
    BY <1>2 DEF Abandoned, Working, KInv, OInv, Begun
  <2>2. PICK r \in Requesters : Owns(r)
    BY <1>2, <2>1 DEF KInv, Kept, Working
  <2>3. QED
    BY <2>2 DEF Owns, WorkingHasOwner, Turning, TurnStages
<1>3. QED
  BY <1>1, <1>2 DEF StatusIsTrue, WorkingHasOwner

\* The status in the store is true, whatever senders come, uploads and saves of a turn
\* fail, and restarts: one turn runs, shown as working, and until a restart each
\* "working" has a request or a turn that will replace it (router.py:102-164,
\* 358-425).
THEOREM StatusStaysTrue == ASSUME CalmAssumption PROVE Spec => []StatusIsTrue
<1>1. Cancels = {} /\ Limited = {}
  BY DEF CalmAssumption
<1>2. QED
  BY <1>1, OwnerInit, OwnerNext, StatusInit, StatusNext, StatusFacts, PTL DEF Spec

-----------------------------------------------------------------------------
(* Types, whoever cancels: any cancel handlers, tool call limits, cleanups, *)
(* faults, late jobs and restarts.  Who is in a queue has a call, and only *)
(* its head may have been answered; who goes on with what it read has read *)
(* a document; the cancel lock's holder is the only one past its queue.    *)

\* Finitely many requests, and contexts that are logs of events.
TypesAssumption ==
  /\ IsFiniteSet(Senders) /\ IsFiniteSet(Cancels)
  /\ Contexts = Seq(Events)

\* A number that a finite set leaves free.
LEMMA LeastFree ==
  ASSUME NEW H, IsFiniteSet(H)
  PROVE  (CHOOSE n \in 0 .. Cardinality(H) :
            n \notin H /\ \A m \in 0 .. Cardinality(H) : m < n => m \in H) \in Nat
<1> DEFINE R == OpToRel(<, Nat)
<1>1. IsWellFoundedOn(R, Nat)
  BY NatLessThanWellFounded
<1>2. \A x, y \in Nat : y < x => <<y, x>> \in R
  BY DEF OpToRel
<1> HIDE DEF R
<1>3. PICK k \in Nat : k = Cardinality(H)
  BY FS_CardinalityType
<1>4. IsFiniteSet(0 .. k) /\ Cardinality(0 .. k) = k + 1
  BY FS_Interval
<1>5. ~((0 .. k) \subseteq H)
  <2>1. SUFFICES ASSUME (0 .. k) \in SUBSET H PROVE FALSE
    OBVIOUS
  <2>2. Cardinality(0 .. k) <= Cardinality(H)
    BY <2>1, FS_Subset
  <2>3. QED
    BY <1>3, <1>4, <2>2
<1>6. PICK T : T = (0 .. k) \ H
  OBVIOUS
<1>7. T \subseteq Nat /\ T # {}
  BY <1>3, <1>5, <1>6
<1>8. PICK n \in T : \A m \in T : ~(<<m, n>> \in R)
  BY <1>1, <1>7, WFMin, Zenon
<1>9. n \in 0 .. k /\ n \notin H /\ \A m \in 0 .. k : m < n => m \in H
  <2>1. n \in 0 .. k /\ n \notin H
    BY <1>6
  <2>2. \A m \in 0 .. k : m \notin H => m \in T
    BY <1>6
  <2>3. \A m \in T : ~(m < n)
    BY <1>2, <1>7, <1>8
  <2>4. QED
    BY <2>1, <2>2, <2>3
<1>10. QED
  BY <1>3, <1>9

\* A new time is one.
LEMMA NowIs == ASSUME TypesAssumption PROVE Now \in Nat
<1>1. IsFiniteSet(Actors)
  <2>1. IsFiniteSet({Creator}) /\ IsFiniteSet(Senders) /\ IsFiniteSet(Cancels)
    BY FS_Singleton DEF TypesAssumption
  <2>2. IsFiniteSet({Creator} \cup Senders)
    BY <2>1, FS_Union
  <2>3. QED
    BY <2>1, <2>2, FS_Union DEF Actors, Requesters
<1>2. IsFiniteSet({view[a] : a \in Actors}) /\ IsFiniteSet({call[a] : a \in Actors})
  <2>1. PICK f, g : f = [a \in Actors |-> view[a]] /\ g = [a \in Actors |-> call[a]]
    OBVIOUS
  <2>2. /\ f \in Surjection(Actors, {view[a] : a \in Actors})
        /\ g \in Surjection(Actors, {call[a] : a \in Actors})
    BY <2>1 DEF Surjection
  <2>3. QED
    BY <1>1, <2>2, FS_Surjection
<1>3. PICK D : D = ({doc, late} \cup {view[a] : a \in Actors}) \ {None}
  OBVIOUS
<1>4. PICK C : C = {call[a] : a \in Actors} \ {None}
  OBVIOUS
<1>5. IsFiniteSet(D) /\ IsFiniteSet(C)
  <2>1. IsFiniteSet({doc} \cup {late}) /\ {doc, late} = {doc} \cup {late}
    BY FS_Singleton, FS_Union
  <2>2. IsFiniteSet({doc, late} \cup {view[a] : a \in Actors})
    BY <1>2, <2>1, FS_Union
  <2>3. D \in SUBSET ({doc, late} \cup {view[a] : a \in Actors})
    BY <1>3
  <2>4. C \in SUBSET {call[a] : a \in Actors}
    BY <1>4
  <2>5. QED
    BY <1>2, <2>2, <2>3, <2>4, FS_Subset
<1>6. PICK S, E : S = {c \in C : c.kind = "save"} /\ E = {c \in C : c.kind = "claim"}
  OBVIOUS
<1>7. IsFiniteSet(S) /\ IsFiniteSet(E)
  <2>1. S \in SUBSET C /\ E \in SUBSET C
    BY <1>6
  <2>2. QED
    BY <1>5, <2>1, FS_Subset
<1>8. /\ IsFiniteSet({d.stamp : d \in D}) /\ IsFiniteSet({r.stamp : r \in S})
      /\ IsFiniteSet({r.expected : r \in E})
  <2>1. PICK f, g, h : /\ f = [d \in D |-> d.stamp] /\ g = [r \in S |-> r.stamp]
                       /\ h = [r \in E |-> r.expected]
    OBVIOUS
  <2>2. /\ f \in Surjection(D, {d.stamp : d \in D})
        /\ g \in Surjection(S, {r.stamp : r \in S})
        /\ h \in Surjection(E, {r.expected : r \in E})
    BY <2>1 DEF Surjection
  <2>3. QED
    BY <1>5, <1>7, <2>2, FS_Surjection
<1>9. Held = {d.stamp : d \in D} \cup {r.stamp : r \in S} \cup {r.expected : r \in E}
  BY <1>3, <1>4, <1>6 DEF Held
<1>10. IsFiniteSet(Held)
  <2>1. IsFiniteSet({d.stamp : d \in D} \cup {r.stamp : r \in S})
    BY <1>8, FS_Union
  <2>2. QED
    BY <1>8, <1>9, <2>1, FS_Union
<1>11. QED
  BY <1>10, LeastFree DEF Now

\* What a call makes of a document is one.
LEMMA EditedIsDoc ==
  ASSUME NEW q \in Requests, NEW d \in Docs, NEW now \in Nat
  PROVE  Edited(q, d, now) \in Docs
<1>1. /\ q.kind = "save" => q \in Saves
      /\ q.kind = "status" => q \in Marks
      /\ q.kind = "title" => q \in Titles
      /\ q.kind = "claim" => q \in Claims
      /\ q.kind \in {"save", "status", "title", "claim"}
  BY DEF Requests, Saves, Marks, Titles, Claims
<1>2. CASE q.kind = "save"
  <2>1. Edited(q, d, now) = Saved(q, d)
    BY <1>2 DEF Edited
  <2>2. QED
    BY <1>1, <1>2, <2>1 DEF Saved, Docs, Saves
<1>3. CASE q.kind = "status"
  <2>1. Edited(q, d, now) = Marked(q, d, now)
    BY <1>3 DEF Edited
  <2>2. QED
    BY <1>1, <1>3, <2>1 DEF Marked, Docs, Marks
<1>4. CASE q.kind = "title"
  <2>1. Edited(q, d, now) = [d EXCEPT !.title = q.title]
    BY <1>4 DEF Edited
  <2>2. QED
    BY <1>1, <1>4, <2>1 DEF Docs, Titles
<1>5. CASE q.kind = "claim"
  <2>1. Edited(q, d, now) = Claimed(d, now)
    BY <1>5 DEF Edited
  <2>2. QED
    BY <2>1 DEF Claimed, Docs, Statuses
<1>6. QED
  BY <1>1, <1>2, <1>3, <1>4, <1>5

-----------------------------------------------------------------------------
(* The invariant *)

\* The stages with a store call, of requests, turns and cancel handlers.
Asking == {"claiming", "seeding", "marking", "restoring", "saving", "limited",
           "completing", "failing", "refailing", "giveUp", "stopping"}

StagesOf(a) == IF a \in Cancels THEN CancelStages ELSE RequestStages \cup TurnStages

\* Who has a call is at a stage with one; who is back from one holds the lock, and
\* only who has a call has a place in it, one; and there is a document once somebody
\* has begun.
CallsInv ==
  /\ doc \in Docs \cup {None} /\ lockQ \in Seq(Actors)
  /\ call \in [Actors -> Requests \cup {None}]
  /\ outcome \in [Actors -> {"pending", "done", "refused", "failed"}]
  /\ pc = [a \in Actors |-> pc[a]]
  /\ \A a \in Actors :
       /\ pc[a] \in StagesOf(a)
       /\ call[a] # None <=> pc[a] \in Asking
       /\ outcome[a] # "pending" => lockQ # <<>> /\ Head(lockQ) = a
       /\ pc[a] # "start" => doc # None
  /\ \A i, j \in DOMAIN lockQ : lockQ[i] = lockQ[j] => i = j
  /\ \A i \in DOMAIN lockQ : call[lockQ[i]] # None

\* Who goes on with what it read has read a document.
Reading(a, s) ==
  \/ a \in Senders /\ s \in {"check", "claiming", "uploading"}
  \/ a \in Requesters /\ s \in {"merging", "refail"}

ReadsInv ==
  /\ view \in [Actors -> Docs \cup {None}]
  /\ \A a \in Actors : Reading(a, pc[a]) => view[a] # None

\* The cancel lock is held by a handler past its queue.
CancelsInv ==
  /\ cancelQ \in Seq(Cancels)
  /\ \A c \in Cancels :
       /\ pc[c] \in {"queued", "waiting", "looking", "stopping"} =>
            \E i \in DOMAIN cancelQ : cancelQ[i] = c
       /\ pc[c] \in {"waiting", "looking", "stopping"} =>
            cancelQ # <<>> /\ Head(cancelQ) = c

TasksInv ==
  /\ log \in [Requesters -> Seq(Events)]
  /\ active \in Requesters \cup {None} /\ cancelled \subseteq Requesters
  /\ target \in [Cancels -> Requesters \cup {None}]
  /\ late \in Docs \cup {None}
  /\ cancelled # {} => doc # None

TypesInv == CallsInv /\ ReadsInv /\ CancelsInv /\ TasksInv

LEMMA ActorsAre ==
  /\ \A r \in Requesters : r \in Actors /\ r \notin Cancels
       /\ StagesOf(r) = RequestStages \cup TurnStages
  /\ \A c \in Cancels : c \in Actors /\ c \notin Requesters /\ StagesOf(c) = CancelStages
  /\ \A a \in Actors : a \in Requesters \/ a \in Cancels
  /\ Creator \in Requesters /\ Senders \subseteq Requesters
BY ActorsAssumption DEF Actors, Requesters, StagesOf

LEMMA MarksAre ==
  /\ None \notin Docs /\ None \notin Requests /\ None \notin Contexts
  /\ "own" \in Orgs /\ "" \in Orgs
BY NoneAssumption, ActorsAssumption


LEMMA LogIs ==
  ASSUME TypesAssumption
  PROVE  <<>> \in Contexts /\ None \notin Seq(Events) /\ Contexts = Seq(Events)
<1>1. <<>> \in Seq(Events)
  OBVIOUS
<1>2. QED
  BY <1>1, MarksAre DEF TypesAssumption

-----------------------------------------------------------------------------
(* What the steps have in common *)

\* The lock's queue after someone left its head, or its end was taken.
LEMMA HeadLeaves ==
  ASSUME CallsInv, NEW a \in Actors, outcome[a] # "pending"
  PROVE  /\ Tail(lockQ) \in Seq(Actors) /\ lockQ # <<>> /\ Head(lockQ) = a
         /\ \A b \in Actors \ {a} : outcome[b] = "pending"
         /\ \A i, j \in DOMAIN Tail(lockQ) : Tail(lockQ)[i] = Tail(lockQ)[j] => i = j
         /\ \A i \in DOMAIN Tail(lockQ) : Tail(lockQ)[i] # a /\ call[Tail(lockQ)[i]] # None
<1>1. lockQ \in Seq(Actors) /\ lockQ # <<>> /\ Head(lockQ) = a
  BY DEF CallsInv
<1>2. PICK n \in Nat : n = Len(lockQ)
  BY <1>1
<1>3. PICK t : t = Tail(lockQ)
  OBVIOUS
<1>4. /\ t \in Seq(Actors) /\ n >= 1 /\ lockQ[1] = a /\ DOMAIN lockQ = 1 .. n
      /\ DOMAIN t = 1 .. n - 1 /\ \A i \in 1 .. n - 1 : t[i] = lockQ[i + 1]
  BY <1>1, <1>2, <1>3
<1>5. /\ \A i, j \in DOMAIN lockQ : lockQ[i] = lockQ[j] => i = j
      /\ \A i \in DOMAIN lockQ : call[lockQ[i]] # None
  BY DEF CallsInv
<1>6. \A i \in DOMAIN t : i + 1 \in DOMAIN lockQ /\ t[i] = lockQ[i + 1] /\ i + 1 # 1
  BY <1>4
<1>7. \A i, j \in DOMAIN t : t[i] = t[j] => i = j
  BY <1>4, <1>5, <1>6
<1>8. \A i \in DOMAIN t : t[i] # a /\ call[t[i]] # None
  BY <1>4, <1>5, <1>6
<1>9. \A b \in Actors \ {a} : outcome[b] = "pending"
  BY <1>1 DEF CallsInv
<1>10. QED
  BY <1>1, <1>3, <1>4, <1>7, <1>8, <1>9

\* a goes on to stage s with the call it has, a new one, or without.
LEMMA StoreCalls ==
  ASSUME CallsInv, NEW a \in Actors, NEW s \in StagesOf(a) \ {"start"}, Goto(a, s),
         doc # None,
         \/ UNCHANGED store /\ (call[a] # None <=> s \in Asking)
         \/ /\ \E q \in Requests : Ask(a, q)
            /\ s \in Asking /\ (call[a] = None \/ outcome[a] # "pending")
         \/ Return(a) /\ s \notin Asking /\ outcome[a] # "pending"
  PROVE  CallsInv'
<1>1. /\ pc' = [pc EXCEPT ![a] = s] /\ pc = [b \in Actors |-> pc[b]]
      /\ doc \in Docs /\ lockQ \in Seq(Actors)
      /\ call \in [Actors -> Requests \cup {None}]
      /\ outcome \in [Actors -> {"pending", "done", "refused", "failed"}]
      /\ \A b \in Actors :
           /\ pc[b] \in StagesOf(b) /\ (call[b] # None <=> pc[b] \in Asking)
           /\ outcome[b] # "pending" => lockQ # <<>> /\ Head(lockQ) = b
      /\ \A i, j \in DOMAIN lockQ : lockQ[i] = lockQ[j] => i = j
      /\ \A i \in DOMAIN lockQ : call[lockQ[i]] # None
  BY DEF CallsInv, Goto
<1>2. /\ pc' = [b \in Actors |-> pc'[b]] /\ pc'[a] = s
      /\ \A b \in Actors \ {a} : pc'[b] = pc[b]
      /\ \A b \in Actors : pc'[b] \in StagesOf(b)
  BY <1>1
<1>3. CASE UNCHANGED store /\ (call[a] # None <=> s \in Asking)
  <2>1. doc' = doc /\ lockQ' = lockQ /\ call' = call /\ outcome' = outcome
    BY <1>3 DEF store
  <2>2. \A b \in Actors :
          /\ pc'[b] \in StagesOf(b) /\ (call'[b] # None <=> pc'[b] \in Asking)
          /\ outcome'[b] # "pending" => lockQ' # <<>> /\ Head(lockQ') = b
          /\ pc'[b] # "start" => doc' # None
    BY <1>1, <1>2, <1>3, <2>1
  <2>3. QED
    BY <1>1, <1>2, <2>1, <2>2 DEF CallsInv
<1>4. CASE /\ \E q \in Requests : Ask(a, q)
           /\ s \in Asking /\ (call[a] = None \/ outcome[a] # "pending")
  <2>1. PICK q \in Requests : Ask(a, q)
    BY <1>4
  <2>2. PICK base : base = IF call[a] = None THEN lockQ ELSE Tail(lockQ)
    OBVIOUS
  <2>3. /\ base \in Seq(Actors)
        /\ \A i, j \in DOMAIN base : base[i] = base[j] => i = j
        /\ \A i \in DOMAIN base : base[i] # a /\ call[base[i]] # None
        /\ \A b \in Actors \ {a} : outcome[b] # "pending" => base # <<>> /\ Head(base) = b
    <3>1. CASE call[a] = None
      BY <1>1, <2>2, <3>1
    <3>2. CASE call[a] # None
      BY <1>4, <2>2, <3>2, HeadLeaves
    <3>3. QED
      BY <3>1, <3>2
  <2>4. /\ lockQ' = Append(base, a) /\ call' = [call EXCEPT ![a] = q] /\ doc' = doc
        /\ outcome' = [outcome EXCEPT ![a] = "pending"]
    BY <2>1, <2>2 DEF Ask
  <2>5. /\ call' \in [Actors -> Requests \cup {None}]
        /\ outcome' \in [Actors -> {"pending", "done", "refused", "failed"}]
        /\ call'[a] = q /\ q # None /\ outcome'[a] = "pending"
        /\ \A b \in Actors \ {a} : call'[b] = call[b] /\ outcome'[b] = outcome[b]
    BY <1>1, <2>1, <2>4, MarksAre
  <2>6. PICK u : u = Append(base, a)
    OBVIOUS
  <2>7. PICK n \in Nat : n = Len(base)
    BY <2>3
  <2>8. /\ u \in Seq(Actors) /\ u # <<>> /\ DOMAIN base = 1 .. n /\ DOMAIN u = 1 .. n + 1
        /\ u[n + 1] = a /\ \A i \in 1 .. n : u[i] = base[i]
        /\ base # <<>> => Head(u) = Head(base)
    BY <2>3, <2>6, <2>7
  <2>9. \A i, j \in DOMAIN u : u[i] = u[j] => i = j
    BY <2>3, <2>8
  <2>10. \A i \in DOMAIN u : call'[u[i]] # None
    <3> TAKE i \in DOMAIN u
    <3>1. CASE i = n + 1
      BY <2>5, <2>8, <3>1
    <3>2. CASE i \in 1 .. n
      BY <2>3, <2>5, <2>8, <3>2
    <3>3. QED
      BY <2>8, <3>1, <3>2
  <2>11. \A b \in Actors :
          /\ pc'[b] \in StagesOf(b) /\ (call'[b] # None <=> pc'[b] \in Asking)
          /\ outcome'[b] # "pending" => u # <<>> /\ Head(u) = b
          /\ pc'[b] # "start" => doc' # None
    <3> TAKE b \in Actors
    <3>1. CASE b = a
      BY <1>2, <1>4, <2>4, <2>5, <3>1
    <3>2. CASE b # a
      BY <1>1, <1>2, <2>3, <2>4, <2>5, <2>8, <3>2
    <3>3. QED
      BY <3>1, <3>2
  <2>12. QED
    BY <1>1, <1>2, <2>4, <2>5, <2>6, <2>8, <2>9, <2>10, <2>11 DEF CallsInv
<1>5. CASE Return(a) /\ s \notin Asking /\ outcome[a] # "pending"
  <2>1. PICK t : t = Tail(lockQ)
    OBVIOUS
  <2>2. /\ lockQ' = t /\ call' = [call EXCEPT ![a] = None] /\ doc' = doc
        /\ outcome' = [outcome EXCEPT ![a] = "pending"]
    BY <1>5, <2>1 DEF Return
  <2>3. /\ call' \in [Actors -> Requests \cup {None}]
        /\ outcome' \in [Actors -> {"pending", "done", "refused", "failed"}]
        /\ call'[a] = None /\ outcome'[a] = "pending"
        /\ \A b \in Actors \ {a} : call'[b] = call[b] /\ outcome'[b] = outcome[b]
    BY <1>1, <2>2
  <2>4. /\ t \in Seq(Actors) /\ \A b \in Actors \ {a} : outcome[b] = "pending"
        /\ \A i, j \in DOMAIN t : t[i] = t[j] => i = j
        /\ \A i \in DOMAIN t : t[i] # a /\ call[t[i]] # None
    BY <1>5, <2>1, HeadLeaves
  <2>5. \A i \in DOMAIN t : call'[t[i]] # None
    BY <2>3, <2>4
  <2>6. \A b \in Actors :
          /\ pc'[b] \in StagesOf(b) /\ (call'[b] # None <=> pc'[b] \in Asking)
          /\ outcome'[b] = "pending"
          /\ pc'[b] # "start" => doc' # None
    <3> TAKE b \in Actors
    <3>1. CASE b = a
      BY <1>2, <1>5, <2>2, <2>3, <3>1
    <3>2. CASE b # a
      BY <1>1, <1>2, <2>2, <2>3, <2>4, <3>2
    <3>3. QED
      BY <3>1, <3>2
  <2>7. QED
    BY <1>1, <1>2, <2>2, <2>3, <2>4, <2>5, <2>6 DEF CallsInv
<1>6. QED
  BY <1>3, <1>4, <1>5

\* a goes on to stage s with what it read before, or with what it reads now.
LEMMA ViewReads ==
  ASSUME CallsInv, ReadsInv, NEW a \in Actors, NEW s \in StagesOf(a), Goto(a, s),
         doc \in Docs,
         \/ view' = view /\ (Reading(a, s) => view[a] # None)
         \/ view' = [view EXCEPT ![a] = doc]
  PROVE  ReadsInv'
<1>1. /\ view \in [Actors -> Docs \cup {None}] /\ pc = [b \in Actors |-> pc[b]]
      /\ \A b \in Actors : Reading(b, pc[b]) => view[b] # None
  BY DEF CallsInv, ReadsInv
<1>2. pc'[a] = s /\ \A b \in Actors \ {a} : pc'[b] = pc[b]
  BY <1>1 DEF Goto
<1>3. /\ view' \in [Actors -> Docs \cup {None}]
      /\ \A b \in Actors \ {a} : view'[b] = view[b]
      /\ Reading(a, s) => view'[a] # None
  BY <1>1, MarksAre
<1>4. \A b \in Actors : Reading(b, pc'[b]) => view'[b] # None
  BY <1>1, <1>2, <1>3
<1>5. QED
  BY <1>3, <1>4 DEF ReadsInv, Reading

\* A request or a turn goes on: the cancel handlers stay where they are.
LEMMA RequesterCancels ==
  ASSUME CallsInv, CancelsInv, NEW r \in Requesters, NEW s, Goto(r, s), cancelQ' = cancelQ
  PROVE  CancelsInv'
<1>1. \A c \in Cancels : pc'[c] = pc[c]
  BY ActorsAre DEF CallsInv, Goto
<1>2. QED
  BY <1>1 DEF CancelsInv

LEMMA RequesterGoes ==
  ASSUME TypesInv, NEW r \in Requesters, NEW s \in StagesOf(r) \ {"start"}, Goto(r, s),
         doc # None,
         \/ UNCHANGED store /\ (call[r] # None <=> s \in Asking)
         \/ /\ \E q \in Requests : Ask(r, q)
            /\ s \in Asking /\ (call[r] = None \/ outcome[r] # "pending")
         \/ Return(r) /\ s \notin Asking /\ outcome[r] # "pending",
         \/ view' = view /\ (Reading(r, s) => view[r] # None)
         \/ view' = [view EXCEPT ![r] = doc],
         cancelQ' = cancelQ, TasksInv'
  PROVE  TypesInv'
<1>1. r \in Actors
  BY ActorsAre
<1>2. doc \in Docs
  BY DEF TypesInv, CallsInv
<1>3. CallsInv'
  BY <1>1, StoreCalls DEF TypesInv
<1>4. ReadsInv'
  BY <1>1, <1>2, ViewReads DEF TypesInv
<1>5. CancelsInv'
  BY RequesterCancels DEF TypesInv
<1>6. QED
  BY <1>3, <1>4, <1>5 DEF TypesInv

\* What the invariant says of r, and what r may ask the store for.
LEMMA RequesterAt ==
  ASSUME TypesInv, NEW r \in Requesters
  PROVE  /\ r \in Actors /\ pc[r] \in StagesOf(r)
         /\ pc[r] # "start" => doc # None /\ doc \in Docs
         /\ (call[r] # None <=> pc[r] \in Asking)
         /\ view[r] \in Docs \cup {None} /\ (Reading(r, pc[r]) => view[r] \in Docs)
         /\ log[r] \in Seq(Events)
  BY ActorsAre DEF TypesInv, CallsInv, ReadsInv, TasksInv

LEMMA Askable ==
  ASSUME TypesAssumption
  PROVE  /\ \A st \in Statuses : Mark(st) \in Requests
         /\ \A o \in {"own", ""} : \A st \in Statuses : \A ctx \in Seq(Events) :
              Save(o, st, ctx) \in Requests
         /\ \A d \in Docs : Claim(d) \in Requests
<1>1. Now \in Nat
  BY NowIs
<1>2. \A st \in Statuses : Mark(st) \in Marks
  BY MarksAre DEF Mark, Marks
<1>3. \A o \in {"own", ""} : \A st \in Statuses : \A ctx \in Seq(Events) :
        Save(o, st, ctx) \in Saves
  BY <1>1, MarksAre, LogIs DEF Save, Saves
<1>4. \A d \in Docs : Claim(d) \in Claims
  BY MarksAre DEF Claim, Claims, Docs
<1>5. QED
  BY <1>2, <1>3, <1>4 DEF Requests

LEMMA TasksStay ==
  ASSUME TasksInv, doc' # None, UNCHANGED requestOnly
  PROVE  TasksInv'
  BY DEF TasksInv, requestOnly

-----------------------------------------------------------------------------
(* The requests *)

\* The document of a conversation that nobody has seen.
LEMMA CreateTypes == ASSUME TypesAssumption, TypesInv, Create PROVE TypesInv'
<1>1. PICK now \in Nat : now = Now
  BY NowIs
<1>2. PICK d : d = NewDoc("own", now)
  OBVIOUS
<1>3. d \in Docs
  BY <1>2, MarksAre DEF NewDoc, Docs, Statuses
<1>4. /\ doc' = d /\ d # None /\ pc[Creator] = "start" /\ lockQ' = lockQ /\ call' = call
      /\ outcome' = outcome /\ view' = view /\ pc' = [pc EXCEPT ![Creator] = "uploading"]
      /\ cancelQ' = cancelQ
  BY <1>1, <1>2, <1>3, MarksAre DEF Create, Goto, requestOnly
<1>5. Creator \in Requesters /\ Creator \in Actors /\ Creator \notin Senders
  BY ActorsAre, ActorsAssumption
<1>6. "uploading" \in StagesOf(Creator) /\ "uploading" \notin Asking /\ "start" \notin Asking
  BY <1>5, ActorsAre DEF RequestStages, Asking
<1>7. /\ pc' = [b \in Actors |-> pc'[b]] /\ pc'[Creator] = "uploading"
      /\ \A b \in Actors \ {Creator} : pc'[b] = pc[b]
  BY <1>4, <1>5 DEF TypesInv, CallsInv
<1>8. CallsInv'
  <2>1. /\ lockQ \in Seq(Actors)
        /\ call \in [Actors -> Requests \cup {None}]
        /\ outcome \in [Actors -> {"pending", "done", "refused", "failed"}]
        /\ \A b \in Actors :
             /\ pc[b] \in StagesOf(b) /\ (call[b] # None <=> pc[b] \in Asking)
             /\ outcome[b] # "pending" => lockQ # <<>> /\ Head(lockQ) = b
        /\ \A i, j \in DOMAIN lockQ : lockQ[i] = lockQ[j] => i = j
        /\ \A i \in DOMAIN lockQ : call[lockQ[i]] # None
    BY DEF TypesInv, CallsInv
  <2>2. \A b \in Actors :
          pc'[b] \in StagesOf(b) /\ (call'[b] # None <=> pc'[b] \in Asking)
    BY <1>4, <1>6, <1>7, <2>1
  <2>3. QED
    BY <1>3, <1>4, <1>7, <2>1, <2>2 DEF CallsInv
<1>9. ReadsInv'
  <2>1. ~Reading(Creator, "uploading")
    BY <1>5 DEF Reading
  <2>2. \A b \in Actors : Reading(b, pc'[b]) => Reading(b, pc[b])
    BY <1>7, <2>1
  <2>3. QED
    BY <1>4, <2>2 DEF TypesInv, ReadsInv, Reading
<1>10. CancelsInv'
  BY <1>4, <1>5, RequesterCancels DEF TypesInv, Goto
<1>11. TasksInv'
  BY <1>4, TasksStay DEF TypesInv, Create
<1>12. QED
  BY <1>8, <1>9, <1>10, <1>11 DEF TypesInv

LEMMA RequestTypes ==
  ASSUME TypesAssumption, TypesInv, NEW r \in Requesters, RequestStep(r)
  PROVE  TypesInv'
<1>1. /\ r \in Actors /\ pc[r] \in StagesOf(r)
      /\ pc[r] # "start" => doc # None /\ doc \in Docs
      /\ (call[r] # None <=> pc[r] \in Asking)
      /\ view[r] \in Docs \cup {None} /\ (Reading(r, pc[r]) => view[r] \in Docs)
      /\ StagesOf(r) = RequestStages \cup TurnStages /\ None \notin Docs
  BY RequesterAt, ActorsAre, MarksAre
<1>2. /\ \A st \in Statuses : Mark(st) \in Requests
      /\ \A d \in Docs : Claim(d) \in Requests /\ d.status \in Statuses
                         /\ d.ctx \in Seq(Events) \cup {None}
      /\ \A st \in Statuses : \A ctx \in Seq(Events) : Save("own", st, ctx) \in Requests
      /\ <<>> \in Seq(Events)
  BY Askable, LogIs DEF Docs
<1>3. UNCHANGED requestOnly /\ doc' = doc /\ doc # None => TasksInv' /\ cancelQ' = cancelQ
  BY TasksStay DEF TypesInv, requestOnly
<1>4. CASE Get(r)
  <2>1. Goto(r, "check") /\ UNCHANGED store /\ view' = [view EXCEPT ![r] = doc] /\ doc # None
        /\ pc[r] = "start" /\ UNCHANGED requestOnly
    BY <1>4 DEF Get, Look, Goto
  <2>2. doc' = doc
    BY <2>1 DEF store
  <2>3. "check" \in StagesOf(r) \ {"start"} /\ call[r] = None /\ "check" \notin Asking
    BY <1>1, <2>1 DEF RequestStages, Asking
  <2>4. QED
    BY <1>3, <2>1, <2>2, <2>3, RequesterGoes
<1>5. CASE Check(r)
  <2>1. pc[r] = "check" /\ r \in Senders /\ view' = view /\ UNCHANGED requestOnly
    BY <1>5 DEF Check
  <2>2. call[r] = None /\ doc # None /\ view[r] \in Docs /\ Claim(view[r]) \in Requests
        /\ view[r] # None
    BY <1>1, <1>2, <2>1 DEF Asking, Reading
  <2>3. CASE Goto(r, "replied") /\ UNCHANGED store
    <3>1. doc' = doc
      BY <2>3 DEF store
    <3>2. "replied" \in StagesOf(r) \ {"start"} /\ "replied" \notin Asking
          /\ ~Reading(r, "replied")
      BY <1>1 DEF RequestStages, Asking, Reading
    <3>3. QED
      BY <1>3, <2>1, <2>2, <2>3, <3>1, <3>2, RequesterGoes
  <2>4. CASE Goto(r, "claiming") /\ Ask(r, Claim(view[r]))
    <3>1. doc' = doc
      BY <2>4 DEF Ask
    <3>2. "claiming" \in StagesOf(r) \ {"start"} /\ "claiming" \in Asking
      BY <1>1 DEF RequestStages, Asking
    <3>3. QED
      BY <1>3, <2>1, <2>2, <2>4, <3>1, <3>2, RequesterGoes
  <2>5. QED
    BY <1>5, <2>3, <2>4 DEF Check
<1>6. CASE ClaimReturns(r)
  <2>1. /\ pc[r] = "claiming" /\ view' = view /\ UNCHANGED requestOnly
        /\ outcome[r] # "pending" /\ doc # None
    BY <1>1, <1>6 DEF ClaimReturns, Back
  <2>2. CASE Return(r) /\ (Goto(r, "uploading") \/ Goto(r, "replied"))
    <3>1. doc' = doc /\ (Reading(r, "uploading") => view[r] # None)
      BY <1>1, <2>1, <2>2 DEF Return, Reading
    <3>2. PICK s \in {"uploading", "replied"} : Goto(r, s)
      BY <2>2
    <3>3. s \in StagesOf(r) \ {"start"} /\ s \notin Asking /\ ~Reading(r, "replied")
      BY <1>1 DEF RequestStages, Asking, Reading
    <3>4. Reading(r, s) => view[r] # None
      BY <3>1, <3>2, <3>3
    <3>5. QED
      BY <1>3, <2>1, <2>2, <3>1, <3>2, <3>3, <3>4, RequesterGoes
  <2>3. CASE Goto(r, "marking") /\ Ask(r, Mark("working"))
    <3>1. doc' = doc /\ Mark("working") \in Requests
      BY <1>2, <2>3 DEF Ask, Statuses
    <3>2. "marking" \in StagesOf(r) \ {"start"} /\ "marking" \in Asking
          /\ ~Reading(r, "marking")
      BY <1>1 DEF RequestStages, Asking, Reading
    <3>3. QED
      BY <1>3, <2>1, <2>3, <3>1, <3>2, RequesterGoes
  <2>4. QED
    BY <1>6, <2>2, <2>3 DEF ClaimReturns
<1>7. CASE Upload(r)
  <2>1. pc[r] = "uploading" /\ view' = view /\ UNCHANGED requestOnly
    BY <1>7 DEF Upload
  <2>2. call[r] = None /\ doc # None
    BY <1>1, <2>1 DEF Asking
  <2>3. CASE Goto(r, "seeding") /\ Ask(r, Save("own", "working", <<>>))
    <3>1. doc' = doc /\ Save("own", "working", <<>>) \in Requests
      BY <1>2, <2>3 DEF Ask, Statuses
    <3>2. "seeding" \in StagesOf(r) \ {"start"} /\ "seeding" \in Asking
          /\ ~Reading(r, "seeding")
      BY <1>1 DEF RequestStages, Asking, Reading
    <3>3. QED
      BY <1>3, <2>1, <2>2, <2>3, <3>1, <3>2, RequesterGoes
  <2>4. CASE Goto(r, "loading") /\ UNCHANGED store
    <3>1. doc' = doc
      BY <2>4 DEF store
    <3>2. "loading" \in StagesOf(r) \ {"start"} /\ "loading" \notin Asking
          /\ ~Reading(r, "loading")
      BY <1>1 DEF RequestStages, Asking, Reading
    <3>3. QED
      BY <1>3, <2>1, <2>2, <2>4, <3>1, <3>2, RequesterGoes
  <2>5. QED
    BY <1>7, <2>3, <2>4 DEF Upload
<1>8. CASE UploadFails(r)
  <2>1. PICK st : st = IF r = Creator THEN "error" ELSE view[r].status
    OBVIOUS
  <2>2. /\ pc[r] = "uploading" /\ view' = view /\ UNCHANGED requestOnly
        /\ Goto(r, "restoring") /\ Ask(r, Mark(st))
    BY <1>8, <2>1 DEF UploadFails
  <2>3. call[r] = None /\ doc # None /\ doc' = doc
    BY <1>1, <2>2 DEF Asking, Ask
  <2>4. st \in Statuses
    <3>1. CASE r = Creator
      BY <2>1, <3>1 DEF Statuses
    <3>2. CASE r # Creator
      <4>1. Reading(r, pc[r])
        BY <2>2, <3>2 DEF Reading, Requesters
      <4>2. QED
        BY <1>1, <1>2, <2>1, <3>2, <4>1
    <3>3. QED
      BY <3>1, <3>2
  <2>5. Mark(st) \in Requests
    BY <1>2, <2>4
  <2>6. "restoring" \in StagesOf(r) \ {"start"} /\ "restoring" \in Asking
        /\ ~Reading(r, "restoring")
    BY <1>1 DEF RequestStages, Asking, Reading
  <2>7. QED
    BY <1>3, <2>2, <2>3, <2>5, <2>6, RequesterGoes
<1>9. CASE LoadForFiles(r)
  <2>1. /\ Goto(r, "merging") /\ UNCHANGED store /\ view' = [view EXCEPT ![r] = doc]
        /\ pc[r] = "loading" /\ UNCHANGED requestOnly
    BY <1>9 DEF LoadForFiles, Look, Goto
  <2>2. doc' = doc /\ doc # None /\ call[r] = None
    BY <1>1, <2>1 DEF store, Asking
  <2>3. "merging" \in StagesOf(r) \ {"start"} /\ "merging" \notin Asking
    BY <1>1 DEF RequestStages, Asking
  <2>4. QED
    BY <1>3, <2>1, <2>2, <2>3, RequesterGoes
<1>10. CASE Merge(r)
  <2>1. PICK ctx : ctx = view[r].ctx
    OBVIOUS
  <2>2. /\ pc[r] = "merging" /\ ctx # None /\ view' = view /\ UNCHANGED requestOnly
        /\ Goto(r, "marking") /\ Ask(r, Save("own", "working", ctx))
    BY <1>10, <2>1 DEF Merge
  <2>3. call[r] = None /\ doc # None /\ doc' = doc /\ view[r] \in Docs
    BY <1>1, <2>2 DEF Asking, Ask, Reading
  <2>4. Save("own", "working", ctx) \in Requests
    BY <1>2, <2>1, <2>2, <2>3 DEF Statuses
  <2>5. "marking" \in StagesOf(r) \ {"start"} /\ "marking" \in Asking
        /\ ~Reading(r, "marking")
    BY <1>1 DEF RequestStages, Asking, Reading
  <2>6. QED
    BY <1>3, <2>2, <2>3, <2>4, <2>5, RequesterGoes
<1>11. CASE Refuse(r)
  <2>1. /\ pc[r] \in {"restoring", "marking"} /\ Return(r) /\ view' = view
        /\ UNCHANGED requestOnly /\ outcome[r] # "pending" /\ Goto(r, "replied")
    BY <1>11 DEF Refuse, Back
  <2>2. doc' = doc /\ doc # None
    BY <1>1, <2>1 DEF Return
  <2>3. "replied" \in StagesOf(r) \ {"start"} /\ "replied" \notin Asking
        /\ ~Reading(r, "replied")
    BY <1>1 DEF RequestStages, Asking, Reading
  <2>4. QED
    BY <1>3, <2>1, <2>2, <2>3, RequesterGoes
<1>12. CASE StartTurn(r)
  <2>1. /\ Goto(r, "load") /\ active' = r /\ view' = view /\ log' = log /\ target' = target
        /\ cancelled' = cancelled /\ cancelQ' = cancelQ /\ late' = late
    BY <1>12 DEF StartTurn
  <2>2. \/ pc[r] \in {"seeding", "marking"} /\ outcome[r] = "done" /\ Return(r)
        \/ pc[r] = "merging" /\ UNCHANGED store
    BY <1>12 DEF StartTurn, Back
  <2>3. doc' = doc /\ doc # None
    BY <1>1, <2>2 DEF Return, store
  <2>4. "load" \in StagesOf(r) \ {"start"} /\ "load" \notin Asking /\ ~Reading(r, "load")
    BY <1>1 DEF TurnStages, Asking, Reading
  <2>5. TasksInv'
    BY <2>1, <2>3 DEF TypesInv, TasksInv
  <2>6. pc[r] = "merging" => call[r] = None
    BY <1>1 DEF Asking
  <2>7. QED
    BY <2>1, <2>2, <2>3, <2>4, <2>5, <2>6, RequesterGoes
<1>13. CASE r = Creator /\ SeedFails
  <2>1. /\ pc[r] = "seeding" /\ outcome[r] # "pending" /\ view' = view
        /\ UNCHANGED requestOnly /\ Goto(r, "restoring") /\ Ask(r, Mark("error"))
    BY <1>13 DEF SeedFails, Back
  <2>2. doc # None /\ doc' = doc /\ Mark("error") \in Requests
    BY <1>1, <1>2, <2>1 DEF Ask, Statuses
  <2>3. "restoring" \in StagesOf(r) \ {"start"} /\ "restoring" \in Asking
        /\ ~Reading(r, "restoring")
    BY <1>1 DEF RequestStages, Asking, Reading
  <2>4. QED
    BY <1>3, <2>1, <2>2, <2>3, RequesterGoes
<1>14. CASE r = Creator /\ Create
  BY <1>14, CreateTypes
<1>15. QED
  BY <1>4, <1>5, <1>6, <1>7, <1>8, <1>9, <1>10, <1>11, <1>12, <1>13, <1>14 DEF RequestStep

-----------------------------------------------------------------------------
(* The turns *)

\* One more event is still a log, and may be saved.
LEMMA PublishTypes ==
  ASSUME TypesAssumption, TypesInv, NEW r \in Requesters, NEW base \in Seq(Events),
         NEW kind \in Kinds, NEW status \in Statuses, Publish(r, base, kind, status)
  PROVE  log' \in [Requesters -> Seq(Events)] /\ \E q \in Requests : Ask(r, q)
<1>1. PICK e \in Events : e = [turn |-> r, kind |-> kind]
  BY DEF Events
<1>2. PICK grown \in Seq(Events) : grown = Append(base, [turn |-> r, kind |-> kind])
  <2>1. Append(base, e) \in Seq(Events)
    OBVIOUS
  <2>2. QED
    BY <1>1, <2>1
<1>3. Save("own", status, grown) \in Requests
  BY Askable
<1>4. log' = [log EXCEPT ![r] = grown] /\ Ask(r, Save("own", status, grown))
  BY <1>2 DEF Publish
<1>5. log' \in [Requesters -> Seq(Events)]
  BY <1>4 DEF TypesInv, TasksInv
<1>6. QED
  BY <1>3, <1>4, <1>5

LEMMA TurnTasks ==
  ASSUME TasksInv, doc' # None, log' \in [Requesters -> Seq(Events)],
         active' \in Requesters \cup {None},
         cancelled' \in SUBSET cancelled, target' = target, late' \in Docs \cup {None}
  PROVE  TasksInv'
  BY DEF TasksInv

\* A turn publishes, from one stage to another.
LEMMA PublishGoes ==
  ASSUME TypesAssumption, TypesInv, NEW r \in Requesters, NEW base \in Seq(Events),
         NEW kind \in Kinds, NEW status \in Statuses, Publish(r, base, kind, status),
         NEW s \in {"saving", "limited", "completing", "failing", "refailing"},
         Goto(r, s), pc[r] # "start", call[r] = None \/ outcome[r] # "pending",
         UNCHANGED <<view, active>>, UNCHANGED turnOnly
  PROVE  TypesInv'
<1>1. log' \in [Requesters -> Seq(Events)] /\ \E q \in Requests : Ask(r, q)
  BY PublishTypes
<1>2. /\ doc' = doc /\ active' = active /\ cancelled' = cancelled /\ target' = target
      /\ late' = late /\ view' = view /\ cancelQ' = cancelQ
  BY <1>1 DEF Ask, turnOnly
<1>3. doc # None /\ active \in Requesters \cup {None} /\ late \in Docs \cup {None}
  BY RequesterAt DEF TypesInv, TasksInv
<1>4. TasksInv'
  BY <1>1, <1>2, <1>3, TurnTasks DEF TypesInv
<1>5. s \in StagesOf(r) \ {"start"} /\ s \in Asking /\ ~Reading(r, s)
  BY ActorsAre DEF TurnStages, Asking, Reading
<1>6. QED
  BY <1>1, <1>2, <1>3, <1>4, <1>5, RequesterGoes

\* A turn goes on without a call.
LEMMA TurnGoes ==
  ASSUME TypesInv, NEW r \in Requesters, NEW s \in TurnStages \ Asking, Goto(r, s),
         pc[r] # "start",
         \/ UNCHANGED store /\ pc[r] \notin Asking
         \/ Return(r) /\ outcome[r] # "pending",
         \/ view' = view /\ s # "refail"
         \/ view' = [view EXCEPT ![r] = doc],
         log' \in [Requesters -> Seq(Events)], active' \in Requesters \cup {None},
         UNCHANGED turnOnly
  PROVE  TypesInv'
<1>1. /\ doc' = doc /\ cancelled' = cancelled /\ target' = target /\ late' = late
      /\ cancelQ' = cancelQ
  BY DEF Return, turnOnly, store
<1>2. /\ doc # None /\ late \in Docs \cup {None} /\ (call[r] # None <=> pc[r] \in Asking)
  BY RequesterAt DEF TypesInv, TasksInv
<1>3. TasksInv'
  BY <1>1, <1>2, TurnTasks DEF TypesInv
<1>4. s \in StagesOf(r) \ {"start"} /\ (s # "refail" => ~Reading(r, s))
  BY ActorsAre DEF TurnStages, Reading
<1>5. QED
  BY <1>1, <1>2, <1>3, <1>4, RequesterGoes

\* The stage after a turn's finally clause, and the registry then.
LEMMA FinallyIs ==
  ASSUME TypesInv, NEW r \in Requesters, NEW s \in {"ended", "reload"}, Finally(r, s)
  PROVE  /\ \E t \in {"draining", "unwinding", "ended", "reload"} : Goto(r, t)
         /\ active' \in Requesters \cup {None}
<1>1. active \in Requesters \cup {None}
  BY DEF TypesInv, TasksInv
<1>2. \/ Goto(r, "draining") /\ active' = active
      \/ Goto(r, "unwinding") /\ active' = active
      \/ Goto(r, "ended") /\ active' = IF active = r THEN None ELSE active
      \/ Goto(r, "reload") /\ active' = active
  BY DEF Finally, End
<1>3. QED
  BY <1>1, <1>2

LEMMA Resting == {"draining", "unwinding", "ended", "reload"} \subseteq TurnStages \ Asking
  BY DEF TurnStages, Asking

\* CancelledError, at any await.
LEMMA InterruptTypes ==
  ASSUME TypesAssumption, TypesInv, NEW r \in Requesters, Interrupt(r)
  PROVE  TypesInv'
<1>1. /\ r \in cancelled /\ cancelled' = cancelled \ {r}
      /\ call' = [call EXCEPT ![r] = None] /\ outcome' = [outcome EXCEPT ![r] = "pending"]
      /\ doc' = doc /\ view' = view /\ log' = log /\ cancelQ' = cancelQ /\ target' = target
  BY DEF Interrupt
<1>2. PICK s \in {"draining", "unwinding", "ended", "reload"} :
        Goto(r, s) /\ active' \in Requesters \cup {None}
  <2>1. CASE Finally(r, "ended")
    BY <2>1, FinallyIs
  <2>2. CASE End(r)
    BY <2>2 DEF End, TypesInv, TasksInv
  <2>3. QED
    BY <2>1, <2>2 DEF Interrupt
<1>3. /\ r \in Actors /\ doc # None /\ doc \in Docs /\ log \in [Requesters -> Seq(Events)]
      /\ lockQ \in Seq(Actors)
      /\ call \in [Actors -> Requests \cup {None}]
      /\ outcome \in [Actors -> {"pending", "done", "refused", "failed"}]
      /\ pc = [b \in Actors |-> pc[b]]
      /\ \A b \in Actors :
           /\ pc[b] \in StagesOf(b) /\ (call[b] # None <=> pc[b] \in Asking)
           /\ outcome[b] # "pending" => lockQ # <<>> /\ Head(lockQ) = b
      /\ \A i, j \in DOMAIN lockQ : lockQ[i] = lockQ[j] => i = j
      /\ \A i \in DOMAIN lockQ : call[lockQ[i]] # None
  BY <1>1, ActorsAre DEF TypesInv, CallsInv, TasksInv
<1>4. s \in TurnStages \ Asking /\ s # "start" /\ s \in StagesOf(r) /\ ~Reading(r, s)
  BY <1>2, Resting, ActorsAre DEF TurnStages, Reading
<1>5. /\ call' \in [Actors -> Requests \cup {None}] /\ call'[r] = None
      /\ outcome' \in [Actors -> {"pending", "done", "refused", "failed"}]
      /\ outcome'[r] = "pending"
      /\ \A b \in Actors \ {r} :
           call'[b] = call[b] /\ outcome'[b] = outcome[b] /\ pc'[b] = pc[b]
      /\ pc' = [b \in Actors |-> pc'[b]] /\ pc'[r] = s
  BY <1>1, <1>2, <1>3 DEF Goto
<1>6. PICK u \in Seq(Actors) :
        /\ u = lockQ'
        /\ \A i \in DOMAIN u : u[i] # r /\ call[u[i]] # None
        /\ \A i, j \in DOMAIN u : u[i] = u[j] => i = j
        /\ lockQ # <<>> /\ Head(lockQ) # r => u # <<>> /\ Head(u) = Head(lockQ)
  <2>1. CASE r \notin ToSet(lockQ) /\ lockQ' = lockQ
    <3>1. \A i \in DOMAIN lockQ : lockQ[i] # r
      BY <2>1 DEF ToSet
    <3>2. QED
      BY <1>3, <2>1, <3>1
  <2>2. CASE \E i \in DOMAIN lockQ : lockQ[i] = r /\ lockQ' = RemoveAt(lockQ, i)
    <3>1. PICK k \in DOMAIN lockQ : lockQ[k] = r /\ lockQ' = RemoveAt(lockQ, k)
      BY <2>2
    <3>2. PICK n \in Nat : n = Len(lockQ)
      BY <1>3
    <3>3. DOMAIN lockQ = 1 .. n /\ k \in 1 .. n
      BY <1>3, <3>1, <3>2
    <3>4. PICK a : a = SubSeq(lockQ, 1, k - 1)
      OBVIOUS
    <3>5. PICK b : b = SubSeq(lockQ, k + 1, n)
      OBVIOUS
    <3>6. /\ a \in Seq(Actors) /\ Len(a) = k - 1 /\ DOMAIN a = 1 .. k - 1
          /\ \A i \in 1 .. k - 1 : a[i] = lockQ[i]
      BY <1>3, <3>2, <3>3, <3>4
    <3>7. /\ b \in Seq(Actors) /\ Len(b) = n - k /\ DOMAIN b = 1 .. n - k
          /\ \A i \in 1 .. n - k : b[i] = lockQ[i + k]
      BY <1>3, <3>2, <3>3, <3>5
    <3>8. PICK u : u = a \o b
      OBVIOUS
    <3>9. lockQ' = u
      BY <3>1, <3>2, <3>4, <3>5, <3>8 DEF RemoveAt
    <3>10. /\ u \in Seq(Actors) /\ Len(u) = n - 1 /\ DOMAIN u = 1 .. n - 1
           /\ \A i \in 1 .. k - 1 : u[i] = lockQ[i]
           /\ \A i \in k .. n - 1 : u[i] = lockQ[i + 1]
      <4>1. u \in Seq(Actors) /\ Len(u) = n - 1 /\ DOMAIN u = 1 .. n - 1
        <5>1. a \o b \in Seq(Actors) /\ Len(a \o b) = Len(a) + Len(b)
          BY <3>6, <3>7
        <5>2. (k - 1) + (n - k) = n - 1
          BY <3>3
        <5>3. QED
          BY <3>6, <3>7, <3>8, <5>1, <5>2
      <4>2. \A i \in 1 .. k - 1 : u[i] = lockQ[i]
        BY <3>3, <3>6, <3>7, <3>8
      <4>3. ASSUME NEW i \in k .. n - 1 PROVE u[i] = lockQ[i + 1]
        <5>1. PICK j \in Int : j = i - (k - 1)
          BY <3>3
        <5>2. j \in 1 .. n - k /\ j + k = i + 1 /\ i \in k .. n - 1 /\ i > k - 1
          BY <3>3, <4>3, <5>1
        <5>3. u[i] = b[j]
          BY <3>6, <3>7, <3>8, <5>1, <5>2
        <5>4. b[j] = lockQ[j + k]
          BY <3>7, <5>2
        <5>5. QED
          BY <5>2, <5>3, <5>4
      <4>4. QED
        BY <4>1, <4>2, <4>3
    <3>11. \A i \in 1 .. n - 1 : \E j \in 1 .. n :
             u[i] = lockQ[j] /\ j # k /\ j = IF i < k THEN i ELSE i + 1
      BY <3>3, <3>10
    <3>12. \A i \in 1 .. n - 1 : u[i] # r /\ call[u[i]] # None
      BY <1>3, <3>1, <3>3, <3>11
    <3>13. \A i, j \in 1 .. n - 1 : u[i] = u[j] => i = j
      BY <1>3, <3>3, <3>11
    <3>14. lockQ # <<>> /\ Head(lockQ) # r => u # <<>> /\ Head(u) = Head(lockQ)
      <4> HAVE lockQ # <<>> /\ Head(lockQ) # r
      <4>1. lockQ[1] # r /\ Head(lockQ) = lockQ[1]
        BY <1>3
      <4>2. k # 1 /\ 1 \in 1 .. k - 1 /\ n - 1 >= 1
        BY <3>1, <3>3, <4>1
      <4>3. u[1] = lockQ[1] /\ u # <<>>
        BY <3>10, <4>2
      <4>4. QED
        BY <3>10, <4>1, <4>3
    <3>15. QED
      BY <3>9, <3>10, <3>12, <3>13, <3>14
  <2>3. QED
    BY <2>1, <2>2 DEF Interrupt
<1>7. CallsInv'
  <2>1. \A i \in DOMAIN u : call'[u[i]] # None
    BY <1>5, <1>6
  <2>2. \A b \in Actors :
          /\ pc'[b] \in StagesOf(b) /\ (call'[b] # None <=> pc'[b] \in Asking)
          /\ outcome'[b] # "pending" => u # <<>> /\ Head(u) = b
          /\ pc'[b] # "start" => doc' # None
    <3> TAKE b \in Actors
    <3>1. CASE b = r
      BY <1>1, <1>3, <1>4, <1>5, <3>1
    <3>2. CASE b # r
      BY <1>1, <1>3, <1>5, <1>6, <3>2
    <3>3. QED
      BY <3>1, <3>2
  <2>3. QED
    BY <1>1, <1>3, <1>5, <1>6, <2>1, <2>2 DEF CallsInv
<1>8. ReadsInv'
  BY <1>1, <1>2, <1>3, <1>4, ViewReads DEF TypesInv
<1>9. CancelsInv'
  BY <1>1, <1>2, RequesterCancels DEF TypesInv
<1>10. late' \in Docs \cup {None}
  <2>1. CASE UNCHANGED <<late, lates>>
    BY <2>1 DEF TypesInv, TasksInv
  <2>2. CASE Writing(r) /\ late' = Edited(call[r], doc, Now)
    <3>1. lockQ # <<>> /\ Head(lockQ) = r
      BY <2>2 DEF Writing
    <3>2. 1 \in DOMAIN lockQ /\ lockQ[1] = r
      BY <1>3, <3>1
    <3>3. call[r] \in Requests
      BY <1>3, <3>2
    <3>4. QED
      BY <1>3, <2>2, <3>3, EditedIsDoc, NowIs
  <2>3. QED
    BY <2>1, <2>2 DEF Interrupt
<1>11. TasksInv'
  BY <1>1, <1>2, <1>3, <1>10, TurnTasks DEF TypesInv
<1>12. QED
  BY <1>7, <1>8, <1>9, <1>11 DEF TypesInv

LEMMA TurnStepTypes ==
  ASSUME TypesAssumption, TypesInv, NEW r \in Requesters, TurnStep(r)
  PROVE  TypesInv'
<1>1. /\ log \in [Requesters -> Seq(Events)] /\ active \in Requesters \cup {None}
      /\ log[r] \in Seq(Events) /\ (call[r] # None <=> pc[r] \in Asking)
      /\ view[r] \in Docs \cup {None} /\ (Reading(r, pc[r]) => view[r] \in Docs)
      /\ pc[r] # "start" => doc # None /\ doc \in Docs
  BY RequesterAt DEF TypesInv, TasksInv
<1>2. /\ \A d \in Docs : d.ctx \in Seq(Events) \cup {None}
      /\ <<>> \in Seq(Events)
  BY LogIs DEF Docs
<1>3. {"message", "completed", "error"} \subseteq Kinds
      /\ {"working", "idle", "error"} \subseteq Statuses
  BY DEF Kinds, Statuses
<1>4. CASE Load(r)
  <2>1. pc[r] = "load" /\ UNCHANGED store /\ view' = view /\ UNCHANGED turnOnly
    BY <1>4 DEF Load
  <2>2. pc[r] \notin Asking /\ pc[r] # "start" /\ doc \in Docs
    BY <1>1, <2>1 DEF Asking
  <2>3. CASE Finally(r, "ended") /\ log' = log
    <3>1. PICK t \in {"draining", "unwinding", "ended", "reload"} :
            Goto(r, t) /\ active' \in Requesters \cup {None}
      BY <2>3, FinallyIs
    <3>2. t \in TurnStages \ Asking /\ t # "refail"
      BY Resting
    <3>3. QED
      BY <1>1, <2>1, <2>2, <2>3, <3>1, <3>2, TurnGoes
  <2>4. CASE /\ log' = [log EXCEPT ![r] = IF doc.ctx = None THEN <<>> ELSE doc.ctx]
             /\ Goto(r, "running") /\ active' = active
    <3>1. log' \in [Requesters -> Seq(Events)]
      <4>1. PICK read \in Seq(Events) : read = IF doc.ctx = None THEN <<>> ELSE doc.ctx
        BY <1>2, <2>2
      <4>2. QED
        BY <1>1, <2>4, <4>1
    <3>2. "running" \in TurnStages \ Asking
      BY DEF TurnStages, Asking
    <3>3. QED
      BY <1>1, <2>1, <2>2, <2>4, <3>1, <3>2, TurnGoes
  <2>5. QED
    BY <1>4, <2>3, <2>4 DEF Load
<1>5. CASE StartFails(r)
  <2>1. PICK e \in Events : e = [turn |-> r, kind |-> "error"]
    BY <1>3 DEF Events
  <2>2. /\ pc[r] = "load" /\ Goto(r, "failing") /\ Ask(r, Save("", "error", <<e>>))
        /\ view' = view /\ log' = log /\ active' = active /\ UNCHANGED turnOnly
    BY <1>5, <2>1 DEF StartFails
  <2>3. Save("", "error", <<e>>) \in Requests
    <3>1. <<e>> \in Seq(Events)
      OBVIOUS
    <3>2. QED
      BY <1>3, <3>1, Askable
  <2>4. call[r] = None /\ doc # None /\ doc' = doc
    BY <1>1, <2>2 DEF Asking, Ask
  <2>5. TasksInv'
    BY <1>1, <2>2, <2>4, TurnTasks DEF turnOnly, TypesInv, TasksInv
  <2>6. "failing" \in StagesOf(r) \ {"start"} /\ "failing" \in Asking
        /\ ~Reading(r, "failing")
    BY ActorsAre DEF TurnStages, Asking, Reading
  <2>7. cancelQ' = cancelQ
    BY <2>2 DEF turnOnly
  <2>8. QED
    BY <2>2, <2>3, <2>4, <2>5, <2>6, <2>7, RequesterGoes
<1>6. CASE Message(r)
  <2>1. /\ pc[r] = "running" /\ Publish(r, log[r], "message", "working")
        /\ Goto(r, "saving") /\ UNCHANGED <<view, active>> /\ UNCHANGED turnOnly
    BY <1>6 DEF Message
  <2>2. call[r] = None
    BY <1>1, <2>1 DEF Asking
  <2>3. QED
    BY <1>1, <1>3, <2>1, <2>2, PublishGoes
<1>7. CASE Limit(r)
  <2>1. /\ pc[r] = "running" /\ Publish(r, log[r], "message", "idle")
        /\ Goto(r, "limited") /\ UNCHANGED <<view, active>> /\ UNCHANGED turnOnly
    BY <1>7 DEF Limit
  <2>2. call[r] = None
    BY <1>1, <2>1 DEF Asking
  <2>3. QED
    BY <1>1, <1>3, <2>1, <2>2, PublishGoes
<1>8. CASE Published(r)
  <2>1. /\ pc[r] = "saving" /\ outcome[r] # "pending" /\ Goto(r, "running") /\ Return(r)
        /\ view' = view /\ log' = log /\ active' = active /\ UNCHANGED turnOnly
    BY <1>8 DEF Published, Back
  <2>2. "running" \in TurnStages \ Asking
    BY DEF TurnStages, Asking
  <2>3. QED
    BY <1>1, <2>1, <2>2, TurnGoes
<1>9. CASE Complete(r)
  <2>1. /\ Publish(r, log[r], "completed", "idle")
        /\ Goto(r, "completing") /\ UNCHANGED <<view, active>> /\ UNCHANGED turnOnly
        /\ pc[r] = "running" \/ (pc[r] = "limited" /\ outcome[r] # "pending")
    BY <1>9 DEF Complete, Back
  <2>2. call[r] = None \/ outcome[r] # "pending"
    BY <1>1, <2>1 DEF Asking
  <2>3. QED
    BY <1>1, <1>3, <2>1, <2>2, PublishGoes
<1>10. CASE Fail(r)
  <2>1. /\ Publish(r, log[r], "error", "error")
        /\ Goto(r, "failing") /\ UNCHANGED <<view, active>> /\ UNCHANGED turnOnly
        /\ \/ pc[r] = "running"
           \/ pc[r] \in {"saving", "limited", "completing"} /\ outcome[r] # "pending"
    BY <1>10 DEF Fail, Back
  <2>2. call[r] = None \/ outcome[r] # "pending"
    BY <1>1, <2>1 DEF Asking
  <2>3. QED
    BY <1>1, <1>3, <2>1, <2>2, PublishGoes
<1>11. CASE Finish(r) \/ Unwind(r)
  <2>1. /\ pc[r] \in {"saving", "limited", "completing", "failing"} /\ outcome[r] # "pending"
        /\ Return(r) /\ view' = view /\ log' = log /\ UNCHANGED turnOnly
        /\ Finally(r, "ended") \/ Finally(r, "reload")
    BY <1>11 DEF Finish, Unwind, Back
  <2>2. PICK t \in {"draining", "unwinding", "ended", "reload"} :
          Goto(r, t) /\ active' \in Requesters \cup {None}
    BY <2>1, FinallyIs
  <2>3. t \in TurnStages \ Asking /\ t # "refail"
    BY Resting
  <2>4. QED
    BY <1>1, <2>1, <2>2, <2>3, TurnGoes
<1>12. CASE Drained(r)
  <2>1. /\ pc[r] \in {"draining", "unwinding"} /\ UNCHANGED store
        /\ view' = view /\ log' = log /\ UNCHANGED turnOnly
        /\ \/ Goto(r, "ended") /\ active' = IF active = r THEN None ELSE active
           \/ Goto(r, "reload") /\ active' = active
    BY <1>12 DEF Drained, End
  <2>2. pc[r] \notin Asking /\ active' \in Requesters \cup {None}
    BY <1>1, <2>1, Resting
  <2>3. PICK t \in {"ended", "reload"} : Goto(r, t)
    BY <2>1
  <2>4. t \in TurnStages \ Asking /\ t # "refail"
    BY Resting
  <2>5. QED
    BY <1>1, <2>1, <2>2, <2>3, <2>4, TurnGoes
<1>13. CASE Reload(r)
  <2>1. /\ pc[r] = "reload" /\ UNCHANGED store /\ view' = [view EXCEPT ![r] = doc]
        /\ Goto(r, "refail") /\ log' = log /\ active' = active /\ UNCHANGED turnOnly
    BY <1>13 DEF Reload, Look, Goto
  <2>2. pc[r] \notin Asking /\ "refail" \in TurnStages \ Asking
    BY <2>1 DEF TurnStages, Asking
  <2>3. QED
    BY <1>1, <2>1, <2>2, TurnGoes
<1>14. CASE Refail(r)
  <2>1. PICK read : read = IF view[r].ctx = None THEN <<>> ELSE view[r].ctx
    OBVIOUS
  <2>2. /\ pc[r] = "refail" /\ Publish(r, read, "error", "error") /\ Goto(r, "refailing")
        /\ UNCHANGED <<view, active>> /\ UNCHANGED turnOnly
    BY <1>14, <2>1 DEF Refail
  <2>3. view[r] \in Docs /\ call[r] = None
    BY <1>1, <2>2 DEF Reading, Asking
  <2>4. read \in Seq(Events)
    BY <1>2, <2>1, <2>3
  <2>5. QED
    BY <1>3, <2>2, <2>3, <2>4, PublishGoes
<1>15. CASE GiveUp(r)
  <2>1. /\ pc[r] = "reload" \/ (pc[r] = "refailing" /\ outcome[r] # "pending")
        /\ Ask(r, Mark("error")) /\ Goto(r, "giveUp")
        /\ view' = view /\ log' = log /\ active' = active /\ cancelled' = cancelled
        /\ cancelQ' = cancelQ /\ target' = target /\ late' = late
    BY <1>15 DEF GiveUp, Back
  <2>2. /\ doc # None /\ doc' = doc /\ Mark("error") \in Requests
        /\ call[r] = None \/ outcome[r] # "pending"
    BY <1>1, <1>3, <2>1, Askable DEF Ask, Asking
  <2>3. TasksInv'
    BY <1>1, <2>1, <2>2, TurnTasks DEF TypesInv, TasksInv
  <2>4. "giveUp" \in StagesOf(r) \ {"start"} /\ "giveUp" \in Asking /\ ~Reading(r, "giveUp")
    BY ActorsAre DEF TurnStages, Asking, Reading
  <2>5. QED
    BY <2>1, <2>2, <2>3, <2>4, RequesterGoes
<1>16. CASE GivenUp(r)
  <2>1. /\ pc[r] \in {"refailing", "giveUp"} /\ outcome[r] # "pending" /\ Return(r)
        /\ Goto(r, "ended") /\ active' = (IF active = r THEN None ELSE active)
        /\ view' = view /\ log' = log /\ UNCHANGED turnOnly
    BY <1>16 DEF GivenUp, Back, End
  <2>2. active' \in Requesters \cup {None} /\ "ended" \in TurnStages \ Asking
    BY <1>1, <2>1, Resting
  <2>3. QED
    BY <1>1, <2>1, <2>2, TurnGoes
<1>17. CASE Interrupt(r)
  BY <1>17, InterruptTypes
<1>18. QED
  BY <1>4, <1>5, <1>6, <1>7, <1>8, <1>9, <1>10, <1>11, <1>12, <1>13, <1>14, <1>15, <1>16,
     <1>17 DEF TurnStep

-----------------------------------------------------------------------------
(* The cancel handlers *)

\* A cancel handler goes on.
LEMMA CancelGoes ==
  ASSUME TypesInv, NEW c \in Cancels, NEW s \in CancelStages \ {"start"}, Goto(c, s),
         doc # None,
         \/ UNCHANGED store /\ pc[c] # "stopping" /\ s # "stopping"
         \/ /\ \E q \in Requests : Ask(c, q)
            /\ pc[c] # "stopping" /\ s = "stopping"
         \/ Return(c) /\ s # "stopping" /\ outcome[c] # "pending",
         view' = view \/ view' = [view EXCEPT ![c] = doc],
         CancelsInv', TasksInv'
  PROVE  TypesInv'
<1>1. /\ c \in Actors /\ doc \in Docs /\ s \in StagesOf(c) /\ pc[c] \in CancelStages
      /\ (call[c] # None <=> pc[c] \in Asking)
      /\ ~Reading(c, s)
  <2>1. c \in Actors /\ StagesOf(c) = CancelStages /\ c \notin Requesters /\ c \notin Senders
    BY ActorsAre
  <2>2. ~Reading(c, s)
    BY <2>1 DEF Reading
  <2>3. doc \in Docs
    BY DEF TypesInv, CallsInv
  <2>4. pc[c] \in CancelStages /\ (call[c] # None <=> pc[c] \in Asking)
    BY <2>1 DEF TypesInv, CallsInv
  <2>5. QED
    BY <2>1, <2>2, <2>3, <2>4
<1>2. \A t \in CancelStages : t \in Asking <=> t = "stopping"
  BY DEF CancelStages, Asking
<1>3. CallsInv'
  BY <1>1, <1>2, StoreCalls DEF TypesInv
<1>4. ReadsInv'
  BY <1>1, ViewReads DEF TypesInv
<1>5. QED
  BY <1>3, <1>4 DEF TypesInv

\* What the others do with the cancel lock stays as it was.
LEMMA CancelQueueStays ==
  ASSUME TypesInv, NEW c \in Cancels, NEW s, Goto(c, s), cancelQ' = cancelQ,
         \/ s \notin {"queued", "waiting", "looking", "stopping"}
         \/ pc[c] \in {"queued", "waiting", "looking", "stopping"} /\ Head(cancelQ) = c
  PROVE  CancelsInv'
<1>1. /\ pc'[c] = s /\ \A b \in Cancels \ {c} : pc'[b] = pc[b]
  BY ActorsAre DEF TypesInv, CallsInv, Goto
<1>2. /\ cancelQ \in Seq(Cancels)
      /\ \A b \in Cancels :
           /\ pc[b] \in {"queued", "waiting", "looking", "stopping"} =>
                \E i \in DOMAIN cancelQ : cancelQ[i] = b
           /\ pc[b] \in {"waiting", "looking", "stopping"} =>
                cancelQ # <<>> /\ Head(cancelQ) = b
  BY DEF TypesInv, CancelsInv
<1>3. \A b \in Cancels :
        /\ pc'[b] \in {"queued", "waiting", "looking", "stopping"} =>
             \E i \in DOMAIN cancelQ : cancelQ[i] = b
        /\ pc'[b] \in {"waiting", "looking", "stopping"} =>
             cancelQ # <<>> /\ Head(cancelQ) = b
  <2> TAKE b \in Cancels
  <2>1. CASE b = c
    BY <1>1, <1>2, <2>1
  <2>2. CASE b # c
    BY <1>1, <1>2, <2>2
  <2>3. QED
    BY <2>1, <2>2
<1>4. QED
  BY <1>2, <1>3 DEF CancelsInv

\* The handler that holds the cancel lock replies and gives it up.
LEMMA CancelReleases ==
  ASSUME TypesInv, NEW c \in Cancels, Goto(c, "replied"), Release(c),
         pc[c] \in {"waiting", "looking", "stopping"}
  PROVE  CancelsInv'
<1>1. /\ pc'[c] = "replied" /\ \A b \in Cancels \ {c} : pc'[b] = pc[b]
  BY ActorsAre DEF TypesInv, CallsInv, Goto
<1>2. /\ cancelQ \in Seq(Cancels) /\ cancelQ # <<>> /\ Head(cancelQ) = c
      /\ \A b \in Cancels :
           /\ pc[b] \in {"queued", "waiting", "looking", "stopping"} =>
                \E i \in DOMAIN cancelQ : cancelQ[i] = b
           /\ pc[b] \in {"waiting", "looking", "stopping"} =>
                cancelQ # <<>> /\ Head(cancelQ) = b
  BY DEF TypesInv, CancelsInv
<1>3. PICK t : t = Tail(cancelQ)
  OBVIOUS
<1>4. PICK n \in Nat : n = Len(cancelQ)
  BY <1>2
<1>5. /\ t \in Seq(Cancels) /\ DOMAIN t = 1 .. n - 1 /\ DOMAIN cancelQ = 1 .. n
      /\ cancelQ[1] = c /\ \A i \in 1 .. n - 1 : t[i] = cancelQ[i + 1]
  BY <1>2, <1>3, <1>4
<1>6. \A b \in Cancels :
        /\ pc'[b] \in {"queued", "waiting", "looking", "stopping"} =>
             \E i \in DOMAIN t : t[i] = b
        /\ pc'[b] \notin {"waiting", "looking", "stopping"}
  <2> TAKE b \in Cancels
  <2>1. CASE b = c
    BY <1>1, <2>1
  <2>2. CASE b # c
    <3>1. pc'[b] \notin {"waiting", "looking", "stopping"}
      BY <1>1, <1>2, <2>2
    <3>2. ASSUME pc'[b] = "queued" PROVE \E i \in DOMAIN t : t[i] = b
      <4>1. PICK i \in DOMAIN cancelQ : cancelQ[i] = b
        BY <1>1, <1>2, <2>2, <3>2
      <4>2. i # 1 /\ i \in 1 .. n
        BY <1>5, <2>2, <4>1
      <4>3. i - 1 \in 1 .. n - 1 /\ (i - 1) + 1 = i
        BY <4>2
      <4>4. QED
        BY <1>5, <4>1, <4>3
    <3>3. QED
      BY <3>1, <3>2
  <2>3. QED
    BY <2>1, <2>2
<1>7. cancelQ' = t
  BY <1>3 DEF Release
<1>8. QED
  BY <1>5, <1>6, <1>7 DEF CancelsInv

LEMMA CancelTypes ==
  ASSUME TypesAssumption, TypesInv, NEW c \in Cancels, CancelStep(c)
  PROVE  TypesInv'
<1>1. /\ pc[c] # "start" => doc # None
      /\ pc[c] \in CancelStages /\ c \in Actors
      /\ active \in Requesters \cup {None} /\ log \in [Requesters -> Seq(Events)]
      /\ late \in Docs \cup {None} /\ cancelled \subseteq Requesters
      /\ target \in [Cancels -> Requesters \cup {None}]
      /\ cancelQ \in Seq(Cancels)
  BY ActorsAre DEF TypesInv, CallsInv, TasksInv, CancelsInv
<1>2. ASSUME doc' # None, cancelled' = cancelled, target' = target, UNCHANGED cancelOnly
      PROVE  TasksInv'
  BY <1>2 DEF TypesInv, TasksInv, cancelOnly
<1>3. Mark("error") \in Requests
  BY Askable DEF Statuses
<1>4. {"check", "queued", "waiting", "looking", "stopping", "replied"} \subseteq
        CancelStages \ {"start"}
  BY DEF CancelStages
<1>5. CASE CancelGet(c)
  <2>1. /\ pc[c] = "start" /\ doc # None /\ Goto(c, "check") /\ UNCHANGED store
        /\ view' = [view EXCEPT ![c] = doc] /\ cancelQ' = cancelQ
        /\ cancelled' = cancelled /\ target' = target /\ UNCHANGED cancelOnly
    BY <1>5 DEF CancelGet, Look, Goto
  <2>2. doc' = doc
    BY <2>1 DEF store
  <2>3. CancelsInv'
    BY <2>1, CancelQueueStays
  <2>4. TasksInv'
    BY <1>2, <2>1, <2>2
  <2>5. QED
    BY <1>4, <2>1, <2>3, <2>4, CancelGoes
<1>6. CASE CancelQueue(c)
  <2>1. /\ pc[c] = "check" /\ Goto(c, "queued") /\ UNCHANGED store
        /\ view' = view /\ cancelQ' = Append(cancelQ, c)
        /\ cancelled' = cancelled /\ target' = target /\ UNCHANGED cancelOnly
    BY <1>6 DEF CancelQueue
  <2>2. doc' = doc /\ doc # None
    BY <1>1, <2>1 DEF store
  <2>3. CancelsInv'
    <3>1. /\ pc'[c] = "queued" /\ \A b \in Cancels \ {c} : pc'[b] = pc[b]
      BY <2>1, ActorsAre DEF TypesInv, CallsInv, Goto
    <3>2. PICK n \in Nat : n = Len(cancelQ)
      BY <1>1
    <3>3. PICK u : u = Append(cancelQ, c)
      OBVIOUS
    <3>4. /\ u \in Seq(Cancels) /\ DOMAIN cancelQ = 1 .. n /\ DOMAIN u = 1 .. n + 1
          /\ u[n + 1] = c /\ (\A i \in 1 .. n : u[i] = cancelQ[i])
          /\ u # <<>> /\ (cancelQ # <<>> => Head(u) = Head(cancelQ))
      BY <1>1, <3>2, <3>3
    <3>5. \A b \in Cancels :
            /\ pc'[b] \in {"queued", "waiting", "looking", "stopping"} =>
                 \E i \in DOMAIN u : u[i] = b
            /\ pc'[b] \in {"waiting", "looking", "stopping"} => Head(u) = b
      <4> TAKE b \in Cancels
      <4>1. CASE b = c
        BY <3>1, <3>4, <4>1
      <4>2. CASE b # c
        <5>1. \A i \in DOMAIN cancelQ : i \in DOMAIN u /\ u[i] = cancelQ[i]
          BY <3>4
        <5>2. QED
          BY <3>1, <3>4, <4>2, <5>1 DEF TypesInv, CancelsInv
      <4>3. QED
        BY <4>1, <4>2
    <3>6. cancelQ' = u
      BY <2>1, <3>3
    <3>7. QED
      BY <3>4, <3>5, <3>6 DEF CancelsInv
  <2>4. TasksInv'
    BY <1>2, <2>1, <2>2
  <2>5. QED
    BY <1>4, <2>1, <2>2, <2>3, <2>4, CancelGoes
<1>7. CASE CancelTask(c)
  <2>1. /\ pc[c] = "queued" /\ Head(cancelQ) = c /\ UNCHANGED store
        /\ view' = view /\ cancelQ' = cancelQ /\ UNCHANGED cancelOnly
    BY <1>7 DEF CancelTask
  <2>2. doc' = doc /\ doc # None
    BY <1>1, <2>1 DEF store
  <2>3. PICK s \in {"looking", "waiting"} : Goto(c, s)
    BY <1>7 DEF CancelTask
  <2>4. CancelsInv'
    BY <2>1, <2>3, CancelQueueStays
  <2>5. TasksInv'
    <3>1. CASE active = None
      <4>1. cancelled' = cancelled /\ target' = target
        BY <1>7, <3>1 DEF CancelTask
      <4>2. QED
        BY <1>2, <2>1, <2>2, <4>1
    <3>2. CASE active # None
      <4>1. /\ cancelled' = cancelled \cup {active}
            /\ target' = [target EXCEPT ![c] = active]
        BY <1>7, <3>2 DEF CancelTask
      <4>2. active \in Requesters
        BY <1>1, <3>2
      <4>3. cancelled' \subseteq Requesters
            /\ target' \in [Cancels -> Requesters \cup {None}]
        BY <1>1, <4>1, <4>2
      <4>4. log' = log /\ active' = active /\ late' = late
        BY <2>1 DEF cancelOnly
      <4>5. QED
        BY <1>1, <2>2, <4>3, <4>4 DEF TasksInv
    <3>3. QED
      BY <3>1, <3>2
  <2>6. s \in CancelStages \ {"start"} /\ s # "stopping"
    BY <1>4
  <2>7. QED
    BY <2>1, <2>2, <2>3, <2>4, <2>5, <2>6, CancelGoes
<1>8. CASE CancelNothing(c)
  <2>1. /\ pc[c] = "looking" /\ Goto(c, "replied") /\ UNCHANGED store /\ Release(c)
        /\ view' = [view EXCEPT ![c] = doc]
        /\ cancelled' = cancelled /\ target' = target /\ UNCHANGED cancelOnly
    BY <1>8 DEF CancelNothing, Look, Goto
  <2>2. doc' = doc /\ doc # None
    BY <1>1, <2>1 DEF store
  <2>3. CancelsInv'
    BY <2>1, CancelReleases
  <2>4. TasksInv'
    BY <1>2, <2>1, <2>2
  <2>5. QED
    BY <1>4, <2>1, <2>2, <2>3, <2>4, CancelGoes
<1>9. CASE CancelWake(c)
  <2>1. /\ pc[c] = "waiting" /\ view' = view
        /\ cancelled' = cancelled /\ target' = target /\ UNCHANGED cancelOnly
    BY <1>9 DEF CancelWake, Woken
  <2>2. CASE Goto(c, "replied") /\ Release(c) /\ UNCHANGED store
    <3>1. doc' = doc /\ doc # None
      BY <1>1, <2>1, <2>2 DEF store
    <3>2. CancelsInv'
      BY <2>1, <2>2, CancelReleases
    <3>3. TasksInv'
      BY <1>2, <2>1, <3>1
    <3>4. QED
      BY <1>4, <2>1, <2>2, <3>1, <3>2, <3>3, CancelGoes
  <2>3. CASE Goto(c, "stopping") /\ Ask(c, Mark("error")) /\ cancelQ' = cancelQ
    <3>1. doc' = doc /\ doc # None
      BY <1>1, <2>1, <2>3 DEF Ask
    <3>2. Head(cancelQ) = c
      BY <2>1 DEF TypesInv, CancelsInv
    <3>3. CancelsInv'
      BY <2>1, <2>3, <3>2, CancelQueueStays
    <3>4. TasksInv'
      BY <1>2, <2>1, <3>1
    <3>5. QED
      BY <1>3, <1>4, <2>1, <2>3, <3>1, <3>3, <3>4, CancelGoes
  <2>4. QED
    BY <1>9, <2>2, <2>3 DEF CancelWake
<1>10. CASE CancelReply(c)
  <2>1. /\ pc[c] = "stopping" /\ outcome[c] # "pending" /\ Goto(c, "replied") /\ Return(c)
        /\ Release(c) /\ view' = view
        /\ cancelled' = cancelled /\ target' = target /\ UNCHANGED cancelOnly
    BY <1>10 DEF CancelReply, Back
  <2>2. doc' = doc /\ doc # None
    BY <1>1, <2>1 DEF Return
  <2>3. CancelsInv'
    BY <2>1, CancelReleases
  <2>4. TasksInv'
    BY <1>2, <2>1, <2>2
  <2>5. QED
    BY <1>4, <2>1, <2>2, <2>3, <2>4, CancelGoes
<1>11. QED
  BY <1>5, <1>6, <1>7, <1>8, <1>9, <1>10 DEF CancelStep

-----------------------------------------------------------------------------
(* The store's steps, restarts, and the theorem *)

LEMMA LandTypes ==
  ASSUME TypesAssumption, TypesInv, NEW a \in Actors, Land(a)
  PROVE  TypesInv'
<1>1. /\ lockQ # <<>> /\ Head(lockQ) = a /\ call[a] # None /\ lockQ' = lockQ
      /\ call' = call /\ pc' = pc /\ view' = view /\ log' = log /\ active' = active
      /\ cancelled' = cancelled /\ cancelQ' = cancelQ /\ target' = target /\ late' = late
  BY DEF Land
<1>2. PICK way \in {"done", "refused", "failed"} : outcome' = [outcome EXCEPT ![a] = way]
  BY DEF Land
<1>3. /\ pc = [b \in Actors |-> pc[b]]
      /\ doc \in Docs \cup {None} /\ lockQ \in Seq(Actors)
      /\ call \in [Actors -> Requests \cup {None}]
      /\ outcome \in [Actors -> {"pending", "done", "refused", "failed"}]
      /\ \A b \in Actors :
           /\ pc[b] \in StagesOf(b) /\ (call[b] # None <=> pc[b] \in Asking)
           /\ outcome[b] # "pending" => lockQ # <<>> /\ Head(lockQ) = b
           /\ pc[b] # "start" => doc # None
      /\ \A i, j \in DOMAIN lockQ : lockQ[i] = lockQ[j] => i = j
      /\ \A i \in DOMAIN lockQ : call[lockQ[i]] # None
  BY DEF TypesInv, CallsInv
<1>4. doc' \in Docs \cup {None} /\ (doc # None => doc' # None)
  <2>1. CASE Accepts(call[a], doc) /\ doc' = Edited(call[a], doc, Now)
    <3>1. doc \in Docs /\ call[a] \in Requests
      BY <1>1, <1>3, <2>1 DEF Accepts, Matches
    <3>2. Edited(call[a], doc, Now) \in Docs
      BY <3>1, NowIs, EditedIsDoc
    <3>3. QED
      BY <2>1, <3>2, MarksAre
  <2>2. CASE doc' = doc
    BY <1>3, <2>2
  <2>3. QED
    BY <2>1, <2>2 DEF Land
<1>5. CallsInv'
  <2>1. /\ outcome' \in [Actors -> {"pending", "done", "refused", "failed"}]
        /\ \A b \in Actors \ {a} : outcome'[b] = outcome[b]
    BY <1>2, <1>3
  <2>2. \A b \in Actors :
          /\ pc'[b] \in StagesOf(b) /\ (call'[b] # None <=> pc'[b] \in Asking)
          /\ outcome'[b] # "pending" => lockQ' # <<>> /\ Head(lockQ') = b
          /\ pc'[b] # "start" => doc' # None
    BY <1>1, <1>3, <1>4, <2>1
  <2>3. QED
    BY <1>1, <1>3, <1>4, <2>1, <2>2 DEF CallsInv
<1>6. ReadsInv' /\ CancelsInv'
  BY <1>1 DEF TypesInv, ReadsInv, CancelsInv, Reading
<1>7. TasksInv'
  BY <1>1, <1>4 DEF TypesInv, TasksInv
<1>8. QED
  BY <1>5, <1>6, <1>7 DEF TypesInv

LEMMA LateTypes == ASSUME TypesInv, LateWrite PROVE TypesInv'
<1>1. /\ late # None /\ doc' = late /\ late' = None /\ lockQ' = lockQ /\ outcome' = outcome
      /\ call' = call /\ pc' = pc /\ view' = view /\ log' = log /\ active' = active
      /\ cancelled' = cancelled /\ cancelQ' = cancelQ /\ target' = target
  BY DEF LateWrite
<1>2. doc' \in Docs /\ doc' # None
  BY <1>1, MarksAre DEF TypesInv, TasksInv
<1>3. CallsInv'
  BY <1>1, <1>2 DEF TypesInv, CallsInv
<1>4. ReadsInv' /\ CancelsInv'
  BY <1>1 DEF TypesInv, ReadsInv, CancelsInv, Reading
<1>5. TasksInv'
  BY <1>1, <1>2 DEF TypesInv, TasksInv
<1>6. QED
  BY <1>3, <1>4, <1>5 DEF TypesInv

LEMMA CrashTypes == ASSUME TypesInv, Crash PROVE TypesInv'
<1>1. /\ pc' = [a \in Actors |->
              IF pc[a] = "start" THEN "start"
              ELSE IF pc[a] \in TurnStages THEN "ended" ELSE "replied"]
      /\ lockQ' = <<>> /\ cancelQ' = <<>> /\ call' = [a \in Actors |-> None]
      /\ outcome' = [a \in Actors |-> "pending"] /\ view' = [a \in Actors |-> None]
      /\ active' = None /\ cancelled' = {} /\ late' = None
      /\ doc' = doc /\ log' = log /\ target' = target
  BY DEF Crash
<1>2. ASSUME NEW a \in Actors
      PROVE  /\ pc'[a] \in StagesOf(a) /\ pc'[a] \in {"start", "ended", "replied"}
             /\ (pc'[a] = "start" <=> pc[a] = "start")
             /\ a \in Cancels => pc'[a] # "ended"
  <2>1. pc[a] \in StagesOf(a)
    BY DEF TypesInv, CallsInv
  <2>2. CASE a \in Cancels
    <3>1. pc[a] \in CancelStages /\ StagesOf(a) = CancelStages
      BY <2>1, <2>2, ActorsAre
    <3>2. pc[a] \notin TurnStages
      BY <3>1 DEF CancelStages, TurnStages
    <3>3. QED
      BY <1>1, <3>1, <3>2 DEF CancelStages
  <2>3. CASE a \notin Cancels
    <3>1. StagesOf(a) = RequestStages \cup TurnStages
      BY <2>3, ActorsAre
    <3>2. QED
      BY <1>1, <2>3, <3>1 DEF RequestStages, TurnStages
  <2>4. QED
    BY <2>2, <2>3
<1>3. {"start", "ended", "replied"} \cap Asking = {}
  BY DEF Asking
<1>4. CallsInv'
  <2>1. /\ lockQ' \in Seq(Actors) /\ DOMAIN lockQ' = {}
        /\ call' \in [Actors -> Requests \cup {None}]
        /\ outcome' \in [Actors -> {"pending", "done", "refused", "failed"}]
        /\ pc' = [a \in Actors |-> pc'[a]]
    BY <1>1
  <2>2. \A b \in Actors :
          /\ pc'[b] \in StagesOf(b) /\ (call'[b] # None <=> pc'[b] \in Asking)
          /\ outcome'[b] = "pending"
          /\ pc'[b] # "start" => doc' # None
    BY <1>1, <1>2, <1>3 DEF TypesInv, CallsInv
  <2>3. QED
    BY <1>1, <2>1, <2>2 DEF TypesInv, CallsInv
<1>5. ReadsInv'
  <2>1. \A b \in Actors : ~Reading(b, pc'[b])
    BY <1>2 DEF Reading
  <2>2. QED
    BY <1>1, <2>1 DEF ReadsInv, Reading
<1>6. CancelsInv'
  <2>1. \A c \in Cancels : pc'[c] \notin {"queued", "waiting", "looking", "stopping"}
    BY <1>2, ActorsAre
  <2>2. QED
    BY <1>1, <2>1 DEF CancelsInv
<1>7. TasksInv'
  BY <1>1 DEF TypesInv, TasksInv
<1>8. QED
  BY <1>4, <1>5, <1>6, <1>7 DEF TypesInv

LEMMA TypesInit == ASSUME TypesAssumption, Init PROVE TypesInv
<1>1. \A a \in Actors : "start" \in StagesOf(a) /\ "start" \notin Asking /\ ~Reading(a, "start")
  BY DEF StagesOf, CancelStages, RequestStages, Asking, Reading
<1>2. /\ doc = None /\ lockQ = <<>> /\ call = [a \in Actors |-> None]
      /\ outcome = [a \in Actors |-> "pending"] /\ pc = [a \in Actors |-> "start"]
      /\ view = [a \in Actors |-> None] /\ log = [r \in Requesters |-> <<>>]
      /\ active = None /\ cancelled = {} /\ cancelQ = <<>>
      /\ target = [c \in Cancels |-> None] /\ late = None
  BY DEF Init
<1>3. lockQ \in Seq(Actors) /\ DOMAIN lockQ = {} /\ cancelQ \in Seq(Cancels)
  BY <1>2
<1>4. CallsInv
  BY <1>1, <1>2, <1>3 DEF CallsInv
<1>5. ReadsInv
  BY <1>1, <1>2 DEF ReadsInv
<1>6. CancelsInv
  BY <1>2, <1>3, ActorsAre DEF CancelsInv
<1>7. TasksInv
  <2>1. <<>> \in Seq(Events)
    OBVIOUS
  <2>2. QED
    BY <1>2, <2>1 DEF TasksInv
<1>8. QED
  BY <1>4, <1>5, <1>6, <1>7 DEF TypesInv

LEMMA TypesNext == ASSUME TypesAssumption PROVE TypesInv /\ [Next]_vars => TypesInv'
<1> SUFFICES ASSUME TypesInv, [Next]_vars PROVE TypesInv'
  OBVIOUS
<1>1. CASE \E a \in Actors : Land(a)
  BY <1>1, LandTypes
<1>2. CASE \E r \in Requesters : RequestStep(r) \/ TurnStep(r)
  BY <1>2, RequestTypes, TurnStepTypes
<1>3. CASE \E c \in Cancels : CancelStep(c)
  BY <1>3, CancelTypes
<1>4. CASE LateWrite
  BY <1>4, LateTypes
<1>5. CASE Crash
  BY <1>5, CrashTypes
<1>6. CASE UNCHANGED vars
  BY <1>6 DEF vars, TypesInv, CallsInv, ReadsInv, CancelsInv, TasksInv, Reading
<1>7. QED
  BY <1>1, <1>2, <1>3, <1>4, <1>5, <1>6 DEF Next

LEMMA TypesFacts == TypesInv => TypeOK
<1> SUFFICES ASSUME TypesInv PROVE TypeOK
  OBVIOUS
<1>1. /\ \A r \in Requesters : pc[r] \in RequestStages \cup TurnStages
      /\ \A c \in Cancels : pc[c] \in CancelStages
  BY ActorsAre DEF TypesInv, CallsInv
<1>2. QED
  BY <1>1 DEF TypesInv, CallsInv, ReadsInv, CancelsInv, TasksInv, TypeOK

\* Every variable of the lifecycle has its type, through any senders, cancels, cleanups,
\* tool call limits, failed store calls, jobs that outlive their call and restarts: a
\* handler never goes on with a document it did not find, a save never carries what is
\* no log, no call acts for nobody, and the two queues hold those who wait in them.
THEOREM TurnTypesHold == ASSUME TypesAssumption PROVE Spec => []TypeOK
<1>1. Init => TypesInv
  BY TypesInit
<1>2. TypesInv /\ [Next]_vars => TypesInv'
  BY TypesNext
<1>3. QED
  BY <1>1, <1>2, TypesFacts, PTL DEF Spec

\* Between its effect and its return a store call is alone, and so is a cancel handler
\* between the lock and its answer.
Alone ==
  /\ \A a, b \in Actors : outcome[a] # "pending" /\ outcome[b] # "pending" => a = b
  /\ \A b, c \in Cancels :
       {pc[b], pc[c]} \subseteq {"waiting", "looking", "stopping"} => b = c

\* The store's asyncio lock and the conversation's cancel lock exclude, although a
\* cancelled turn gives up its place in the first and a restart empties both: no two store
\* calls are between effect and return, and no two cancel handlers await a turn, look at
\* the document or replace its status at a time (router.py:424-463).
THEOREM LocksExclude == ASSUME TypesAssumption PROVE Spec => []Alone
<1>1. Init => TypesInv
  BY TypesInit
<1>2. TypesInv /\ [Next]_vars => TypesInv'
  BY TypesNext
<1>3. TypesInv => Alone
  <2> SUFFICES ASSUME TypesInv PROVE Alone
    OBVIOUS
  <2>1. \A a \in Actors : outcome[a] # "pending" => Head(lockQ) = a
    BY DEF TypesInv, CallsInv
  <2>2. \A c \in Cancels :
          pc[c] \in {"waiting", "looking", "stopping"} => Head(cancelQ) = c
    BY DEF TypesInv, CancelsInv
  <2>3. QED
    BY <2>1, <2>2 DEF Alone
<1>4. QED
  BY <1>1, <1>2, <1>3, PTL DEF Spec

=============================================================================
