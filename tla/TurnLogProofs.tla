--------------------------- MODULE TurnLogProofs ---------------------------
(***************************************************************************)
(* Proof about TurnLifecycle, while nobody cancels and no turn runs into   *)
(* its tool call limit: the stored log only grows, and until a store call  *)
(* raises no turn goes on in it after its ending.  If the creation comes   *)
(* through and nothing restarts, a turn that ended closed its part of it.  *)
(*                                                                         *)
(* The argument: a request and its turn own the log as they own "working"  *)
(* (TurnStatusProofs).  What the owner holds in memory is the stored log,   *)
(* until it asks for a save; that save carries the stored log and events   *)
(* of the owner behind it.                                                 *)
(***************************************************************************)
EXTENDS TurnStatusProofs, SequenceTheorems

\* The contexts are the durable logs.
LogAssumption == Contexts = Seq(Events)

-----------------------------------------------------------------------------
(* Logs *)

\* No event of turn r, none that ends it, an ending of it as the last event.
Absent(r, s)  == \A i \in DOMAIN s : s[i].turn # r
Open(r, s)    == \A i \in DOMAIN s : s[i].turn = r => ~Ending(s[i])
EndedBy(r, s) == s # <<>> /\ s[Len(s)].turn = r /\ Ending(s[Len(s)])

\* Log t is s and then events of turn r, or one event.
Adds(r, s, t) ==
  /\ \A i \in DOMAIN s : i \in DOMAIN t /\ t[i] = s[i]
  /\ \A i \in DOMAIN t \ DOMAIN s : t[i].turn = r
AddsOne(r, s, t) == \E k \in Kinds : t = Append(s, [turn |-> r, kind |-> k])

\* The last event of turn r ends it.
ClosedIn(r, s) ==
  \E i \in DOMAIN s :
    /\ s[i].turn = r /\ Ending(s[i])
    /\ \A j \in DOMAIN s : s[j].turn = r => j <= i

LEMMA AddsIsPrefix ==
  ASSUME NEW r, NEW s \in Seq(Events), NEW t \in Seq(Events), Adds(r, s, t)
  PROVE  IsPrefix(s, t)
<1>1. PICK n \in Nat : n = Len(s)
  OBVIOUS
<1>2. PICK m \in Nat : m = Len(t)
  OBVIOUS
<1>3. DOMAIN s = 1 .. n /\ DOMAIN t = 1 .. m /\ n <= m /\ \A i \in 1 .. n : t[i] = s[i]
  BY <1>1, <1>2 DEF Adds
<1>4. SubSeq(t, 1, n) \in Seq(Events) /\ SubSeq(s, 1, n) \in Seq(Events)
  BY <1>1, <1>2, <1>3
<1>5. /\ Len(SubSeq(t, 1, n)) = n /\ Len(SubSeq(s, 1, n)) = n
      /\ \A i \in 1 .. n : SubSeq(t, 1, n)[i] = t[i] /\ SubSeq(s, 1, n)[i] = s[i]
  BY <1>1, <1>2, <1>3
<1>6. \A i \in 1 .. n : SubSeq(t, 1, n)[i] = SubSeq(s, 1, n)[i]
  BY <1>3, <1>5
<1>7. SubSeq(s, 1, n) = SubSeq(t, 1, n)
  BY <1>4, <1>5, <1>6, SeqEqual
<1>8. QED
  BY <1>1, <1>2, <1>3, <1>7 DEF IsPrefix

LEMMA AddsNothing ==
  ASSUME NEW r, NEW s PROVE Adds(r, s, s)
  BY DEF Adds

LEMMA AppendIs ==
  ASSUME NEW s \in Seq(Events), NEW e \in Events
  PROVE  /\ Append(s, e) \in Seq(Events) /\ Len(s) \in Nat
         /\ DOMAIN s = 1 .. Len(s) /\ DOMAIN Append(s, e) = 1 .. Len(s) + 1
         /\ Len(Append(s, e)) = Len(s) + 1 /\ Append(s, e) # <<>>
         /\ Append(s, e)[Len(s) + 1] = e
         /\ \A i \in 1 .. Len(s) : Append(s, e)[i] = s[i]
<1>1. PICK n \in Nat : n = Len(s)
  OBVIOUS
<1>2. PICK u : u = Append(s, e)
  OBVIOUS
<1>3. u \in Seq(Events) /\ Len(u) = n + 1 /\ u[n + 1] = e /\ \A i \in 1 .. n : u[i] = s[i]
  BY <1>1, <1>2
<1>4. DOMAIN s = 1 .. n /\ DOMAIN u = 1 .. n + 1 /\ u # <<>>
  BY <1>1, <1>3
<1>5. QED
  BY <1>1, <1>2, <1>3, <1>4

LEMMA AddsMore ==
  ASSUME NEW r, NEW s \in Seq(Events), NEW t \in Seq(Events), Adds(r, s, t),
         NEW e \in Events, e.turn = r
  PROVE  Adds(r, s, Append(t, e))
<1>1. PICK m \in Nat : m = Len(t)
  OBVIOUS
<1>2. PICK u \in Seq(Events) : u = Append(t, e)
  BY AppendIs
<1>3. /\ DOMAIN t = 1 .. m /\ DOMAIN u = 1 .. m + 1 /\ u[m + 1] = e
      /\ \A i \in 1 .. m : u[i] = t[i]
  BY <1>1, <1>2, AppendIs
<1>4. QED
  BY <1>2, <1>3 DEF Adds

LEMMA OneAdds ==
  ASSUME NEW r \in Requesters, NEW s \in Seq(Events), NEW t, AddsOne(r, s, t)
  PROVE  Adds(r, s, t) /\ t \in Seq(Events)
<1>1. PICK k \in Kinds : t = Append(s, [turn |-> r, kind |-> k])
  BY DEF AddsOne
<1>2. [turn |-> r, kind |-> k] \in Events
  BY DEF Events
<1>3. QED
  BY <1>1, <1>2, AddsNothing, AddsMore, AppendIs

\* Events of r say nothing about another turn, but that they come after it.
LEMMA OthersEvents ==
  ASSUME NEW r, NEW q, q # r, NEW s \in Seq(Events), NEW t \in Seq(Events), Adds(r, s, t)
  PROVE  /\ Absent(q, s) => Absent(q, t)
         /\ ClosedIn(q, s) => ClosedIn(q, t)
<1>1. /\ \A i \in DOMAIN s : i \in DOMAIN t /\ t[i] = s[i]
      /\ \A i \in DOMAIN t \ DOMAIN s : t[i].turn = r
  BY DEF Adds
<1>2. ASSUME Absent(q, s) PROVE Absent(q, t)
  BY <1>1, <1>2 DEF Absent
<1>3. ASSUME ClosedIn(q, s) PROVE ClosedIn(q, t)
  <2>1. PICK i \in DOMAIN s : /\ s[i].turn = q /\ Ending(s[i])
                              /\ \A j \in DOMAIN s : s[j].turn = q => j <= i
    BY <1>3 DEF ClosedIn
  <2>2. i \in DOMAIN t /\ t[i].turn = q /\ Ending(t[i])
    BY <1>1, <2>1
  <2>3. \A j \in DOMAIN t : t[j].turn = q => j <= i
    BY <1>1, <2>1
  <2>4. QED
    BY <2>2, <2>3 DEF ClosedIn
<1>4. QED
  BY <1>2, <1>3

LEMMA EndedIsClosed ==
  ASSUME NEW r, NEW s \in Seq(Events), EndedBy(r, s) PROVE ClosedIn(r, s)
<1>1. DOMAIN s = 1 .. Len(s) /\ Len(s) \in Nat /\ Len(s) \in DOMAIN s
  BY DEF EndedBy
<1>2. QED
  BY <1>1 DEF EndedBy, ClosedIn

\* What one event of r makes of the log.
LEMMA OneMore ==
  ASSUME NEW r \in Requesters, NEW s \in Seq(Events), NEW k \in Kinds, NEW t,
         t = Append(s, [turn |-> r, kind |-> k])
  PROVE  /\ t \in Seq(Events) /\ AddsOne(r, s, t)
         /\ k # "message" => EndedBy(r, t)
         /\ k = "message" /\ Open(r, s) => Open(r, t)
<1>1. PICK e \in Events : e = [turn |-> r, kind |-> k]
  BY DEF Events
<1>2. e.turn = r /\ (Ending(e) <=> k # "message")
  BY <1>1 DEF Ending
<1>3. PICK n \in Nat : n = Len(s)
  OBVIOUS
<1>4. /\ t \in Seq(Events) /\ t # <<>> /\ Len(t) = n + 1 /\ DOMAIN t = 1 .. n + 1
      /\ t[n + 1] = e /\ DOMAIN s = 1 .. n /\ \A i \in 1 .. n : t[i] = s[i]
  BY <1>1, <1>3, AppendIs
<1>5. ASSUME k # "message" PROVE EndedBy(r, t)
  BY <1>2, <1>4, <1>5 DEF EndedBy
<1>6. ASSUME k = "message", Open(r, s) PROVE Open(r, t)
  <2>1. ASSUME NEW i \in 1 .. n + 1, t[i].turn = r PROVE ~Ending(t[i])
    BY <1>2, <1>4, <1>6, <2>1 DEF Open
  <2>2. QED
    BY <1>4, <2>1 DEF Open
<1>7. QED
  BY <1>4, <1>5, <1>6 DEF AddsOne

\* What is behind the end of s follows no ending of its turn.
LEMMA NoneFollows ==
  ASSUME NEW r \in Requesters, NEW s \in Seq(Events), NEW t, AddsOne(r, s, t), Open(r, s)
  PROVE  \A i \in DOMAIN t \ DOMAIN s : \A j \in 1 .. i - 1 :
           t[j].turn = t[i].turn => ~Ending(t[j])
<1>1. PICK k \in Kinds : t = Append(s, [turn |-> r, kind |-> k])
  BY DEF AddsOne
<1>2. PICK e \in Events : e = [turn |-> r, kind |-> k]
  BY DEF Events
<1>3. PICK n \in Nat : n = Len(s)
  OBVIOUS
<1>4. /\ DOMAIN t = 1 .. n + 1 /\ t[n + 1] = e /\ DOMAIN s = 1 .. n
      /\ \A i \in 1 .. n : t[i] = s[i]
  BY <1>1, <1>2, <1>3, AppendIs
<1> SUFFICES ASSUME NEW i \in DOMAIN t \ DOMAIN s, NEW j \in 1 .. i - 1,
                    t[j].turn = t[i].turn
             PROVE  ~Ending(t[j])
  OBVIOUS
<1>5. i = n + 1 /\ j \in 1 .. n
  BY <1>4
<1>6. s[j].turn = r
  BY <1>2, <1>4, <1>5
<1>7. QED
  BY <1>4, <1>5, <1>6 DEF Open

-----------------------------------------------------------------------------
(* The invariant *)

\* r asked for a save that its organisation may make.
Stores(r)   == pc[r] \in Calling /\ call[r].kind = "save" /\ call[r].org = "own"
Unstored(r) == Stores(r) /\ outcome[r] # "done"

\* What r holds in memory and has asked the store for.
Asked(r) ==
  /\ log[r] \in Seq(Events)
  /\ pc[r] \in Calling /\ ~Stores(r) =>
       \/ call[r].kind \in {"status", "claim"} /\ call[r].org = "own"
       \/ pc[r] = "failing" /\ call[r].org = ""
  /\ Stores(r) => call[r].ctx \in Seq(Events)
  /\ pc[r] \in {"seeding", "saving", "completing", "refailing"} => Stores(r)
  /\ pc[r] \in {"restoring", "giveUp", "claiming"} => ~Stores(r)
  /\ pc[r] \in {"claiming", "loading", "merging", "marking"} => r # Creator
  /\ pc[r] = "seeding" => r = Creator /\ call[r].ctx = <<>>
  /\ pc[r] \in {"saving", "completing", "failing"} /\ Stores(r) => call[r].ctx = log[r]
  /\ pc[r] \in {"completing", "failing", "refailing"} /\ Stores(r) =>
       EndedBy(r, call[r].ctx)

\* What the owner holds is the stored log, with its own events behind it.
InStep(r) ==
  /\ pc[r] \in {"merging", "refail"} => view[r].ctx = doc.ctx
  /\ pc[r] = "marking" /\ Stores(r) => call[r].ctx = doc.ctx
  /\ pc[r] = "running" => log[r] = doc.ctx
  /\ pc[r] = "saving" /\ outcome[r] = "done" => log[r] = doc.ctx
  /\ pc[r] \in {"saving", "completing", "failing"} /\ Unstored(r) => doc.ctx # None
  /\ r = Creator /\ pc[r] \in {"uploading", "seeding"} /\ outcome[r] # "done" =>
       doc.ctx = None
  /\ r = Creator /\ (pc[r] = "load" \/ (pc[r] = "seeding" /\ outcome[r] = "done")) =>
       doc.ctx # None
  /\ Unstored(r) /\ doc.ctx # None => Adds(r, doc.ctx, call[r].ctx)

\* Until a store call raises, a turn that is not over has no ending in the log.
NotOver(r) ==
  /\ \/ outcome[r] = "failed"
     \/ pc[r] \in {"unwinding", "reload", "refail", "refailing", "giveUp"}
     => faults # 0
  /\ faults = 0 /\ doc.ctx # None =>
       /\ pc[r] \notin TurnStages \ {"load"} => Absent(r, doc.ctx)
       /\ pc[r] \in {"running", "saving", "completing", "failing"} /\ outcome[r] # "done"
          => Open(r, doc.ctx)
       /\ pc[r] \in {"saving", "completing", "failing"} /\ Unstored(r) =>
            AddsOne(r, doc.ctx, call[r].ctx)
       /\ pc[r] = "saving" => Open(r, call[r].ctx)

Logs(r) == Asked(r) /\ InStep(r) /\ NotOver(r)

LInv ==
  /\ view = [r \in Requesters |-> view[r]] /\ log = [r \in Requesters |-> log[r]]
  /\ faults \in Nat
  /\ \A r \in Requesters : log[r] \in Seq(Events)
  /\ pc[Creator] # "start" =>
       /\ doc.org = "own" /\ doc.ctx \in Contents
       /\ \A r \in Requesters : Logs(r)

-----------------------------------------------------------------------------
(* What the steps have in common *)

LEMMA OwnIsNot == "own" # ""
  OBVIOUS

LEMMA LogNone == ASSUME LogAssumption PROVE None \notin Seq(Events) /\ <<>> \in Seq(Events)
  BY NoneAssumption DEF LogAssumption

\* r goes on; what the others hold still fits the document.
LEMMA GoesOnLogs ==
  ASSUME OInv, LInv, NEW r \in Requesters, Moves(r), pc[Creator] # "start",
         pc'[r] # "start", faults' \in Nat, faults' >= faults,
         view' = [view EXCEPT ![r] = view'[r]], log' = [log EXCEPT ![r] = log'[r]],
         Logs(r)'
  PROVE  LInv'
<1>1. \A q \in Requesters \ {r} :
        /\ pc'[q] = pc[q] /\ call'[q] = call[q] /\ outcome'[q] = outcome[q]
        /\ view'[q] = view[q] /\ log'[q] = log[q]
  <2>1. \A q \in Requesters \ {r} :
          pc'[q] = pc[q] /\ call'[q] = call[q] /\ outcome'[q] = outcome[q]
    BY DEF OInv, Shaped, Moves
  <2>2. \A q \in Requesters \ {r} : view'[q] = view[q] /\ log'[q] = log[q]
    BY DEF LInv
  <2>3. QED
    BY <2>1, <2>2
<1>2. doc' = doc /\ faults \in Nat /\ (faults' = 0 => faults = 0)
  BY DEF Moves, LInv
<1>3. ASSUME NEW q \in Requesters \ {r} PROVE Logs(q)'
  <2>1. Logs(q)
    BY DEF LInv
  <2>2. /\ pc'[q] = pc[q] /\ call'[q] = call[q] /\ outcome'[q] = outcome[q]
        /\ view'[q] = view[q] /\ log'[q] = log[q]
    BY <1>1
  <2>3. Stores(q)' = Stores(q) /\ Unstored(q)' = Unstored(q)
    BY <2>2 DEF Stores, Unstored
  <2>4. Asked(q)'
    BY <2>1, <2>2, <2>3 DEF Logs, Asked
  <2>5. InStep(q)'
    BY <1>2, <2>1, <2>2, <2>3 DEF Logs, InStep
  <2>6. NotOver(q)'
    BY <1>2, <2>1, <2>2, <2>3 DEF Logs, NotOver
  <2>7. QED
    BY <2>4, <2>5, <2>6 DEF Logs
<1>4. \A q \in Requesters : Logs(q)'
  BY <1>3
<1>5. view' = [q \in Requesters |-> view'[q]] /\ log' = [q \in Requesters |-> log'[q]]
  BY DEF LInv
<1>6. \A q \in Requesters : log'[q] \in Seq(Events)
  BY <1>4 DEF Logs, Asked
<1>7. doc'.org = "own" /\ doc'.ctx \in Contents
  BY <1>2 DEF LInv, Contents
<1>8. QED
  BY <1>4, <1>5, <1>6, <1>7 DEF LInv

\* r goes on and has no call.
LEMMA GoLogs ==
  ASSUME OInv, LInv, NEW r \in Requesters, pc[Creator] # "start",
         \/ Return(r)
         \/ UNCHANGED store /\ pc[r] \notin Calling,
         pc' = [pc EXCEPT ![r] = pc'[r]], pc'[r] \notin Calling \cup {"start"},
         view' = [view EXCEPT ![r] = view'[r]], log' = [log EXCEPT ![r] = log'[r]],
         faults' = faults, log'[r] \in Seq(Events),
         pc'[r] \in {"loading", "merging"} => r # Creator,
         pc'[r] \in {"merging", "refail"} => view'[r].ctx = doc.ctx,
         pc'[r] = "running" => log'[r] = doc.ctx,
         r = Creator => pc'[r] # "uploading",
         r = Creator /\ pc'[r] = "load" => doc.ctx # None,
         pc'[r] \in {"unwinding", "reload", "refail"} => faults # 0,
         pc'[r] \notin TurnStages \ {"load"} => pc[r] \notin TurnStages \ {"load"},
         pc'[r] = "running" /\ faults = 0 => Open(r, doc.ctx)
  PROVE  LInv'
<1> USE DEF Calling, Holding, Releasing
<1>1. call'[r] = None /\ outcome'[r] = "pending" /\ Moves(r)
  <2>1. CASE Return(r)
    BY <2>1 DEF OInv, Shaped, Return, Moves
  <2>2. CASE UNCHANGED store /\ pc[r] \notin Calling
    BY <2>2 DEF store, OInv, Shaped, Fits, Moves
  <2>3. QED
    BY <2>1, <2>2
<1>2. faults' \in Nat /\ faults' >= faults /\ doc' = doc
  BY <1>1 DEF LInv, Moves
<1>3. ~Stores(r)' /\ ~Unstored(r)'
  BY DEF Stores, Unstored
<1>4. Asked(r)'
  BY <1>3 DEF Asked
<1>5. InStep(r)'
  BY <1>1, <1>2, <1>3 DEF InStep
<1>6. NotOver(r)'
  <2>1. NotOver(r)
    BY DEF LInv, Logs
  <2>2. faults = 0 /\ doc.ctx # None /\ pc'[r] \notin TurnStages \ {"load"} =>
          Absent(r, doc.ctx)
    BY <2>1 DEF NotOver
  <2>3. QED
    BY <1>1, <1>2, <1>3, <2>2 DEF NotOver
<1>7. QED
  BY <1>1, <1>2, <1>4, <1>5, <1>6, GoesOnLogs DEF Logs

\* r asks for a mark or a claim.
LEMMA MarkLogs ==
  ASSUME OInv, LInv, NEW r \in Requesters, pc[Creator] # "start", NEW q, Ask(r, q),
         q.kind \in {"status", "claim"}, q.org = "own",
         pc' = [pc EXCEPT ![r] = pc'[r]],
         pc'[r] \in {"claiming", "marking", "restoring", "giveUp"},
         view' = view, log' = log, faults' \in Nat, faults' >= faults,
         pc'[r] \in {"claiming", "marking"} => r # Creator,
         pc'[r] = "giveUp" => faults' # 0,
         pc'[r] # "giveUp" => pc[r] \in {"check", "claiming", "uploading", "seeding"}
  PROVE  LInv'
<1> USE DEF Calling, Holding, Releasing
<1>1. call'[r] = q /\ outcome'[r] = "pending" /\ Moves(r)
  BY DEF OInv, Shaped, Ask, Moves
<1>2. ~Stores(r)' /\ ~Unstored(r)'
  BY <1>1 DEF Stores, Unstored
<1>3. Asked(r)'
  BY <1>1, <1>2 DEF Asked, LInv
<1>4. InStep(r)'
  BY <1>1, <1>2 DEF InStep
<1>5. NotOver(r)'
  <2>1. NotOver(r) /\ doc' = doc /\ (faults' = 0 => faults = 0)
    BY <1>1 DEF LInv, Logs, Moves
  <2>2. pc'[r] # "giveUp" /\ faults = 0 /\ doc.ctx # None => Absent(r, doc.ctx)
    BY <2>1 DEF NotOver, TurnStages
  <2>3. pc'[r] = "giveUp" => pc'[r] \in TurnStages \ {"load"}
    BY DEF TurnStages
  <2>4. QED
    BY <1>1, <1>2, <2>1, <2>2, <2>3 DEF NotOver
<1>6. view' = [view EXCEPT ![r] = view'[r]] /\ log' = [log EXCEPT ![r] = log'[r]]
  BY DEF LInv
<1>7. QED
  BY <1>1, <1>3, <1>4, <1>5, <1>6, GoesOnLogs DEF Logs

\* A turn appends to the stored log, as it has it, and saves it all.
LEMMA PublishLogs ==
  ASSUME OInv, LInv, NEW r \in Requesters, pc[Creator] # "start",
         NEW base \in Seq(Events), NEW kind \in Kinds, NEW status,
         Publish(r, base, kind, status), view' = view, faults' = faults,
         NEW s \in {"saving", "completing", "failing", "refailing"}, Goto(r, s),
         doc.ctx # None => Adds(r, doc.ctx, base),
         s \in {"saving", "completing", "failing"} => doc.ctx # None,
         s = "saving" <=> kind = "message",
         s = "refailing" => faults # 0,
         faults = 0 => base = doc.ctx /\ Open(r, doc.ctx)
  PROVE  LInv'
<1> USE DEF Calling, Holding, Releasing
<1>1. PICK t : t = Append(base, [turn |-> r, kind |-> kind])
  OBVIOUS
<1>2. /\ t \in Seq(Events) /\ AddsOne(r, base, t)
      /\ kind # "message" => EndedBy(r, t)
      /\ kind = "message" /\ Open(r, base) => Open(r, t)
  BY <1>1, OneMore
<1>3. PICK q : q = Save("own", status, t)
  OBVIOUS
<1>4. q.kind = "save" /\ q.org = "own" /\ q.ctx = t
  BY <1>3 DEF Save
<1>5. log' = [log EXCEPT ![r] = t] /\ Ask(r, q)
  BY <1>1, <1>3 DEF Publish
<1>6. /\ call'[r] = q /\ outcome'[r] = "pending" /\ pc'[r] = s /\ Moves(r)
      /\ log'[r] = t /\ log' = [log EXCEPT ![r] = log'[r]]
      /\ view' = [view EXCEPT ![r] = view'[r]]
  <2>1. call'[r] = q /\ outcome'[r] = "pending" /\ pc'[r] = s /\ Moves(r)
    BY <1>5 DEF OInv, Shaped, Ask, Moves, Goto
  <2>2. /\ log'[r] = t /\ log' = [log EXCEPT ![r] = log'[r]]
        /\ view' = [view EXCEPT ![r] = view'[r]]
    BY <1>5 DEF LInv
  <2>3. QED
    BY <2>1, <2>2
<1>7. Stores(r)' /\ Unstored(r)'
  BY <1>4, <1>6 DEF Stores, Unstored
<1>8. doc' = doc /\ doc.ctx \in Contents
  BY <1>6 DEF Moves, LInv
<1>9. doc.ctx # None => Adds(r, doc.ctx, t)
  <2> SUFFICES ASSUME doc.ctx # None PROVE Adds(r, doc.ctx, t)
    OBVIOUS
  <2>1. doc.ctx \in Seq(Events) /\ Adds(r, doc.ctx, base)
    BY <1>8 DEF Contents
  <2>2. [turn |-> r, kind |-> kind] \in Events /\ [turn |-> r, kind |-> kind].turn = r
    BY DEF Events
  <2>3. QED
    BY <1>1, <2>1, <2>2, AddsMore
<1>10. Asked(r)'
  BY <1>2, <1>4, <1>6, <1>7 DEF Asked
<1>11. InStep(r)'
  BY <1>4, <1>6, <1>7, <1>8, <1>9 DEF InStep
<1>12. NotOver(r)'
  <2>1. s \in TurnStages \ {"load"}
    BY DEF TurnStages
  <2>2. faults = 0 => base = doc.ctx /\ Open(r, doc.ctx) /\ AddsOne(r, doc.ctx, t)
                      /\ (s = "saving" => Open(r, t))
    BY <1>2
  <2>3. QED
    BY <1>4, <1>6, <1>7, <1>8, <2>1, <2>2 DEF NotOver
<1>13. pc' = [pc EXCEPT ![r] = pc'[r]] /\ faults' \in Nat /\ faults' >= faults
  BY <1>6 DEF Moves, LInv
<1>14. QED
  BY <1>6, <1>10, <1>11, <1>12, <1>13, GoesOnLogs DEF Logs

-----------------------------------------------------------------------------
(* The steps *)

LEMMA LogsInit == ASSUME Cancels = {} PROVE Init => LInv
<1>1. Actors = Requesters /\ Creator \in Requesters /\ <<>> \in Seq(Events)
  BY DEF Actors, Requesters
<1>2. QED
  BY <1>1 DEF Init, LInv

\* What is known of one at work.
LEMMA AtLog ==
  ASSUME OInv, LInv, NEW r \in Requesters, pc[r] # "start"
  PROVE  /\ pc[Creator] # "start" /\ doc.ctx \in Contents /\ faults \in Nat
         /\ view = [view EXCEPT ![r] = view[r]] /\ log = [log EXCEPT ![r] = log[r]]
         /\ log[r] \in Seq(Events) /\ Asked(r) /\ InStep(r) /\ NotOver(r)
<1>1. pc[Creator] # "start"
  BY Going
<1>2. QED
  BY <1>1 DEF LInv, Logs

LEMMA CreateLogs ==
  ASSUME LogAssumption, OInv, LInv, Create
  PROVE  LInv'
<1> USE DEF Calling, Holding, Releasing
<1>1. /\ pc[Creator] = "start" /\ Creator \in Requesters
      /\ doc' = NewDoc("own", Now)
      /\ pc' = [pc EXCEPT ![Creator] = "uploading"]
      /\ call' = call /\ outcome' = outcome /\ view' = view /\ log' = log
      /\ faults' = faults
  BY DEF Create, Goto, requestOnly, Requesters
<1>2. \A r \in Requesters :
        /\ pc[r] = "start" /\ outcome[r] = "pending"
        /\ pc'[r] = IF r = Creator THEN "uploading" ELSE "start"
  BY <1>1 DEF OInv, Begun, Fits, Shaped
<1>3. doc'.org = "own" /\ doc'.ctx = None
  BY <1>1 DEF NewDoc
<1>4. ASSUME NEW r \in Requesters PROVE Logs(r)'
  <2>1. /\ pc'[r] \in {"start", "uploading"} /\ (pc'[r] = "uploading" <=> r = Creator)
        /\ outcome'[r] = "pending" /\ log'[r] \in Seq(Events)
    BY <1>1, <1>2 DEF LInv
  <2>2. ~Stores(r)' /\ ~Unstored(r)'
    BY <2>1 DEF Stores, Unstored
  <2>3. Asked(r)'
    BY <2>1, <2>2 DEF Asked
  <2>4. InStep(r)' /\ NotOver(r)'
    BY <1>3, <2>1, <2>2 DEF InStep, NotOver
  <2>5. QED
    BY <2>3, <2>4 DEF Logs
<1>5. QED
  BY <1>1, <1>3, <1>4 DEF LInv, Contents

\* A request carries the stored log to its save, or leaves it alone.
LEMMA RequestLogs ==
  ASSUME LogAssumption, OInv, LInv, NEW r \in Requesters, RequestStep(r)
  PROVE  LInv'
<1> USE DEF Calling, Holding, Releasing
<1>t. TurnStages \ {"load"} = {"running", "saving", "limited", "completing", "failing",
        "unwinding", "reload", "refail", "refailing", "giveUp", "draining", "ended"}
  BY DEF TurnStages
<1>1. CASE Get(r)
  BY <1>1, <1>t, GoLogs DEF Get, Look, requestOnly, OInv, Shaped, Begun, LInv
<1>2. CASE Check(r)
  <2>1. CASE view[r].status = "working"
    BY <1>2, <2>1, <1>t, AtLog, GoLogs DEF Check, Goto, requestOnly, OInv, Shaped
  <2>2. CASE view[r].status # "working"
    <3>1. PICK q : q = Claim(view[r])
      OBVIOUS
    <3>2. q.kind = "claim" /\ q.org = "own"
      BY <3>1 DEF Claim
    <3>3. /\ pc[r] = "check" /\ r # Creator /\ Ask(r, q) /\ pc'[r] = "claiming"
          /\ pc' = [pc EXCEPT ![r] = pc'[r]]
          /\ view' = view /\ log' = log /\ faults' = faults
      BY <1>2, <2>2, <3>1, ActorsAssumption DEF Check, Goto, requestOnly, OInv, Shaped
    <3>4. QED
      BY <3>2, <3>3, AtLog, MarkLogs
  <2>3. QED
    BY <2>1, <2>2
<1>3. CASE ClaimReturns(r)
  <2>1. CASE pc'[r] # "marking"
    BY <1>3, <2>1, <1>t, AtLog, GoLogs
    DEF ClaimReturns, Back, Goto, requestOnly, OInv, Shaped, Asked
  <2>2. CASE pc'[r] = "marking"
    <3>1. PICK q : q = Mark("working")
      OBVIOUS
    <3>2. q.kind = "status" /\ q.org = "own"
      BY <3>1 DEF Mark
    <3>3. /\ pc[r] = "claiming" /\ r # Creator /\ Ask(r, q)
          /\ pc' = [pc EXCEPT ![r] = pc'[r]]
          /\ view' = view /\ log' = log /\ faults' = faults
      BY <1>3, <2>2, <3>1, AtLog
      DEF ClaimReturns, Back, Goto, requestOnly, OInv, Shaped, Asked
    <3>4. QED
      BY <2>2, <3>2, <3>3, AtLog, MarkLogs
  <2>3. QED
    BY <2>1, <2>2
<1>4. CASE Upload(r)
  <2>1. CASE pc'[r] = "loading"
    BY <1>4, <2>1, <1>t, AtLog, GoLogs, ActorsAssumption
    DEF Upload, Goto, requestOnly, OInv, Shaped
  <2>2. CASE pc'[r] = "seeding"
    <3>1. /\ r = Creator /\ pc[r] = "uploading" /\ Ask(r, Save("own", "working", <<>>))
          /\ view' = view /\ log' = log /\ faults' = faults
          /\ pc' = [pc EXCEPT ![r] = pc'[r]]
      BY <1>4, <2>2 DEF Upload, Goto, requestOnly, OInv, Shaped
    <3>2. PICK q : q = Save("own", "working", <<>>)
      OBVIOUS
    <3>3. q.kind = "save" /\ q.org = "own" /\ q.ctx = <<>>
      BY <3>2 DEF Save
    <3>4. call'[r] = q /\ outcome'[r] = "pending" /\ Moves(r) /\ doc' = doc
      BY <3>1, <3>2 DEF OInv, Shaped, Ask, Moves
    <3>5. doc.ctx = None
      BY <3>1, AtLog, GoLogs DEF InStep, OInv, Fits
    <3>6. Stores(r)' /\ <<>> \in Seq(Events) /\ log'[r] \in Seq(Events)
      BY <2>2, <3>1, <3>3, <3>4 DEF Stores, LInv
    <3>7. Asked(r)' /\ InStep(r)'
      BY <2>2, <3>1, <3>3, <3>4, <3>5, <3>6 DEF Asked, InStep, Unstored
    <3>8. NotOver(r)'
      BY <2>2, <3>4, <3>5 DEF NotOver
    <3>9. QED
      BY <2>2, <3>1, <3>4, <3>7, <3>8, AtLog, GoesOnLogs DEF Logs
  <2>3. QED
    BY <1>4, <2>1, <2>2 DEF Upload, Goto, OInv, Shaped
<1>5. CASE UploadFails(r)
  <2>1. PICK q : q = Mark(IF r = Creator THEN "error" ELSE view[r].status)
    OBVIOUS
  <2>2. q.kind = "status" /\ q.org = "own"
    BY <2>1 DEF Mark
  <2>3. /\ pc[r] = "uploading" /\ Ask(r, q) /\ pc'[r] = "restoring"
        /\ pc' = [pc EXCEPT ![r] = pc'[r]]
        /\ view' = view /\ log' = log /\ faults' = faults
    BY <1>5, <2>1 DEF UploadFails, Goto, requestOnly, OInv, Shaped
  <2>4. QED
    BY <2>2, <2>3, AtLog, MarkLogs
<1>6. CASE LoadForFiles(r)
  BY <1>6, <1>t, AtLog, GoLogs
  DEF LoadForFiles, Look, requestOnly, OInv, Shaped, LInv, Asked
<1>7. CASE Merge(r)
  <2>1. /\ pc[r] = "merging" /\ view[r].ctx # None
        /\ Ask(r, Save("own", "working", view[r].ctx))
        /\ pc'[r] = "marking" /\ view' = view /\ log' = log /\ faults' = faults
        /\ pc' = [pc EXCEPT ![r] = pc'[r]]
    BY <1>7 DEF Merge, Goto, requestOnly, OInv, Shaped
  <2>2. PICK q : q = Save("own", "working", view[r].ctx)
    OBVIOUS
  <2>3. q.kind = "save" /\ q.org = "own" /\ q.ctx = view[r].ctx
    BY <2>2 DEF Save
  <2>4. call'[r] = q /\ outcome'[r] = "pending" /\ Moves(r) /\ doc' = doc
    BY <2>1, <2>2 DEF OInv, Shaped, Ask, Moves
  <2>5. view[r].ctx = doc.ctx /\ doc.ctx \in Seq(Events)
    BY <2>1, AtLog DEF InStep, Contents
  <2>6. Stores(r)' /\ log'[r] \in Seq(Events)
    BY <2>1, <2>3, <2>4 DEF Stores, LInv
  <2>7. Asked(r)'
    BY <2>1, <2>3, <2>4, <2>5, <2>6, AtLog DEF Asked
  <2>8. InStep(r)'
    BY <2>1, <2>3, <2>4, <2>5, AddsNothing DEF InStep
  <2>9. NotOver(r)'
    <3>1. faults = 0 /\ doc.ctx # None => Absent(r, doc.ctx)
      BY <2>1, <1>t, AtLog DEF NotOver
    <3>2. QED
      BY <2>1, <2>4, <3>1 DEF NotOver
  <2>10. QED
    BY <2>1, <2>4, <2>7, <2>8, <2>9, AtLog, GoesOnLogs DEF Logs
<1>8. CASE Refuse(r)
  BY <1>8, <1>t, AtLog, GoLogs DEF Refuse, Back, Goto, requestOnly, OInv, Shaped
<1>9. CASE StartTurn(r)
  <2>1. /\ pc'[r] = "load" /\ pc' = [pc EXCEPT ![r] = pc'[r]]
        /\ view' = view /\ log' = log /\ faults' = faults
    BY <1>9 DEF StartTurn, Goto, OInv, Shaped
  <2>2. CASE pc[r] = "merging" /\ UNCHANGED store /\ view[r].ctx = None
    BY <2>1, <2>2, <1>t, AtLog, GoLogs DEF Asked
  <2>3. CASE Back(r, {"seeding", "marking"}, {"done"}) /\ Return(r)
    <3>1. pc[r] \in {"seeding", "marking"} /\ outcome[r] = "done"
      BY <2>3 DEF Back
    <3>2. r = Creator => doc.ctx # None
      BY <3>1, AtLog DEF Asked, InStep
    <3>3. QED
      BY <2>1, <2>3, <3>1, <3>2, <1>t, AtLog, GoLogs
  <2>4. QED
    BY <1>9, <2>2, <2>3 DEF StartTurn
<1>10. CASE r = Creator /\ SeedFails
  <2>1. PICK q : q = Mark("error")
    OBVIOUS
  <2>2. q.kind = "status" /\ q.org = "own"
    BY <2>1 DEF Mark
  <2>3. /\ pc[r] = "seeding" /\ Ask(r, q) /\ pc'[r] = "restoring"
        /\ pc' = [pc EXCEPT ![r] = pc'[r]]
        /\ view' = view /\ log' = log /\ faults' = faults
    BY <1>10, <2>1 DEF SeedFails, Back, Goto, requestOnly, OInv, Shaped
  <2>4. QED
    BY <2>2, <2>3, AtLog, MarkLogs
<1>11. QED
  BY <1>1, <1>2, <1>3, <1>4, <1>5, <1>6, <1>7, <1>8, <1>9, <1>10, CreateLogs
  DEF RequestStep

\* A turn publishes from the log as it loaded it, grown by its own events.
LEMMA TurnLogs ==
  ASSUME LogAssumption, OInv, LInv, Limited = {}, NEW r \in Requesters, TurnStep(r)
  PROVE  LInv'
<1> USE DEF Calling, Holding, Releasing
<1>t. TurnStages \ {"load"} = {"running", "saving", "limited", "completing", "failing",
        "unwinding", "reload", "refail", "refailing", "giveUp", "draining", "ended"}
  BY DEF TurnStages
<1>a. \A k \in {"message", "completed", "error"} : k \in Kinds
  BY DEF Kinds
<1>1. CASE Load(r)
  <2>1. /\ pc[r] = "load" /\ UNCHANGED store /\ view' = view /\ faults' = faults
        /\ view' = [view EXCEPT ![r] = view'[r]] /\ log' = [log EXCEPT ![r] = log'[r]]
    BY <1>1, AtLog DEF Load, turnOnly, LInv
  <2>2. CASE doc.ctx = None /\ r # Creator
    <3>1. log' = log /\ pc'[r] \in {"ended", "draining"} /\ pc' = [pc EXCEPT ![r] = pc'[r]]
      BY <1>1, <2>2 DEF Load, Finally, End, Goto, OInv, Shaped
    <3>2. QED
      BY <2>1, <3>1, <1>t, AtLog, GoLogs
  <2>3. CASE ~(doc.ctx = None /\ r # Creator)
    <3>1. pc'[r] = "running" /\ pc' = [pc EXCEPT ![r] = pc'[r]]
      BY <1>1, <2>3 DEF Load, Goto, OInv, Shaped
    <3>2. doc.ctx # None /\ doc.ctx \in Seq(Events)
      BY <2>1, <2>3, AtLog DEF InStep, Contents
    <3>3. log'[r] = doc.ctx
      BY <1>1, <2>3, <3>2 DEF Load, LInv
    <3>4. faults = 0 => Open(r, doc.ctx)
      BY <2>1, <3>2, <1>t, AtLog DEF NotOver, Absent, Open
    <3>5. QED
      BY <2>1, <3>1, <3>2, <3>3, <3>4, <1>t, AtLog, GoLogs
  <2>4. QED
    BY <2>2, <2>3
<1>2. CASE StartFails(r)
  <2>1. PICK q : q = Save("", "error", <<[turn |-> r, kind |-> "error"]>>)
    OBVIOUS
  <2>2. q.kind = "save" /\ q.org = ""
    BY <2>1 DEF Save
  <2>3. /\ pc[r] = "load" /\ Ask(r, q) /\ pc'[r] = "failing"
        /\ pc' = [pc EXCEPT ![r] = pc'[r]]
        /\ view' = view /\ log' = log /\ faults' = faults
    BY <1>2, <2>1 DEF StartFails, Goto, turnOnly, OInv, Shaped
  <2>4. call'[r] = q /\ outcome'[r] = "pending" /\ Moves(r) /\ doc' = doc
    BY <2>3 DEF OInv, Shaped, Ask, Moves
  <2>5. ~Stores(r)' /\ ~Unstored(r)'
    BY <2>2, <2>4 DEF Stores, Unstored
  <2>6. Asked(r)' /\ InStep(r)'
    BY <2>2, <2>3, <2>4, <2>5, AtLog DEF Asked, InStep
  <2>7. NotOver(r)'
    <3>1. faults = 0 /\ doc.ctx # None => Open(r, doc.ctx)
      BY <2>3, <1>t, AtLog DEF NotOver, Absent, Open
    <3>2. QED
      BY <2>3, <2>4, <2>5, <3>1, <1>t DEF NotOver
  <2>8. QED
    BY <2>3, <2>4, <2>6, <2>7, AtLog, GoesOnLogs DEF Logs
<1>3. CASE Message(r)
  <2>1. /\ pc[r] = "running" /\ Publish(r, log[r], "message", "working")
        /\ Goto(r, "saving") /\ view' = view /\ faults' = faults
    BY <1>3 DEF Message, turnOnly
  <2>2. log[r] = doc.ctx /\ log[r] \in Seq(Events) /\ doc.ctx # None
    BY <2>1, AtLog, LogNone DEF InStep
  <2>3. faults = 0 => Open(r, doc.ctx)
    BY <2>1, <2>2, AtLog, OwnIsNot DEF NotOver, OInv, Fits
  <2>4. QED
    BY <1>a, <2>1, <2>2, <2>3, AtLog, AddsNothing, PublishLogs
<1>4. CASE Limit(r)
  BY <1>4 DEF Limit
<1>5. CASE Published(r)
  <2>1. /\ pc[r] = "saving" /\ outcome[r] = "done" /\ Return(r) /\ pc'[r] = "running"
        /\ pc' = [pc EXCEPT ![r] = pc'[r]]
        /\ view' = view /\ log' = log /\ faults' = faults
    BY <1>5 DEF Published, Back, Goto, turnOnly, OInv, Shaped
  <2>2. log[r] = doc.ctx /\ log[r] \in Seq(Events)
    BY <2>1, AtLog DEF InStep
  <2>3. faults = 0 => Open(r, doc.ctx)
    BY <2>1, <2>2, AtLog, LogNone DEF NotOver, Asked
  <2>4. QED
    BY <2>1, <2>2, <2>3, <1>t, AtLog, GoLogs
<1>6. CASE Complete(r)
  <2>1. /\ pc[r] = "running" /\ Publish(r, log[r], "completed", "idle")
        /\ Goto(r, "completing") /\ view' = view /\ faults' = faults
    BY <1>6 DEF Complete, Back, turnOnly, OInv
  <2>2. log[r] = doc.ctx /\ log[r] \in Seq(Events) /\ doc.ctx # None
    BY <2>1, AtLog, LogNone DEF InStep
  <2>3. faults = 0 => Open(r, doc.ctx)
    BY <2>1, <2>2, AtLog DEF NotOver, OInv, Fits
  <2>4. QED
    BY <1>a, <2>1, <2>2, <2>3, AtLog, AddsNothing, PublishLogs
<1>7. CASE Fail(r)
  <2>1. /\ Publish(r, log[r], "error", "error")
        /\ Goto(r, "failing") /\ view' = view /\ faults' = faults
        /\ \/ pc[r] = "running"
           \/ pc[r] \in {"saving", "completing"} /\ outcome[r] = "failed"
    BY <1>7 DEF Fail, Back, turnOnly, OInv
  <2>2. CASE pc[r] = "running"
    <3>1. log[r] = doc.ctx /\ log[r] \in Seq(Events) /\ doc.ctx # None
      BY <2>2, AtLog, LogNone DEF InStep
    <3>2. faults = 0 => Open(r, doc.ctx)
      BY <2>2, <3>1, AtLog DEF NotOver, OInv, Fits
    <3>3. QED
      BY <1>a, <2>1, <2>2, <3>1, <3>2, AtLog, AddsNothing, PublishLogs
  <2>3. CASE pc[r] \in {"saving", "completing"} /\ outcome[r] = "failed"
    <3>1. Unstored(r) /\ call[r].ctx = log[r] /\ log[r] \in Seq(Events) /\ faults # 0
      BY <2>3, AtLog DEF Asked, Unstored, NotOver
    <3>2. doc.ctx # None /\ Adds(r, doc.ctx, log[r])
      BY <2>3, <3>1, AtLog DEF InStep
    <3>3. QED
      BY <1>a, <2>1, <2>3, <3>1, <3>2, AtLog, PublishLogs
  <2>4. QED
    BY <2>1, <2>2, <2>3
<1>8. CASE Finish(r)
  BY <1>8, <1>t, AtLog, GoLogs
  DEF Finish, Back, Finally, End, Goto, turnOnly, OInv, Shaped
<1>9. CASE Unwind(r)
  BY <1>9, <1>t, AtLog, GoLogs
  DEF Unwind, Back, Finally, Goto, turnOnly, OInv, Shaped, NotOver
<1>10. CASE Drained(r)
  BY <1>10, <1>t, AtLog, GoLogs
  DEF Drained, End, Goto, turnOnly, OInv, Shaped, NotOver
<1>11. CASE Reload(r)
  BY <1>11, <1>t, AtLog, GoLogs DEF Reload, Look, turnOnly, OInv, Shaped, NotOver, LInv
<1>12. CASE Refail(r)
  <2>1. PICK base : base = IF view[r].ctx = None THEN <<>> ELSE view[r].ctx
    OBVIOUS
  <2>2. /\ pc[r] = "refail" /\ Publish(r, base, "error", "error")
        /\ Goto(r, "refailing") /\ view' = view /\ faults' = faults
    BY <1>12, <2>1 DEF Refail, turnOnly
  <2>3. view[r].ctx = doc.ctx /\ faults # 0
    BY <2>2, AtLog DEF InStep, NotOver
  <2>4. base \in Seq(Events) /\ (doc.ctx # None => base = doc.ctx)
    BY <2>1, <2>2, <2>3, AtLog DEF Contents
  <2>5. doc.ctx # None => Adds(r, doc.ctx, base)
    BY <2>4, AddsNothing
  <2>6. QED
    BY <1>a, <2>2, <2>3, <2>4, <2>5, AtLog, PublishLogs
<1>13. CASE GiveUp(r)
  <2>1. PICK q : q = Mark("error")
    OBVIOUS
  <2>2. q.kind = "status" /\ q.org = "own"
    BY <2>1 DEF Mark
  <2>3. /\ pc[r] \in {"reload", "refailing"} /\ Ask(r, q) /\ pc'[r] = "giveUp"
        /\ pc' = [pc EXCEPT ![r] = pc'[r]]
        /\ view' = view /\ log' = log /\ (faults' = faults \/ faults' = faults + 1)
    BY <1>13, <2>1 DEF GiveUp, Back, Goto, OInv, Shaped
  <2>4. faults # 0 /\ faults' \in Nat /\ faults' >= faults /\ faults' # 0
    BY <2>3, AtLog DEF NotOver
  <2>5. QED
    BY <2>2, <2>3, <2>4, AtLog, MarkLogs
<1>14. CASE GivenUp(r)
  BY <1>14, <1>t, AtLog, GoLogs DEF GivenUp, Back, End, Goto, turnOnly, OInv, Shaped
<1>15. CASE Interrupt(r)
  BY <1>15 DEF Interrupt, OInv, Shaped
<1>16. QED
  BY <1>1, <1>2, <1>3, <1>4, <1>5, <1>6, <1>7, <1>8, <1>9, <1>10, <1>11, <1>12, <1>13,
     <1>14, <1>15 DEF TurnStep

\* A call that acts leaves the log alone, or is the owner's save.
LEMMA LandIs ==
  ASSUME OInv, LInv, NEW a \in Requesters, Land(a)
  PROVE  /\ call[a] # None /\ outcome[a] = "pending" /\ pc[a] \in Calling
         /\ call' = call /\ pc' = pc /\ view' = view /\ log' = log
         /\ pc[Creator] # "start" /\ doc.ctx \in Contents /\ faults \in Nat
         /\ \A r \in Requesters \ {a} : outcome'[r] = outcome[r] /\ outcome[r] = "pending"
         /\ doc'.org = "own"
         /\ \/ /\ doc' = doc
               /\ \/ outcome'[a] = "refused" /\ faults' = faults
                  \/ outcome'[a] = "failed" /\ faults' = faults + 1
            \/ /\ outcome'[a] = "done" /\ faults' = faults
               /\ ~Stores(a) /\ doc'.ctx = doc.ctx
            \/ /\ outcome'[a] = "done" /\ faults' = faults
               /\ Stores(a) /\ doc'.ctx = call[a].ctx
<1> USE DEF Calling, Holding, Releasing
<1>1. /\ call[a] # None /\ outcome[a] = "pending" /\ call' = call /\ pc' = pc
      /\ view' = view /\ log' = log /\ Head(lockQ) = a
  BY DEF Land
<1>2. pc[a] \in Calling /\ Fits(a)
  BY <1>1 DEF OInv, Fits
<1>3. pc[Creator] # "start" /\ IsDoc(doc) /\ doc.org = "own" /\ doc.ctx \in Contents
      /\ faults \in Nat /\ Asked(a)
  <2>1. pc[Creator] # "start"
    BY <1>2, Going
  <2>2. QED
    BY <2>1 DEF OInv, Begun, LInv, Logs
<1>4. \A r \in Requesters \ {a} : outcome'[r] = outcome[r] /\ outcome[r] = "pending"
  BY <1>1 DEF Land, OInv, Shaped, AtHead
<1>5. \/ doc' = doc /\ outcome'[a] = "refused" /\ faults' = faults
      \/ doc' = doc /\ outcome'[a] = "failed" /\ faults' = faults + 1
      \/ /\ outcome'[a] = "done" /\ faults' = faults
         /\ Accepts(call[a], doc) /\ doc' = Edited(call[a], doc, Now)
  BY <1>1 DEF Land, OInv, Shaped
<1>6. ASSUME Accepts(call[a], doc), doc' = Edited(call[a], doc, Now)
      PROVE  /\ doc'.org = "own"
             /\ ~Stores(a) => doc'.ctx = doc.ctx
             /\ Stores(a) => doc'.ctx = call[a].ctx
  <2>1. call[a].kind \in {"save", "status", "claim"}
    BY <1>2 DEF Fits, Writes
  <2>2. call[a].org = "own"
    BY <1>3, <1>6 DEF Accepts, Matches
  <2>3. doc'.org = "own"
    BY <1>3, <1>6, <2>1, EditedOwner
  <2>4. CASE Stores(a)
    BY <1>3, <1>6, <2>3, <2>4, EditedOwner DEF Stores
  <2>5. CASE ~Stores(a)
    <3>1. call[a].kind \in {"status", "claim"}
      BY <1>2, <2>1, <2>2, <2>5 DEF Stores
    <3>2. QED
      BY <1>3, <1>6, <2>3, <2>5, <3>1, EditedOwner
  <2>6. QED
    BY <2>4, <2>5
<1>7. CASE outcome'[a] = "done"
  <2>1. faults' = faults /\ Accepts(call[a], doc) /\ doc' = Edited(call[a], doc, Now)
    BY <1>5, <1>7
  <2>2. QED
    BY <1>1, <1>2, <1>3, <1>4, <1>6, <1>7, <2>1
<1>8. CASE outcome'[a] # "done"
  BY <1>1, <1>2, <1>3, <1>4, <1>5, <1>8
<1>9. QED
  BY <1>7, <1>8

\* When a's save acts nobody else owns the log.
LEMMA SaveIsOwners ==
  ASSUME OInv, LInv, NEW a \in Requesters, Land(a), Stores(a),
         NEW r \in Requesters \ {a}
  PROVE  ~Owns(r)
<1> USE DEF Calling, Holding, Releasing
<1>1. outcome[a] = "pending" /\ pc[a] \in Calling /\ Asked(a)
  BY LandIs DEF LInv, Logs
<1>2. Owns(a)
  BY <1>1 DEF Asked, Owns
<1>3. QED
  BY <1>2 DEF OInv, Owned

\* What the owner's save makes of the log.
LEMMA SaveAdds ==
  ASSUME LogAssumption, OInv, LInv, NEW a \in Requesters, Land(a), Stores(a)
  PROVE  /\ call[a].ctx \in Seq(Events)
         /\ doc.ctx # None => doc.ctx \in Seq(Events) /\ Adds(a, doc.ctx, call[a].ctx)
         /\ faults = 0 =>
              \/ call[a].ctx = <<>> /\ doc.ctx = None
              \/ call[a].ctx = doc.ctx
              \/ /\ doc.ctx # None /\ Open(a, doc.ctx) /\ AddsOne(a, doc.ctx, call[a].ctx)
                 /\ pc[a] \in {"saving", "completing", "failing"}
<1> USE DEF Calling, Holding, Releasing
<1>1. /\ outcome[a] = "pending" /\ pc[a] \in Calling /\ doc.ctx \in Contents /\ Fits(a)
      /\ Asked(a) /\ InStep(a) /\ NotOver(a)
  BY LandIs DEF LInv, Logs, OInv
<1>2. Unstored(a)
  BY <1>1 DEF Unstored
<1>3. call[a].ctx \in Seq(Events)
  BY <1>1 DEF Asked
<1>4. doc.ctx # None => doc.ctx \in Seq(Events) /\ Adds(a, doc.ctx, call[a].ctx)
  BY <1>1, <1>2 DEF InStep, Contents
<1>5. pc[a] \in {"seeding", "marking", "saving", "completing", "failing", "refailing"}
  BY <1>1 DEF Asked
<1>6. CASE pc[a] = "seeding"
  BY <1>1, <1>3, <1>4, <1>6 DEF Asked, InStep
<1>7. CASE pc[a] = "marking"
  BY <1>1, <1>3, <1>4, <1>7 DEF InStep
<1>8. CASE pc[a] \in {"saving", "completing", "failing"}
  <2>1. doc.ctx # None
    BY <1>1, <1>2, <1>8 DEF InStep
  <2>2. faults = 0 => Open(a, doc.ctx) /\ AddsOne(a, doc.ctx, call[a].ctx)
    BY <1>1, <1>2, <1>8, <2>1 DEF NotOver
  <2>3. QED
    BY <1>3, <1>4, <1>8, <2>1, <2>2
<1>9. CASE pc[a] = "refailing"
  BY <1>1, <1>3, <1>4, <1>9 DEF NotOver
<1>10. QED
  BY <1>5, <1>6, <1>7, <1>8, <1>9

LEMMA LandLogs ==
  ASSUME LogAssumption, OInv, LInv, NEW a \in Requesters, Land(a)
  PROVE  LInv'
<1> USE DEF Calling, Holding, Releasing
<1>1. /\ outcome[a] = "pending" /\ pc[a] \in Calling
      /\ call' = call /\ pc' = pc /\ view' = view /\ log' = log
      /\ pc[Creator] # "start" /\ doc.ctx \in Contents /\ faults \in Nat
      /\ \A r \in Requesters \ {a} : outcome'[r] = outcome[r] /\ outcome[r] = "pending"
      /\ doc'.org = "own"
  BY LandIs
<1>2. \A r \in Requesters : Logs(r) /\ Stores(r)' = Stores(r) /\ Asked(r)'
  BY ZenonT(60), <1>1 DEF LInv, Logs, Asked, Stores
<1>3. \A r \in Requesters \ {a} : Unstored(r)' = Unstored(r)
  BY <1>1, <1>2 DEF Unstored
<1>4. CASE /\ doc' = doc
           /\ \/ outcome'[a] = "refused" /\ faults' = faults
              \/ outcome'[a] = "failed" /\ faults' = faults + 1
  <2>1. ASSUME NEW r \in Requesters \ {a} PROVE InStep(r)' /\ NotOver(r)'
    BY <1>1, <1>2, <1>3, <1>4 DEF Logs, InStep, NotOver
  <2>2. Unstored(a)' = Unstored(a)
    BY <1>1, <1>2, <1>4 DEF Unstored
  <2>3. InStep(a)'
    BY <1>1, <1>2, <1>4, <2>2 DEF Logs, InStep
  <2>4. NotOver(a)'
    BY <1>1, <1>2, <1>4, <2>2 DEF Logs, NotOver
  <2>5. faults' \in Nat
    BY <1>1, <1>4
  <2>6. QED
    BY <1>1, <1>2, <1>4, <2>1, <2>3, <2>4, <2>5 DEF LInv, Logs, Contents
<1>5. CASE outcome'[a] = "done" /\ faults' = faults /\ ~Stores(a) /\ doc'.ctx = doc.ctx
  <2>1. ASSUME NEW r \in Requesters \ {a} PROVE InStep(r)' /\ NotOver(r)'
    BY <1>1, <1>2, <1>3, <1>5 DEF Logs, InStep, NotOver
  <2>2. ~Unstored(a) /\ ~Unstored(a)'
    BY <1>1, <1>2, <1>5 DEF Unstored
  <2>3. InStep(a)'
    BY <1>1, <1>2, <1>5, <2>2 DEF Logs, InStep, Asked
  <2>4. NotOver(a)'
    BY <1>1, <1>2, <1>5, <2>2 DEF Logs, NotOver
  <2>5. QED
    BY <1>1, <1>2, <1>5, <2>1, <2>3, <2>4 DEF LInv, Logs, Contents
<1>6. CASE outcome'[a] = "done" /\ faults' = faults /\ Stores(a) /\ doc'.ctx = call[a].ctx
  <2>1. PICK t : t = call[a].ctx
    OBVIOUS
  <2>2. /\ t \in Seq(Events) /\ t # None /\ doc'.ctx = t
        /\ doc.ctx # None => doc.ctx \in Seq(Events) /\ Adds(a, doc.ctx, t)
        /\ faults = 0 =>
             \/ t = <<>> /\ doc.ctx = None
             \/ t = doc.ctx
             \/ /\ doc.ctx # None /\ Open(a, doc.ctx) /\ AddsOne(a, doc.ctx, t)
                /\ pc[a] \in {"saving", "completing", "failing"}
    BY <1>6, <2>1, SaveAdds, LogNone
  <2>3. ASSUME NEW r \in Requesters \ {a} PROVE InStep(r)' /\ NotOver(r)'
    <3>1. ~Owns(r)
      BY <1>6, SaveIsOwners
    <3>2. pc'[r] = pc[r] /\ outcome'[r] = "pending" /\ pc[r] # "limited"
      BY <1>1 DEF OInv
    <3>3. /\ pc'[r] \notin {"merging", "refail", "marking", "running", "saving", "seeding",
                            "uploading", "load", "completing", "failing", "refailing"}
          /\ ~Unstored(r)'
      <4>1. outcome[r] = "pending" /\ Asked(r)
        BY <1>1, <1>2 DEF Logs
      <4>2. pc[r] \notin {"merging", "refail", "marking", "running", "saving", "seeding",
                          "uploading", "load", "completing", "failing", "refailing"}
        BY <3>1, <4>1 DEF Owns
      <4>3. ~Stores(r)
        BY <3>1, <4>1, <4>2 DEF Owns, Stores, Asked
      <4>4. QED
        BY <3>2, <4>2, <4>3, <1>2 DEF Unstored
    <3>4. InStep(r)'
      BY <3>2, <3>3 DEF InStep
    <3>5. faults = 0 /\ pc[r] \notin TurnStages \ {"load"} => Absent(r, t)
      <4> SUFFICES ASSUME faults = 0, pc[r] \notin TurnStages \ {"load"} PROVE Absent(r, t)
        OBVIOUS
      <4>1. CASE t = <<>>
        BY <4>1 DEF Absent
      <4>2. CASE doc.ctx # None
        <5>1. Absent(r, doc.ctx)
          BY <1>2, <4>2 DEF Logs, NotOver
        <5>2. QED
          BY <2>2, <4>2, <5>1, OthersEvents
      <4>3. QED
        BY <2>2, <4>1, <4>2
    <3>6. NotOver(r)'
      <4>1. NotOver(r)
        BY <1>2 DEF Logs
      <4>2. QED
        BY <1>6, <2>2, <3>2, <3>3, <3>5, <4>1 DEF NotOver
    <3>7. QED
      BY <3>4, <3>6
  <2>4. /\ pc'[a] = pc[a] /\ ~Unstored(a)' /\ Asked(a)
        /\ pc[a] \in {"seeding", "marking", "saving", "completing", "failing", "refailing"}
    BY <1>1, <1>2, <1>6 DEF Unstored, Logs, Asked
  <2>5. InStep(a)'
    BY <1>1, <1>6, <2>1, <2>2, <2>4 DEF InStep, Asked
  <2>6. NotOver(a)'
    <3>1. NotOver(a)
      BY <1>2 DEF Logs
    <3>2. /\ pc[a] \in {"seeding", "marking"} /\ faults = 0 => Absent(a, t)
          /\ pc[a] = "saving" /\ faults = 0 => Open(a, t)
      <4>1. ASSUME pc[a] \in {"seeding", "marking"}, faults = 0 PROVE Absent(a, t)
        <5>1. CASE t = <<>>
          BY <5>1 DEF Absent
        <5>2. CASE t = doc.ctx
          BY <2>2, <3>1, <4>1, <5>2 DEF NotOver, TurnStages
        <5>3. QED
          BY <2>2, <4>1, <5>1, <5>2
      <4>2. ASSUME pc[a] = "saving", faults = 0 PROVE Open(a, t)
        <5>1. doc.ctx # None
          BY <1>1, <1>2, <1>6, <4>2 DEF Logs, InStep, Unstored
        <5>2. QED
          BY <2>1, <3>1, <4>2, <5>1 DEF NotOver
      <4>3. QED
        BY <4>1, <4>2
    <3>3. pc[a] \in {"saving", "completing", "failing", "refailing"} =>
            pc[a] \in TurnStages \ {"load"}
      BY DEF TurnStages
    <3>4. QED
      BY <1>1, <1>6, <2>1, <2>2, <2>4, <3>1, <3>2, <3>3 DEF NotOver
  <2>7. QED
    BY <1>1, <1>2, <1>6, <2>2, <2>3, <2>5, <2>6 DEF LInv, Logs, Contents
<1>7. QED
  BY <1>4, <1>5, <1>6, LandIs

\* Nothing of the document is lost; no turn is left to go on.
LEMMA CrashLogs == ASSUME Cancels = {}, OInv, LInv, Crash PROVE LInv'
<1> USE DEF Calling, Holding, Releasing
<1>1. Actors = Requesters /\ Creator \in Requesters
  BY DEF Actors, Requesters
<1>2. /\ log' = log /\ doc' = doc /\ faults' = faults
      /\ view' = [r \in Requesters |-> None]
  BY <1>1 DEF Crash
<1>3. \A r \in Requesters :
        /\ pc'[r] \in {"start", "ended", "replied"} /\ (pc'[r] = "start" <=> pc[r] = "start")
        /\ (pc'[r] # "ended" => pc[r] \notin TurnStages)
        /\ call'[r] = None /\ outcome'[r] = "pending"
  BY <1>1 DEF Crash, TurnStages
<1>4. view' = [r \in Requesters |-> view'[r]] /\ log' = [r \in Requesters |-> log'[r]]
  BY <1>2 DEF LInv
<1>5. ASSUME NEW r \in Requesters, pc[Creator] # "start" PROVE Logs(r)'
  <2>1. Logs(r)
    BY <1>5 DEF LInv
  <2>2. ~Stores(r)' /\ ~Unstored(r)'
    BY <1>3 DEF Stores, Unstored
  <2>3. Asked(r)' /\ InStep(r)'
    BY <1>2, <1>3, <2>1, <2>2 DEF Logs, Asked, InStep
  <2>4. pc'[r] \notin TurnStages \ {"load"} => pc[r] \notin TurnStages \ {"load"}
    BY <1>3 DEF TurnStages
  <2>5. NotOver(r)'
    BY <1>2, <1>3, <2>1, <2>2, <2>4 DEF Logs, NotOver
  <2>6. QED
    BY <2>3, <2>5 DEF Logs
<1>6. pc'[Creator] # "start" => pc[Creator] # "start"
  BY <1>1, <1>3
<1>7. QED
  BY <1>2, <1>4, <1>5, <1>6 DEF LInv, Contents

LEMMA LogsNext ==
  ASSUME LogAssumption, Cancels = {}, Limited = {}
  PROVE  OInv /\ LInv /\ [Next]_vars => LInv'
<1> SUFFICES ASSUME OInv, LInv, [Next]_vars PROVE LInv'
  OBVIOUS
<1>1. CASE UNCHANGED vars
  <2>1. /\ doc' = doc /\ pc' = pc /\ call' = call /\ outcome' = outcome /\ view' = view
        /\ log' = log /\ faults' = faults
    BY <1>1 DEF vars
  <2>2. \A r \in Requesters : Stores(r)' = Stores(r) /\ Unstored(r)' = Unstored(r)
    BY <2>1 DEF Stores, Unstored
  <2>3. ASSUME NEW r \in Requesters, Logs(r) PROVE Logs(r)'
    <3>1. Asked(r)'
      BY <2>1, <2>2, <2>3 DEF Logs, Asked
    <3>2. InStep(r)'
      BY <2>1, <2>2, <2>3 DEF Logs, InStep
    <3>3. NotOver(r)'
      BY <2>1, <2>2, <2>3 DEF Logs, NotOver
    <3>4. QED
      BY <3>1, <3>2, <3>3 DEF Logs
  <2>4. QED
    BY <2>1, <2>3 DEF LInv, Contents
<1>2. ASSUME NEW a \in Actors, Land(a) PROVE LInv'
  BY <1>2, LandLogs DEF Actors
<1>3. ASSUME NEW r \in Requesters, RequestStep(r) \/ TurnStep(r) PROVE LInv'
  BY <1>3, RequestLogs, TurnLogs
<1>4. CASE LateWrite
  BY <1>4 DEF LateWrite, OInv, Shaped
<1>5. CASE Crash
  BY <1>5, CrashLogs
<1>6. QED
  BY <1>1, <1>2, <1>3, <1>4, <1>5 DEF Next

-----------------------------------------------------------------------------
(* The log grows *)

\* What LogGrows says of one step.
Grows ==
  lates = 0 /\ doc # None /\ doc.ctx # None =>
    /\ doc'.ctx # None /\ IsPrefix(doc.ctx, doc'.ctx)
    /\ faults = 0 =>
         \A i \in DOMAIN doc'.ctx \ DOMAIN doc.ctx : \A j \in 1 .. i - 1 :
           doc'.ctx[j].turn = doc'.ctx[i].turn => ~Ending(doc'.ctx[j])

LEMMA SameGrows ==
  ASSUME LInv, pc[Creator] # "start", doc'.ctx = doc.ctx PROVE Grows
<1> SUFFICES ASSUME doc.ctx # None PROVE Grows
  BY DEF Grows
<1>1. doc.ctx \in Seq(Events)
  BY DEF LInv, Contents
<1>2. IsPrefix(doc.ctx, doc.ctx)
  BY <1>1, AddsNothing, AddsIsPrefix
<1>3. QED
  BY <1>2 DEF Grows

\* Only an owner's save changes a log that is there.
LEMMA StepGrows ==
  ASSUME LogAssumption, Cancels = {}, Limited = {}, OInv, LInv, [Next]_vars
  PROVE  Grows
<1> SUFFICES ASSUME doc # None, doc.ctx # None PROVE Grows
  BY DEF Grows
<1>1. pc[Creator] # "start"
  BY DEF OInv, Begun
<1>2. CASE doc' = doc
  BY <1>1, <1>2, SameGrows
<1>3. ASSUME NEW a \in Requesters, Land(a) PROVE Grows
  <2>1. CASE doc'.ctx = doc.ctx
    BY <1>1, <2>1, SameGrows
  <2>2. CASE Stores(a) /\ doc'.ctx = call[a].ctx
    <3>1. PICK s : s = doc.ctx
      OBVIOUS
    <3>2. PICK t : t = call[a].ctx
      OBVIOUS
    <3>3. /\ s \in Seq(Events) /\ t \in Seq(Events) /\ Adds(a, s, t)
          /\ faults = 0 => t = s \/ (Open(a, s) /\ AddsOne(a, s, t))
      BY <1>3, <2>2, <3>1, <3>2, SaveAdds
    <3>4. IsPrefix(s, t) /\ t # None
      BY <3>3, AddsIsPrefix, LogNone
    <3>5. ASSUME faults = 0
          PROVE  \A i \in DOMAIN t \ DOMAIN s : \A j \in 1 .. i - 1 :
                   t[j].turn = t[i].turn => ~Ending(t[j])
      <4>1. CASE t = s
        BY <4>1
      <4>2. CASE Open(a, s) /\ AddsOne(a, s, t)
        BY <3>3, <4>2, NoneFollows
      <4>3. QED
        BY <3>3, <3>5, <4>1, <4>2
    <3>6. QED
      BY <2>2, <3>1, <3>2, <3>4, <3>5 DEF Grows
  <2>3. QED
    BY <1>3, <2>1, <2>2, LandIs
<1>4. CASE UNCHANGED vars
  BY <1>2, <1>4 DEF vars
<1>5. ASSUME NEW r \in Requesters, RequestStep(r) PROVE doc' = doc
  <2>1. ~Create
    BY <1>1 DEF Create
  <2>2. QED
    BY <1>5, <2>1
    DEF RequestStep, Get, Check, ClaimReturns, Upload, UploadFails, LoadForFiles, Merge,
        Refuse, StartTurn, SeedFails, Ask, Return, store
<1>6. ASSUME NEW r \in Requesters, TurnStep(r) PROVE doc' = doc
  BY <1>6
  DEF TurnStep, Load, StartFails, Message, Limit, Published, Complete, Fail, Finish, Unwind,
      Drained, Reload, Refail, GiveUp, GivenUp, Interrupt, Publish, Ask, Return, store
<1>7. CASE LateWrite
  BY <1>7 DEF LateWrite, OInv, Shaped
<1>8. CASE Crash
  BY <1>2, <1>8 DEF Crash
<1>9. QED
  BY <1>2, <1>3, <1>4, <1>5, <1>6, <1>7, <1>8 DEF Next, Actors

\* While nobody cancels and no turn runs into its tool call limit, no save drops or
\* changes a durable event that is stored, whatever else is stored, fails or restarts,
\* and until a store call raises no turn goes on in the log after its ending: a turn
\* saves the log as it loaded it, grown by its own events (events.py:194-215).
THEOREM StoredEventsStay ==
  ASSUME LogAssumption, Cancels = {}, Limited = {} PROVE Spec => LogGrows
<1>1. OInv /\ LInv /\ [Next]_vars => [Grows]_vars
  BY StepGrows
<1>2. QED
  BY <1>1, OwnerInit, OwnerNext, LogsInit, LogsNext, PTL DEF Spec, LogGrows, Grows

-----------------------------------------------------------------------------
(* A turn that ended is closed *)

\* The creation comes through, every turn has its state before it may fail, nothing
\* restarts.
ThroughAssumption ==
  /\ LogAssumption /\ Cancels = {} /\ Limited = {} /\ BadStart = {} /\ MaxCrashes = 0
  /\ Creator \notin BadUpload /\ "seeding" \notin FaultAt
  /\ ~IsDoc(None)

Closed(r) == doc.ctx # None /\ ClosedIn(r, doc.ctx)

\* The last save of a turn closes it; a turn that ends without one met two failures.
Closes(r) ==
  /\ pc[r] \in {"completing", "failing", "refailing"} /\ outcome[r] = "done" => Closed(r)
  /\ pc[r] \in {"draining", "ended"} => faults > 1 \/ Closed(r)
  /\ pc[r] = "giveUp" => faults > 1
  /\ pc[r] = "refailing" /\ outcome[r] = "failed" => faults > 1
  /\ outcome[r] = "refused" => pc[r] = "claiming"
  /\ pc[r] \in Calling => call[r].org = "own"
  /\ pc[r] = "failing" => Stores(r)

CInv ==
  /\ crashes = 0
  /\ pc[Creator] # "start" =>
       /\ \A r \in Requesters : Closes(r)
       /\ doc.ctx = None =>
            pc[Creator] \in {"uploading", "seeding"} /\ outcome[Creator] = "pending"

LEMMA GoesOnClosed ==
  ASSUME OInv, LInv, CInv, NEW r \in Requesters, Moves(r), pc[Creator] # "start",
         faults' \in Nat, faults' >= faults, crashes' = crashes, Closes(r)',
         r = Creator /\ doc.ctx = None =>
           pc'[r] \in {"uploading", "seeding"} /\ outcome'[r] = "pending"
  PROVE  CInv'
<1>1. \A q \in Requesters \ {r} :
        pc'[q] = pc[q] /\ call'[q] = call[q] /\ outcome'[q] = outcome[q]
  BY DEF OInv, Shaped, Moves
<1>2. doc' = doc /\ faults \in Nat /\ (faults > 1 => faults' > 1) /\ Creator \in Requesters
  BY DEF Moves, LInv, Requesters
<1>3. ASSUME NEW q \in Requesters \ {r} PROVE Closes(q)'
  <2>1. Closes(q) /\ (Closed(q) => Closed(q)')
    BY <1>2 DEF CInv, Closed
  <2>2. Stores(q)' = Stores(q)
    BY <1>1 DEF Stores
  <2>3. QED
    BY <1>1, <1>2, <2>1, <2>2 DEF Closes
<1>4. QED
  BY <1>1, <1>2, <1>3 DEF CInv

\* r asks the store.
LEMMA AskClosed ==
  ASSUME OInv, LInv, CInv, NEW r \in Requesters, pc[Creator] # "start", NEW q, Ask(r, q),
         q.org = "own", pc' = [pc EXCEPT ![r] = pc'[r]], pc'[r] \in Calling,
         faults' \in Nat, faults' >= faults, crashes' = crashes,
         pc'[r] = "failing" => q.kind = "save",
         pc'[r] = "giveUp" => faults' > 1,
         r = Creator /\ doc.ctx = None => pc'[r] = "seeding"
  PROVE  CInv'
<1> USE DEF Calling, Holding, Releasing
<1>1. call'[r] = q /\ outcome'[r] = "pending" /\ Moves(r)
  BY DEF OInv, Shaped, Ask, Moves
<1>2. Closes(r)'
  BY <1>1 DEF Closes, Stores
<1>3. QED
  BY <1>1, <1>2, GoesOnClosed

\* r goes on and has no call.
LEMMA GoClosed ==
  ASSUME OInv, LInv, CInv, NEW r \in Requesters, pc[Creator] # "start",
         \/ Return(r)
         \/ UNCHANGED store /\ pc[r] \notin Calling,
         pc' = [pc EXCEPT ![r] = pc'[r]], pc'[r] \notin Calling \cup {"start"},
         faults' = faults, crashes' = crashes,
         pc'[r] \in {"draining", "ended"} => faults > 1 \/ Closed(r),
         ~(r = Creator /\ doc.ctx = None)
  PROVE  CInv'
<1> USE DEF Calling, Holding, Releasing
<1>1. call'[r] = None /\ outcome'[r] = "pending" /\ Moves(r)
  <2>1. CASE Return(r)
    BY <2>1 DEF OInv, Shaped, Return, Moves
  <2>2. CASE UNCHANGED store /\ pc[r] \notin Calling
    BY <2>2 DEF store, OInv, Shaped, Fits, Moves
  <2>3. QED
    BY <2>1, <2>2
<1>2. faults' \in Nat /\ faults' >= faults /\ (Closed(r) => Closed(r)')
  BY <1>1 DEF LInv, Moves, Closed
<1>3. Closes(r)'
  BY <1>1, <1>2 DEF Closes, Stores
<1>4. QED
  BY <1>1, <1>2, <1>3, GoesOnClosed

\* What is known of one at work.
LEMMA AtEnd ==
  ASSUME ThroughAssumption, OInv, LInv, CInv, NEW r \in Requesters, pc[r] # "start"
  PROVE  /\ pc[Creator] # "start" /\ faults \in Nat /\ Closes(r) /\ Asked(r) /\ NotOver(r)
         /\ r = Creator /\ doc.ctx = None =>
              pc[r] \in {"uploading", "seeding"} /\ outcome[r] = "pending"
         /\ r # Creator /\ doc.ctx = None => ~Owns(r)
<1>1. pc[Creator] # "start" /\ Creator \in Requesters
  BY Going DEF Requesters
<1>2. doc.ctx = None => Owns(Creator)
  BY <1>1 DEF CInv, Owns, Holding
<1>3. QED
  BY <1>1, <1>2 DEF CInv, LInv, Logs, OInv, Owned

LEMMA CreateClosed == ASSUME ThroughAssumption, OInv, LInv, CInv, Create PROVE CInv'
<1>1. /\ pc[Creator] = "start" /\ Creator \in Requesters
      /\ pc' = [pc EXCEPT ![Creator] = "uploading"]
      /\ call' = call /\ outcome' = outcome /\ crashes' = crashes
  BY DEF Create, Goto, requestOnly, Requesters
<1>2. \A r \in Requesters :
        /\ outcome'[r] = "pending"
        /\ pc'[r] = IF r = Creator THEN "uploading" ELSE "start"
  BY <1>1 DEF OInv, Begun, Fits, Shaped, Calling, Holding, Releasing
<1>3. \A r \in Requesters : pc'[r] \in {"start", "uploading"}
  BY <1>2
<1>4. \A r \in Requesters : Closes(r)'
  BY <1>2, <1>3 DEF Closes, Calling, Holding, Releasing
<1>5. QED
  BY <1>1, <1>2, <1>4 DEF CInv

LEMMA RequestClosed ==
  ASSUME ThroughAssumption, OInv, LInv, CInv, NEW r \in Requesters, RequestStep(r)
  PROVE  CInv'
<1> USE DEF Calling, Holding, Releasing
<1>1. CASE Get(r)
  BY <1>1, GoClosed, ActorsAssumption DEF Get, Look, requestOnly, OInv, Shaped, Begun
<1>2. CASE Check(r)
  <2>1. CASE view[r].status = "working"
    BY <1>2, <2>1, AtEnd, GoClosed DEF Check, Goto, requestOnly, OInv, Shaped
  <2>2. CASE view[r].status # "working"
    <3>1. PICK q : q = Claim(view[r])
      OBVIOUS
    <3>2. q.org = "own"
      BY <3>1 DEF Claim
    <3>3. /\ pc[r] = "check" /\ r # Creator /\ Ask(r, q) /\ pc'[r] = "claiming"
          /\ pc' = [pc EXCEPT ![r] = pc'[r]] /\ faults' = faults /\ crashes' = crashes
      BY <1>2, <2>2, <3>1, ActorsAssumption DEF Check, Goto, requestOnly, OInv, Shaped
    <3>4. QED
      BY <3>2, <3>3, AtEnd, AskClosed
  <2>3. QED
    BY <2>1, <2>2
<1>3. CASE ClaimReturns(r)
  <2>1. CASE pc'[r] # "marking"
    BY <1>3, <2>1, AtEnd, GoClosed DEF ClaimReturns, Back, Goto, requestOnly, OInv, Shaped
  <2>2. CASE pc'[r] = "marking"
    <3>1. PICK q : q = Mark("working")
      OBVIOUS
    <3>2. q.org = "own"
      BY <3>1 DEF Mark
    <3>3. /\ pc[r] = "claiming" /\ r # Creator /\ Ask(r, q)
          /\ pc' = [pc EXCEPT ![r] = pc'[r]] /\ faults' = faults /\ crashes' = crashes
      BY <1>3, <2>2, <3>1, AtLog
      DEF ClaimReturns, Back, Goto, requestOnly, OInv, Shaped, Asked
    <3>4. QED
      BY <2>2, <3>2, <3>3, AtEnd, AskClosed
  <2>3. QED
    BY <2>1, <2>2
<1>4. CASE Upload(r)
  <2>1. CASE pc'[r] = "loading"
    BY <1>4, <2>1, AtEnd, GoClosed, ActorsAssumption
    DEF Upload, Goto, requestOnly, OInv, Shaped
  <2>2. CASE pc'[r] = "seeding"
    <3>1. PICK q : q = Save("own", "working", <<>>)
      OBVIOUS
    <3>2. q.org = "own"
      BY <3>1 DEF Save
    <3>3. /\ pc[r] = "uploading" /\ Ask(r, q) /\ pc' = [pc EXCEPT ![r] = pc'[r]]
          /\ faults' = faults /\ crashes' = crashes
      BY <1>4, <2>2, <3>1 DEF Upload, Goto, requestOnly, OInv, Shaped
    <3>4. QED
      BY <2>2, <3>2, <3>3, AtEnd, AskClosed
  <2>3. QED
    BY <1>4, <2>1, <2>2 DEF Upload, Goto, OInv, Shaped
<1>5. CASE UploadFails(r)
  <2>1. PICK q : q = Mark(IF r = Creator THEN "error" ELSE view[r].status)
    OBVIOUS
  <2>2. q.org = "own"
    BY <2>1 DEF Mark
  <2>3. /\ pc[r] = "uploading" /\ r # Creator /\ Ask(r, q) /\ pc'[r] = "restoring"
        /\ pc' = [pc EXCEPT ![r] = pc'[r]] /\ faults' = faults /\ crashes' = crashes
    BY <1>5, <2>1 DEF UploadFails, Goto, requestOnly, OInv, Shaped, ThroughAssumption
  <2>4. QED
    BY <2>2, <2>3, AtEnd, AskClosed
<1>6. CASE LoadForFiles(r)
  BY <1>6, AtEnd, GoClosed DEF LoadForFiles, Look, requestOnly, OInv, Shaped
<1>7. CASE Merge(r)
  <2>1. PICK q : q = Save("own", "working", view[r].ctx)
    OBVIOUS
  <2>2. q.org = "own"
    BY <2>1 DEF Save
  <2>3. /\ pc[r] = "merging" /\ Ask(r, q) /\ pc'[r] = "marking"
        /\ pc' = [pc EXCEPT ![r] = pc'[r]] /\ faults' = faults /\ crashes' = crashes
    BY <1>7, <2>1 DEF Merge, Goto, requestOnly, OInv, Shaped
  <2>4. QED
    BY <2>2, <2>3, AtEnd, AskClosed
<1>8. CASE Refuse(r)
  BY <1>8, AtEnd, GoClosed DEF Refuse, Back, Goto, requestOnly, OInv, Shaped
<1>9. CASE StartTurn(r)
  <2>1. CASE pc[r] = "merging" /\ UNCHANGED store
    BY <1>9, <2>1, AtEnd, GoClosed DEF StartTurn, Goto, OInv, Shaped
  <2>2. CASE Back(r, {"seeding", "marking"}, {"done"}) /\ Return(r)
    BY <1>9, <2>2, AtEnd, GoClosed DEF StartTurn, Back, Goto, OInv, Shaped
  <2>3. QED
    BY <1>9, <2>1, <2>2 DEF StartTurn
<1>10. CASE r = Creator /\ SeedFails
  BY SMTT(40), <1>10, AtEnd, AskClosed DEF SeedFails, Back, Goto, requestOnly, OInv, Shaped, Mark
<1>11. QED
  BY <1>1, <1>2, <1>3, <1>4, <1>5, <1>6, <1>7, <1>8, <1>9, <1>10, CreateClosed
  DEF RequestStep

\* A turn asks for the save of one more event.
LEMMA PublishClosed ==
  ASSUME ThroughAssumption, OInv, LInv, CInv, NEW r \in Requesters, NEW base, NEW kind,
         NEW status, Publish(r, base, kind, status),
         NEW s \in {"saving", "completing", "failing", "refailing"}, Goto(r, s),
         faults' = faults, crashes' = crashes, pc[r] \notin {"start", "uploading", "seeding"}
  PROVE  CInv'
<1> USE DEF Calling, Holding, Releasing
<1>1. PICK q : q = Save("own", status, Append(base, [turn |-> r, kind |-> kind]))
  OBVIOUS
<1>2. q.org = "own" /\ q.kind = "save"
  BY <1>1 DEF Save
<1>3. Ask(r, q) /\ pc' = [pc EXCEPT ![r] = pc'[r]] /\ pc'[r] = s
  BY <1>1 DEF Publish, Goto, OInv, Shaped
<1>4. QED
  BY <1>2, <1>3, AtEnd, AskClosed

LEMMA TurnClosed ==
  ASSUME ThroughAssumption, OInv, LInv, CInv, NEW r \in Requesters, TurnStep(r)
  PROVE  CInv'
<1> USE DEF Calling, Holding, Releasing
<1>1. CASE Load(r)
  <2>1. doc.ctx # None
    BY <1>1, AtEnd DEF Load, Owns
  <2>2. pc'[r] = "running" /\ pc' = [pc EXCEPT ![r] = pc'[r]]
    BY <1>1, <2>1 DEF Load, Goto, OInv, Shaped
  <2>3. QED
    BY <1>1, <2>1, <2>2, AtEnd, GoClosed DEF Load, turnOnly
<1>2. CASE StartFails(r)
  BY <1>2 DEF StartFails, ThroughAssumption
<1>3. CASE Message(r)
  BY <1>3, PublishClosed DEF Message, turnOnly
<1>4. CASE Limit(r)
  BY <1>4 DEF Limit, ThroughAssumption
<1>5. CASE Published(r)
  BY <1>5, AtEnd, GoClosed DEF Published, Back, Goto, turnOnly, OInv, Shaped
<1>6. CASE Complete(r)
  BY <1>6, PublishClosed DEF Complete, Back, turnOnly
<1>7. CASE Fail(r)
  BY <1>7, PublishClosed DEF Fail, Back, turnOnly
<1>8. CASE Finish(r)
  <2>1. Closed(r) /\ pc[r] \notin {"start", "uploading", "seeding"}
    BY <1>8, AtEnd DEF Finish, Back, Closes
  <2>2. QED
    BY <1>8, <2>1, AtEnd, GoClosed
    DEF Finish, Finally, End, Goto, turnOnly, OInv, Shaped
<1>9. CASE Unwind(r)
  BY <1>9, AtEnd, GoClosed DEF Unwind, Back, Finally, Goto, turnOnly, OInv, Shaped
<1>10. CASE Drained(r)
  <2>1. pc[r] = "draining" => faults > 1 \/ Closed(r)
    BY AtEnd DEF Closes
  <2>2. QED
    BY <1>10, <2>1, AtEnd, GoClosed DEF Drained, End, Goto, turnOnly, OInv, Shaped
<1>11. CASE Reload(r)
  BY <1>11, AtEnd, GoClosed DEF Reload, Look, turnOnly, OInv, Shaped
<1>12. CASE Refail(r)
  BY <1>12, PublishClosed DEF Refail, turnOnly
<1>13. CASE GiveUp(r)
  <2>1. PICK q : q = Mark("error")
    OBVIOUS
  <2>2. q.org = "own"
    BY <2>1 DEF Mark
  <2>3. /\ pc[r] \in {"reload", "refailing"} /\ Ask(r, q) /\ pc'[r] = "giveUp"
        /\ pc' = [pc EXCEPT ![r] = pc'[r]] /\ crashes' = crashes
        /\ \/ pc[r] = "reload" /\ faults' = faults + 1
           \/ pc[r] = "refailing" /\ outcome[r] \in {"refused", "failed"} /\ faults' = faults
    BY <1>13, <2>1 DEF GiveUp, Back, Goto, OInv, Shaped
  <2>4. faults \in Nat /\ faults # 0
    BY <2>3, AtEnd DEF NotOver
  <2>5. faults' > 1 /\ faults' \in Nat /\ faults' >= faults
    BY <2>3, <2>4, AtEnd DEF Closes
  <2>6. QED
    BY <2>2, <2>3, <2>5, AtEnd, AskClosed
<1>14. CASE GivenUp(r)
  <2>1. faults > 1 \/ Closed(r)
    BY <1>14, AtEnd DEF GivenUp, Back, Closes
  <2>2. QED
    BY <1>14, <2>1, AtEnd, GoClosed DEF GivenUp, Back, End, Goto, turnOnly, OInv, Shaped
<1>15. CASE Interrupt(r)
  BY <1>15 DEF Interrupt, OInv, Shaped
<1>16. QED
  BY <1>1, <1>2, <1>3, <1>4, <1>5, <1>6, <1>7, <1>8, <1>9, <1>10, <1>11, <1>12, <1>13,
     <1>14, <1>15 DEF TurnStep

\* The turn's last save stores its ending; the others' saves keep it.
LEMMA LandClosed ==
  ASSUME ThroughAssumption, OInv, LInv, CInv, NEW a \in Requesters, Land(a)
  PROVE  CInv'
<1> USE DEF Calling, Holding, Releasing
<1>1. /\ outcome[a] = "pending" /\ pc[a] \in Calling
      /\ call' = call /\ pc' = pc /\ pc[Creator] # "start" /\ doc.ctx \in Contents
      /\ faults \in Nat /\ faults' \in Nat /\ faults' >= faults
      /\ \A r \in Requesters \ {a} : outcome'[r] = outcome[r]
  BY LandIs
<1>2. /\ outcome'[a] = "refused" => ~Accepts(call[a], doc)
      /\ outcome'[a] = "failed" => pc[a] \in FaultAt
      /\ crashes' = crashes
  BY DEF Land, OInv, Shaped
<1>3. LogAssumption /\ Asked(a) /\ Fits(a) /\ Closes(a) /\ NotOver(a) /\ doc.org = "own"
      /\ IsDoc(doc) /\ Creator \in Requesters
  BY <1>1 DEF LInv, Logs, CInv, OInv, Begun, ThroughAssumption, Requesters
<1>4. \A r \in Requesters : Stores(r)' = Stores(r)
  BY <1>1 DEF Stores
<1>5. ASSUME NEW r \in Requesters \ {a}, Closed(r) PROVE Closed(r)'
  <2>1. CASE doc'.ctx = doc.ctx
    BY <1>5, <2>1 DEF Closed
  <2>2. CASE Stores(a) /\ doc'.ctx = call[a].ctx
    <3>1. PICK s : s = doc.ctx
      OBVIOUS
    <3>2. PICK t : t = call[a].ctx
      OBVIOUS
    <3>3. s \in Seq(Events) /\ t \in Seq(Events) /\ Adds(a, s, t) /\ ClosedIn(r, s)
      BY <1>3, <1>5, <2>2, <3>1, <3>2, SaveAdds DEF Closed
    <3>4. ClosedIn(r, t) /\ t # None
      BY <1>3, <3>3, OthersEvents, LogNone
    <3>5. QED
      BY <2>2, <3>2, <3>4 DEF Closed
  <2>3. QED
    BY <2>1, <2>2, LandIs
<1>6. ASSUME NEW r \in Requesters \ {a} PROVE Closes(r)'
  <2>1. Closes(r) /\ outcome'[r] = outcome[r] /\ pc'[r] = pc[r] /\ call'[r] = call[r]
    BY <1>1, <1>6 DEF CInv
  <2>2. faults > 1 => faults' > 1
    BY <1>1
  <2>3. QED
    BY <1>4, <1>5, <2>1, <2>2 DEF Closes
<1>7. outcome'[a] = "refused" => pc[a] = "claiming"
  <2>1. doc # None
    BY <1>3 DEF ThroughAssumption
  <2>2. pc[a] # "claiming" => Accepts(call[a], doc)
    BY <1>1, <1>3, <2>1 DEF Fits, Writes, Closes, Accepts, Matches
  <2>3. QED
    BY <1>2, <2>2
<1>8. ASSUME outcome'[a] = "done", pc[a] \in {"completing", "failing", "refailing"}
      PROVE  Closed(a)'
  <2>1. Stores(a)
    BY <1>3, <1>8 DEF Asked, Closes
  <2>2. doc'.ctx = call[a].ctx
    BY <1>8, <2>1, LandIs
  <2>3. EndedBy(a, call[a].ctx) /\ call[a].ctx \in Seq(Events)
    BY <1>3, <1>8, <2>1 DEF Asked
  <2>4. PICK t \in Seq(Events) : t = call[a].ctx
    BY <2>3
  <2>5. ClosedIn(a, t) /\ t # None
    BY <1>3, <2>3, <2>4, EndedIsClosed, LogNone
  <2>6. QED
    BY <2>2, <2>4, <2>5 DEF Closed
<1>9. pc[a] = "refailing" /\ outcome'[a] = "failed" => faults' > 1
  BY <1>1, <1>3, LandIs DEF NotOver
<1>10. Closes(a)'
  BY <1>1, <1>3, <1>4, <1>7, <1>8, <1>9 DEF Closes
<1>11. ASSUME doc'.ctx = None
       PROVE  pc'[Creator] \in {"uploading", "seeding"} /\ outcome'[Creator] = "pending"
  <2>1. doc.ctx = None
    <3>1. Stores(a) => call[a].ctx # None
      BY <1>3, LogNone DEF Asked
    <3>2. QED
      BY <1>11, <3>1, LandIs
  <2>2. pc[Creator] \in {"uploading", "seeding"} /\ outcome[Creator] = "pending"
    BY <1>1, <2>1 DEF CInv
  <2>3. a # Creator
    <3> SUFFICES ASSUME a = Creator PROVE FALSE
      OBVIOUS
    <3>1. pc[a] = "seeding"
      BY <1>1, <2>2
    <3>2. Stores(a) /\ call[a].ctx # None
      BY <1>3, <3>1, LogNone DEF Asked
    <3>3. outcome'[a] = "done"
      BY <1>2, <1>7, <3>1, LandIs DEF ThroughAssumption
    <3>4. doc'.ctx = call[a].ctx
      BY <3>2, <3>3, LandIs
    <3>5. QED
      BY <1>11, <3>2, <3>4
  <2>4. QED
    BY <1>1, <1>3, <2>2, <2>3
<1>12. QED
  BY <1>1, <1>2, <1>6, <1>10, <1>11 DEF CInv

LEMMA ClosedNext ==
  ASSUME ThroughAssumption
  PROVE  OInv /\ LInv /\ CInv /\ [Next]_vars => CInv'
<1> SUFFICES ASSUME OInv, LInv, CInv, [Next]_vars PROVE CInv'
  OBVIOUS
<1>1. CASE UNCHANGED vars
  <2>1. /\ doc' = doc /\ pc' = pc /\ call' = call /\ outcome' = outcome
        /\ faults' = faults /\ crashes' = crashes
    BY <1>1 DEF vars
  <2>2. ASSUME NEW r \in Requesters, Closes(r) PROVE Closes(r)'
    BY <2>1, <2>2 DEF Closes, Stores, Closed
  <2>3. QED
    BY <2>1, <2>2 DEF CInv
<1>2. ASSUME NEW a \in Actors, Land(a) PROVE CInv'
  BY <1>2, LandClosed DEF Actors, ThroughAssumption
<1>3. ASSUME NEW r \in Requesters, RequestStep(r) \/ TurnStep(r) PROVE CInv'
  BY <1>3, RequestClosed, TurnClosed
<1>4. CASE LateWrite
  BY <1>4 DEF LateWrite, OInv, Shaped
<1>5. CASE Crash
  BY <1>5 DEF Crash, CInv, ThroughAssumption
<1>6. QED
  BY <1>1, <1>2, <1>3, <1>4, <1>5 DEF Next, ThroughAssumption

LEMMA ClosedFacts == OInv /\ LInv /\ CInv => EndedTurnsAreClosed
<1> SUFFICES ASSUME OInv, LInv, CInv, NEW r \in Requesters, pc[r] = "ended", faults < 2
             PROVE  \E i \in DOMAIN doc.ctx :
                      /\ doc.ctx[i].turn = r /\ Ending(doc.ctx[i])
                      /\ \A j \in DOMAIN doc.ctx : doc.ctx[j].turn = r => j <= i
  BY DEF EndedTurnsAreClosed
<1>1. pc[Creator] # "start"
  BY Going
<1>2. faults \in Nat /\ (faults > 1 \/ Closed(r))
  BY <1>1 DEF LInv, CInv, Closes
<1>3. QED
  BY <1>2 DEF Closed, ClosedIn

\* A turn that ended has its terminal event as the last one it stored, whatever else
\* goes on in the conversation, unless two store calls raised (loop.py:605-656,
\* router.py:127-164): turn_completed or turn_error is the last event of its last save.
THEOREM TurnsAreClosed ==
  ASSUME ThroughAssumption PROVE Spec => []EndedTurnsAreClosed
<1>1. LogAssumption /\ Cancels = {} /\ Limited = {}
  BY DEF ThroughAssumption
<1>2. Init => CInv
  <2>1. Creator \in Actors
    BY DEF Actors, Requesters
  <2>2. QED
    BY <2>1 DEF Init, CInv
<1>3. QED
  BY <1>1, <1>2, OwnerInit, OwnerNext, LogsInit, LogsNext, ClosedNext, ClosedFacts, PTL
  DEF Spec

=============================================================================
