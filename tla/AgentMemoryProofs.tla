-------------------------- MODULE AgentMemoryProofs --------------------------
(***************************************************************************)
(* Proofs about AgentMemory, for every set of conversations, messages and  *)
(* names, and through every failure, cancel and restart: the scratchpad    *)
(* stays a tree that its log accounts for, and no note is lost in the file *)
(* that the conversations share.                                           *)
(*                                                                         *)
(* The argument about the file: only the lock's first call and what        *)
(* cancelled ones left behind are at work (QueueInv); until two of these   *)
(* meet, the one at work writes what the file says now and one value more  *)
(* (JobInv); and while every save is made, the queue leads from what the   *)
(* file says to what was asked last (CleanInv).                            *)
(***************************************************************************)
EXTENDS AgentMemory, FiniteSetTheorems, SequenceTheorems, TLAPS

-----------------------------------------------------------------------------
(* Paths *)

LEMMA PathTypes ==
  ASSUME NEW q \in Paths
  PROVE  q \in Seq(Segments \cup {LogName}) /\ Len(q) \in Nat /\ Len(q) >= 1
  BY DEF Paths

LEMMA LogPathType == LogPath \in Paths /\ Len(LogPath) = 1 /\ LogPath[1] = LogName
  BY DEF LogPath, Paths

LEMMA PrefixFirst ==
  ASSUME NEW p \in Paths, NEW q \in Paths
  PROVE  /\ IsPrefix(p, q) => p[1] = q[1] /\ Len(p) <= Len(q)
         /\ IsPrefix(p, p)
         /\ IsPrefix(LogPath, q) <=> q[1] = LogName
         /\ IsPrefix(q, LogPath) => q = LogPath
<1> USE PathTypes, LogPathType
<1>1. ASSUME NEW r \in Paths, NEW s \in Paths, IsPrefix(r, s)
      PROVE  r[1] = s[1] /\ Len(r) <= Len(s)
  <2>1. Len(r) <= Len(s) /\ SubSeq(r, 1, Len(r)) = SubSeq(s, 1, Len(r))
    BY <1>1 DEF IsPrefix
  <2>2. SubSeq(r, 1, Len(r))[1] = r[1] /\ SubSeq(s, 1, Len(r))[1] = s[1]
    BY <2>1
  <2>3. QED
    BY <2>1, <2>2
<1>2. IsPrefix(p, p)
  BY DEF IsPrefix
<1>3. ASSUME q[1] = LogName PROVE IsPrefix(LogPath, q)
  <2> DEFINE S == Segments \cup {LogName}
  <2>1. /\ LogPath \in Seq(S) /\ SubSeq(LogPath, 1, 1) \in Seq(S) /\ SubSeq(q, 1, 1) \in Seq(S)
        /\ Len(SubSeq(LogPath, 1, 1)) = 1 /\ Len(SubSeq(q, 1, 1)) = 1
        /\ SubSeq(LogPath, 1, 1)[1] = LogName /\ SubSeq(q, 1, 1)[1] = LogName
    BY <1>3
  <2>2. \A i \in 1 .. 1 : SubSeq(LogPath, 1, 1)[i] = SubSeq(q, 1, 1)[i]
    BY <2>1
  <2>3. SubSeq(LogPath, 1, 1) = SubSeq(q, 1, 1)
    BY <2>1, <2>2, SeqEqual
  <2>4. Len(LogPath) = 1 /\ 1 <= Len(q)
    OBVIOUS
  <2>5. QED
    BY <2>3, <2>4, Zenon DEF IsPrefix
<1>4. ASSUME IsPrefix(q, LogPath) PROVE q = LogPath
  <2>1. q[1] = LogName /\ Len(q) = 1
    BY <1>1, <1>4
  <2>2. QED
    BY <2>1 DEF LogPath
<1>5. QED
  BY <1>1, <1>2, <1>3, <1>4

-----------------------------------------------------------------------------
(* A scratchpad in order *)

Sound(s) ==
  /\ IsPad(s)
  /\ LogLost(s) \/ \A q \in DOMAIN s \ {LogPath} :
                     \E i \in DOMAIN Log(s).log : Log(s).log[i].path = q
  /\ \A q, r \in DOMAIN s : ~IsStrictPrefix(q, r)

LEMMA NotedSound ==
  ASSUME NEW s, Sound(s), NEW p \in Paths, NEW v \in Values, ~Blocked(s, p)
  PROVE  /\ IsPad(Noted(s, p, v))
         /\ \A q, r \in DOMAIN Noted(s, p, v) : ~IsStrictPrefix(q, r)
<1> DEFINE n == Noted(s, p, v)
           D == {q \in DOMAIN s : ~IsPrefix(p, q)}
<1>1. n = [q \in D \cup {p} |-> IF q = p THEN v ELSE s[q]]
  BY DEF Noted
<1>2. IsPad(n)
  BY <1>1 DEF IsPad, Sound
<1>3. ASSUME NEW q \in D \cup {p}, NEW r \in D \cup {p} PROVE ~IsStrictPrefix(q, r)
  BY <1>3 DEF Sound, Blocked, IsStrictPrefix
<1>4. QED
  BY <1>1, <1>2, <1>3

\* A lost log stays lost.
LEMMA LostStaysLost ==
  ASSUME NEW s, Sound(s), NEW p \in Paths, NEW v \in Values, ~Blocked(s, p), LogLost(s)
  PROVE  LogLost(Noted(s, p, v))
<1> DEFINE n == Noted(s, p, v)
<1>1. n = [q \in {q \in DOMAIN s : ~IsPrefix(p, q)} \cup {p} |-> IF q = p THEN v ELSE s[q]]
  BY DEF Noted
<1>2. p \in DOMAIN n /\ n[p] = v
  BY <1>1
<1>3. CASE p = LogPath
  BY <1>2, <1>3, ValuesAssumption DEF LogLost
<1>4. CASE p # LogPath /\ LogPath \in DOMAIN s /\ s[LogPath] \notin Logs
  <2>1. ~IsPrefix(p, LogPath)
    BY <1>4, PrefixFirst
  <2>2. LogPath \in DOMAIN n /\ n[LogPath] = s[LogPath]
    BY <1>1, <1>4, <2>1
  <2>3. QED
    BY <1>4, <2>2 DEF LogLost
<1>5. CASE p # LogPath /\ \E q \in DOMAIN s : IsStrictPrefix(LogPath, q)
  <2>1. PICK q \in DOMAIN s : IsStrictPrefix(LogPath, q)
    BY <1>5
  <2>2. q \in Paths
    BY DEF Sound, IsPad
  <2>3. CASE ~IsPrefix(p, q)
    BY <1>1, <2>1, <2>3 DEF LogLost
  <2>4. CASE IsPrefix(p, q)
    <3>1. p[1] = LogName
      BY <2>1, <2>2, <2>4, PrefixFirst DEF IsStrictPrefix
    <3>2. IsStrictPrefix(LogPath, p)
      BY <1>5, <3>1, PrefixFirst DEF IsStrictPrefix
    <3>3. QED
      BY <1>2, <3>2 DEF LogLost
  <2>5. QED
    BY <2>3, <2>4
<1>6. QED
  BY <1>3, <1>4, <1>5 DEF LogLost

LEMMA LoggedSound ==
  ASSUME NEW s, Sound(s), NEW p \in Paths, NEW v \in Values, ~Blocked(s, p),
         ~LogLost(Noted(s, p, v))
  PROVE  Sound(Logged(Noted(s, p, v), Entry(s, p)))
<1> DEFINE n == Noted(s, p, v)
           e == Entry(s, p)
           l == Logged(n, e)
           old == Log(n).log
<1>1. /\ n = [q \in {q \in DOMAIN s : ~IsPrefix(p, q)} \cup {p} |->
                IF q = p THEN v ELSE s[q]]
      /\ IsPad(n) /\ \A q, r \in DOMAIN n : ~IsStrictPrefix(q, r)
      /\ \A q \in DOMAIN n : q \in Paths
  BY NotedSound DEF Noted, IsPad
<1>2. e \in Entries /\ e.path = p
  BY DEF Entry, Entries
<1>3. Log(n) \in Logs /\ old \in Seq(Entries)
  BY DEF Log, LogLost, Logs
<1>4. l = [q \in DOMAIN n \cup {LogPath} |->
             IF q = LogPath THEN [log |-> Append(old, e)] ELSE n[q]]
  BY DEF Logged
<1>5. [log |-> Append(old, e)] \in Logs
  BY <1>2, <1>3 DEF Logs
<1>6. IsPad(l)
  BY <1>1, <1>4, <1>5, LogPathType DEF IsPad
<1>7. \A q, r \in DOMAIN l : ~IsStrictPrefix(q, r)
  <2>1. ASSUME NEW q \in DOMAIN n PROVE ~IsStrictPrefix(LogPath, q) /\ ~IsStrictPrefix(q, LogPath)
    BY <1>1, PrefixFirst DEF LogLost, IsStrictPrefix
  <2>2. ~IsStrictPrefix(LogPath, LogPath)
    BY DEF IsStrictPrefix
  <2>3. QED
    BY <1>1, <1>4, <2>1, <2>2
<1>8. Log(l).log = Append(old, e)
  BY <1>4 DEF Log
<1>9. ASSUME NEW q \in DOMAIN l \ {LogPath}
      PROVE  \E i \in DOMAIN Append(old, e) : Append(old, e)[i].path = q
  <2>1. CASE q = p
    <3>1. Append(old, e)[Len(old) + 1] = e /\ Len(old) + 1 \in DOMAIN Append(old, e)
      BY <1>2, <1>3
    <3>2. QED
      BY <1>2, <2>1, <3>1
  <2>2. CASE q # p
    <3>1. ~LogLost(s)
      BY LostStaysLost
    <3>2. q \in DOMAIN s
      BY <1>1, <1>4, <2>2
    <3>3. PICK i \in DOMAIN Log(s).log : Log(s).log[i].path = q
      BY <1>9, <3>1, <3>2 DEF Sound
    <3>4. LogPath \in DOMAIN s
      BY <3>3 DEF Log
    <3>5. p # LogPath
      BY <1>1, ValuesAssumption DEF LogLost
    <3>6. ~IsPrefix(p, LogPath)
      BY <3>5, PrefixFirst
    <3>7. Log(n) = Log(s)
      BY <1>1, <3>4, <3>5, <3>6 DEF Log
    <3>8. i \in DOMAIN old /\ old[i].path = q
      BY <3>3, <3>7
    <3>9. i \in DOMAIN Append(old, e) /\ Append(old, e)[i] = old[i]
      BY <1>2, <1>3, <3>8
    <3>10. QED
      BY <3>8, <3>9
  <2>3. QED
    BY <2>1, <2>2
<1>10. QED
  BY <1>6, <1>7, <1>8, <1>9 DEF Sound

LEMMA EditedSound ==
  ASSUME NEW s, Sound(s), NEW p \in Paths, NEW v \in Values
  PROVE  Sound(Edited(s, p, v))
<1>1. CASE Blocked(s, p)
  BY <1>1 DEF Edited
<1>2. CASE ~Blocked(s, p) /\ LogLost(Noted(s, p, v))
  BY <1>2, NotedSound DEF Edited, Sound
<1>3. CASE ~Blocked(s, p) /\ ~LogLost(Noted(s, p, v))
  BY <1>3, LoggedSound DEF Edited
<1>4. QED
  BY <1>1, <1>2, <1>3

LEMMA NothingSound == Sound(<<>>)
<1>1. DOMAIN <<>> = {}
  OBVIOUS
<1>2. <<>> = [q \in DOMAIN <<>> |-> <<>>[q]]
  <2>1. <<>> \in Seq({}) /\ Len(<<>>) = 0
    OBVIOUS
  <2>2. <<>> \in [1 .. 0 -> {}]
    BY <2>1, LenProperties
  <2>3. QED
    BY <1>1, <2>2
<1>3. QED
  BY <1>1, <1>2 DEF Sound, IsPad

-----------------------------------------------------------------------------
(* The scratchpads *)

PInv ==
  /\ pad = [c \in Convs |-> pad[c]] /\ saved = [c \in Convs |-> saved[c]]
  /\ todo \in [Convs -> Seq(Edits)]
  /\ \A c \in Convs : Sound(pad[c]) /\ Sound(saved[c])

LEMMA PadInit == Init => PInv
  BY NothingSound DEF Init, PInv

LEMMA PadNext == PInv /\ [Next]_vars => PInv'
<1> SUFFICES ASSUME PInv, [Next]_vars PROVE PInv'
  OBVIOUS
<1>1. CASE UNCHANGED vars
  BY <1>1 DEF PInv, vars, talk
<1>2. ASSUME NEW c \in Convs, StartTurn(c) PROVE PInv'
  BY <1>2 DEF StartTurn, PInv
<1>3. ASSUME NEW c \in Convs, Recall(c) PROVE PInv'
  BY <1>3 DEF Recall, PInv
<1>4. ASSUME NEW c \in Convs, Ask(c) PROVE PInv'
  BY <1>4, MemoryAssumption DEF Ask, PInv
<1>5. ASSUME NEW c \in Convs, NEW p, p[1] = c, Call(p) PROVE PInv'
  <2> DEFINE e == Head(todo[c])
  <2>1. /\ todo[c] \in Seq(Edits) /\ todo[c] # <<>>
        /\ pad' = [pad EXCEPT ![c] = Edited(pad[c], e.path, e.value)]
        /\ todo' = [todo EXCEPT ![c] = Tail(todo[c])] /\ saved' = saved
    BY <1>5 DEF Call, PInv
  <2>2. e \in Edits /\ Tail(todo[c]) \in Seq(Edits)
    BY <2>1
  <2>3. Sound(Edited(pad[c], e.path, e.value))
    BY <2>2, EditedSound, MemoryAssumption DEF Edits, PInv
  <2>4. QED
    BY <2>1, <2>2, <2>3 DEF PInv
<1>6. ASSUME NEW c \in Convs, Answered(c) PROVE PInv'
  BY <1>6 DEF Answered, PInv
<1>7. ASSUME NEW C, Forget(C), saved' = saved PROVE PInv'
  BY <1>7, NothingSound DEF Forget, PInv
<1>8. ASSUME NEW c \in Convs, EndTurn(c) \/ Cancel(c) PROVE PInv'
  BY <1>7, <1>8 DEF EndTurn, Cancel
<1>9. CASE Crash
  BY <1>7, <1>9 DEF Crash
<1>10. ASSUME NEW p \in Procs, Saving(p) \/ JobFails(p) PROVE PInv'
  <2>1. talk' = talk
    BY <1>10, Zenon DEF Saving, JobFails, Read, Open, Write, Rename, Finish
  <2>2. QED
    BY <2>1 DEF PInv, talk
<1>11. QED
  BY <1>1, <1>2, <1>3, <1>4, <1>5, <1>6, <1>8, <1>9, <1>10 DEF Next, Turn

\* Every note of the scratchpad, of this turn or as it was saved, can be reached and
\* is named in _log, unless something was noted under _log itself
\* (edit_memory.py:77-107).
THEOREM PadStaysSound == Spec => []PadIsSound
<1>1. PInv => PadIsSound
  <2>1. ASSUME PInv, NEW c \in Convs, NEW s \in {pad[c], saved[c]} PROVE Sound(s)
    BY <2>1, Zenon DEF PInv
  <2>2. QED
    BY <2>1, Zenon DEF Sound, PadIsSound, Audited, NothingHidden
<1>2. QED
  BY PadInit, PadNext, <1>1, PTL DEF Spec

-----------------------------------------------------------------------------
(* Documents and types *)

Docs == UNION {[S -> Values] : S \in SUBSET Keys}

LEMMA MarksAre == None \notin Docs /\ Empty \notin Docs /\ Torn \notin Docs
BY MarksAssumption DEF Docs

LEMMA DocIs == ASSUME NEW d PROVE IsDoc(d) <=> d \in Docs
<1>1. ASSUME IsDoc(d) PROVE d \in [DOMAIN d -> Values] /\ DOMAIN d \in SUBSET Keys
  BY <1>1 DEF IsDoc
<1>2. ASSUME NEW S \in SUBSET Keys, d \in [S -> Values] PROVE IsDoc(d)
  BY <1>2 DEF IsDoc
<1>3. QED
  BY <1>1, <1>2 DEF Docs

LEMMA PutIs ==
  ASSUME NEW d \in Docs, NEW k \in Keys, NEW v \in Values
  PROVE  /\ Put(d, k, v) \in Docs
         /\ DOMAIN Put(d, k, v) = DOMAIN d \cup {k}
         /\ Put(d, k, v)[k] = v
         /\ \A q \in DOMAIN d \ {k} : Put(d, k, v)[q] = d[q]
<1>1. IsDoc(d)
  BY DocIs
<1>2. Put(d, k, v) = [q \in DOMAIN d \cup {k} |-> IF q = k THEN v ELSE d[q]]
  BY DEF Put
<1>3. IsDoc(Put(d, k, v))
  BY <1>1, <1>2 DEF IsDoc
<1>4. QED
  BY <1>2, <1>3, DocIs

LEMMA NothingIsDoc == <<>> \in Docs /\ DOMAIN <<>> = {}
<1>1. DOMAIN <<>> = {}
  OBVIOUS
<1>2. <<>> = [k \in DOMAIN <<>> |-> <<>>[k]]
  BY NothingSound DEF Sound, IsPad
<1>3. IsDoc(<<>>)
  BY <1>1, <1>2 DEF IsDoc
<1>4. QED
  BY <1>1, <1>3, DocIs

Saves == [stage : Stages \cup Orphans, edit : Edits \cup {None}, doc : Docs \cup {None},
          fd : {"none", "tmp", "main", "gone"}]

\* A job past its read has a document.
SaveOK(p) ==
  /\ save[p].stage # "idle" => save[p].edit \in Edits
  /\ save[p].stage \notin {"idle", "locking"} => save[p].doc \in Docs

TInv ==
  /\ main \in Docs \cup {None, Empty, Torn} /\ tmp \in Docs \cup {None, Empty, Torn}
  /\ lockQ \in Seq(Calls) /\ save \in [Procs -> Saves]
  /\ \A p \in Procs : SaveOK(p)
  /\ turn \in [Convs -> {"off", "prompt", "on", "tools"}] /\ shown \in [Convs -> Docs]
  /\ told \subseteq Keys /\ latest \in Docs /\ clean \in BOOLEAN /\ mixed \in BOOLEAN

LEMMA MemoryIs == ASSUME TInv PROVE Memory \in Docs
BY NothingIsDoc DEF TInv, Memory

LEMMA IdleIs ==
  Idle \in Saves /\ Idle.stage = "idle" /\ Idle.fd = "none"
BY DEF Idle, Saves, Stages

\* One save goes on and no other.
Goes(p, r) ==
  /\ save' \in [Procs -> Saves] /\ save'[p] = r
  /\ \A q \in Procs \ {p} : save'[q] = save[q]

LEMMA GoesOn ==
  ASSUME save \in [Procs -> Saves], NEW p \in Procs, NEW r \in Saves,
         save' = [save EXCEPT ![p] = r]
  PROVE  Goes(p, r)
BY DEF Goes

LEMMA CallIs ==
  ASSUME TInv, PInv, NEW p, Call(p)
  PROVE  /\ p \in Calls /\ p \in Procs /\ p[1] \in Convs
         /\ todo[p[1]] # <<>> /\ todo[p[1]] \in Seq(Edits) /\ p[2] = Len(todo[p[1]])
         /\ todo' = [todo EXCEPT ![p[1]] = Tail(todo[p[1]])]
         /\ \/ UNCHANGED <<lockQ, save, latest>>
            \/ \E e \in Edits, r \in Saves :
                 /\ r.stage = "locking" /\ r.edit = e /\ r.fd = "none" /\ Goes(p, r)
                 /\ lockQ' = Append(lockQ, p) /\ latest' = Put(latest, e.path, e.value)
<1>1. p \in Calls /\ p \in Procs /\ p[1] \in Convs
  BY DEF Call, Calls, Procs
<1>2. PICK c \in Convs : c = p[1]
  BY <1>1
<1>3. todo[c] \in Seq(Edits) /\ todo[c] # <<>> /\ p[2] = Len(todo[c])
      /\ todo' = [todo EXCEPT ![c] = Tail(todo[c])]
  BY <1>2 DEF Call, PInv
<1>4. PICK e \in Edits : e = Head(todo[c])
  BY <1>3
<1>5. \/ UNCHANGED <<lockQ, save, latest>>
      \/ /\ lockQ' = Append(lockQ, p)
         /\ save' = [save EXCEPT ![p] = [Idle EXCEPT !.stage = "locking", !.edit = e]]
         /\ latest' = Put(latest, e.path, e.value)
  BY <1>2, <1>4 DEF Call
<1>6. PICK r \in Saves : /\ r = [Idle EXCEPT !.stage = "locking", !.edit = e]
                         /\ r.stage = "locking" /\ r.edit = e /\ r.fd = "none"
  <2>1. PICK s \in Saves : s = Idle /\ s.fd = "none"
    BY IdleIs
  <2>2. PICK r \in Saves : r = [s EXCEPT !.stage = "locking", !.edit = e]
    BY DEF Saves, Stages
  <2>3. r.stage = "locking" /\ r.edit = e /\ r.fd = "none"
    BY <2>1, <2>2 DEF Saves
  <2>4. QED
    BY <2>1, <2>2, <2>3
<1>7. save' = [save EXCEPT ![p] = r] => Goes(p, r)
  BY <1>1, GoesOn DEF TInv
<1>8. QED
  BY <1>1, <1>2, <1>3, <1>5, <1>6, <1>7

LEMMA ReadIs ==
  ASSUME TInv, NEW p \in Procs, Read(p)
  PROVE  \E r \in Saves :
           /\ r.stage = "opening" /\ r.edit = save[p].edit /\ r.fd = save[p].fd
           /\ r.doc = Put(Memory, save[p].edit.path, save[p].edit.value)
           /\ r.doc \in Docs /\ Goes(p, r)
<1>1. PICK s \in Saves : s = save[p] /\ s.stage = "locking" /\ s.edit \in Edits
  BY DEF TInv, SaveOK, Read, At
<1>2. PICK d \in Docs : d = Put(Memory, s.edit.path, s.edit.value)
  BY <1>1, MemoryIs, PutIs DEF Edits
<1>3. PICK r \in Saves : r = [s EXCEPT !.stage = "opening", !.doc = d]
  BY DEF Saves, Stages
<1>4. save' = [save EXCEPT ![p] = r]
  BY <1>1, <1>2, <1>3 DEF Read
<1>5. r.stage = "opening" /\ r.edit = s.edit /\ r.fd = s.fd /\ r.doc = d
  BY <1>3 DEF Saves
<1>6. Goes(p, r)
  BY <1>4, GoesOn DEF TInv
<1>7. QED
  BY <1>1, <1>2, <1>5, <1>6

LEMMA OpenIs ==
  ASSUME TInv, NEW p \in Procs, Open(p)
  PROVE  \E r \in Saves :
           /\ r.stage = IF save[p].stage = "opening" THEN "writing" ELSE "orphanWriting"
           /\ r.edit = save[p].edit /\ r.fd = "tmp" /\ r.doc = save[p].doc /\ Goes(p, r)
<1>1. PICK s \in Saves : s = save[p]
  BY DEF TInv
<1>2. PICK r \in Saves : r = [s EXCEPT !.fd = "tmp",
         !.stage = IF s.stage = "opening" THEN "writing" ELSE "orphanWriting"]
  BY DEF Saves, Stages, Orphans
<1>3. save' = [save EXCEPT ![p] = r]
  BY <1>1, <1>2 DEF Open
<1>4. /\ r.stage = IF s.stage = "opening" THEN "writing" ELSE "orphanWriting"
      /\ r.edit = s.edit /\ r.fd = "tmp" /\ r.doc = s.doc
  BY <1>2 DEF Saves
<1>5. Goes(p, r)
  BY <1>3, GoesOn DEF TInv
<1>6. QED
  BY <1>1, <1>4, <1>5

LEMMA WriteIs ==
  ASSUME TInv, NEW p \in Procs, Write(p)
  PROVE  \E r \in Saves :
           /\ Goes(p, r) /\ r.fd = "none"
           /\ \/ /\ save[p].stage = "writing" /\ r.stage = "renaming"
                 /\ r.edit = save[p].edit /\ r.doc = save[p].doc
              \/ save[p].stage = "orphanWriting" /\ r.stage = "idle"
<1>1. PICK s \in Saves : s = save[p] /\ s.stage \in {"writing", "orphanWriting"}
  BY DEF TInv, Write
<1>2. CASE s.stage = "writing"
  <2>1. PICK r \in Saves : r = [s EXCEPT !.stage = "renaming", !.fd = "none"]
    BY DEF Saves, Stages
  <2>2. save' = [save EXCEPT ![p] = r]
    BY <1>1, <1>2, <2>1 DEF Write
  <2>3. r.stage = "renaming" /\ r.edit = s.edit /\ r.fd = "none" /\ r.doc = s.doc
    BY <2>1 DEF Saves
  <2>4. Goes(p, r)
    BY <2>2, GoesOn DEF TInv
  <2>5. QED
    BY <1>1, <1>2, <2>3, <2>4
<1>3. CASE s.stage = "orphanWriting"
  <2>1. save' = [save EXCEPT ![p] = Idle]
    BY <1>1, <1>3 DEF Write
  <2>2. Goes(p, Idle)
    BY <2>1, GoesOn, IdleIs DEF TInv
  <2>3. QED
    BY <1>1, <1>3, <2>2, IdleIs
<1>4. QED
  BY <1>1, <1>2, <1>3

LEMMA JobFailsIs ==
  ASSUME TInv, NEW p \in Procs, JobFails(p)
  PROVE  \E r \in Saves :
           /\ Goes(p, r) /\ r.fd = "none" /\ r.stage = "failed"
           /\ r.edit = save[p].edit /\ r.doc = save[p].doc
<1>1. PICK s \in Saves : s = save[p]
  BY DEF TInv
<1>2. PICK r \in Saves : r = [s EXCEPT !.stage = "failed", !.fd = "none"]
  BY DEF Saves, Stages
<1>3. save' = [save EXCEPT ![p] = r]
  BY <1>1, <1>2 DEF JobFails
<1>4. r.stage = "failed" /\ r.edit = s.edit /\ r.fd = "none" /\ r.doc = s.doc
  BY <1>2 DEF Saves
<1>5. Goes(p, r)
  BY <1>3, GoesOn DEF TInv
<1>6. QED
  BY <1>1, <1>4, <1>5

LEMMA FinishIs ==
  ASSUME TInv, NEW p \in Procs, Finish(p)
  PROVE  Goes(p, Idle)
BY GoesOn, IdleIs DEF TInv, Finish

LEMMA RenameIs ==
  ASSUME TInv, NEW p \in Procs, Rename(p)
  PROVE  /\ save' \in [Procs -> Saves]
         /\ \A q \in Procs \ {p} :
              /\ save'[q].stage = save[q].stage
              /\ save'[q].edit = save[q].edit /\ save'[q].doc = save[q].doc
              /\ save[q].fd = "none" => save'[q].fd = "none"
         /\ \/ save[p].stage = "orphanRenaming" /\ save'[p] = Idle
            \/ /\ save[p].stage = "renaming"
               /\ save'[p].stage = IF tmp = None THEN "failed" ELSE "renamed"
               /\ save'[p].edit = save[p].edit /\ save'[p].doc = save[p].doc
               /\ save'[p].fd = save[p].fd
<1>1. PICK f : f = [none |-> "none", tmp |-> "main", main |-> "gone", gone |-> "gone"]
  OBVIOUS
<1>2. /\ \A x \in {"none", "tmp", "main", "gone"} : f[x] \in {"none", "tmp", "main", "gone"}
      /\ f["none"] = "none"
  BY <1>1
<1>3. save' = [q \in Procs |->
          IF q # p THEN [save[q] EXCEPT !.fd = IF tmp = None THEN @ ELSE f[@]]
          ELSE IF ~At(p, "renaming") THEN Idle
          ELSE [save[p] EXCEPT !.stage = IF tmp = None THEN "failed" ELSE "renamed"]]
  BY <1>1 DEF Rename
<1>4. ASSUME NEW q \in Procs \ {p}
      PROVE  /\ save'[q] \in Saves /\ save'[q].stage = save[q].stage
             /\ save'[q].edit = save[q].edit /\ save'[q].doc = save[q].doc
             /\ save[q].fd = "none" => save'[q].fd = "none"
  <2>1. PICK s \in Saves : s = save[q]
    BY DEF TInv
  <2>2. PICK x \in {"none", "tmp", "main", "gone"} :
          x = (IF tmp = None THEN s.fd ELSE f[s.fd]) /\ (s.fd = "none" => x = "none")
    BY <1>2 DEF Saves
  <2>3. PICK r \in Saves : r = [s EXCEPT !.fd = x]
    BY DEF Saves
  <2>4. save'[q] = r
    BY <1>3, <2>1, <2>2, <2>3
  <2>5. r.stage = s.stage /\ r.edit = s.edit /\ r.doc = s.doc /\ r.fd = x
    BY <2>3 DEF Saves
  <2>6. QED
    BY <2>1, <2>2, <2>4, <2>5
<1>5. CASE save[p].stage = "orphanRenaming"
  <2>1. save'[p] = Idle
    BY <1>3, <1>5 DEF At
  <2>2. save' \in [Procs -> Saves]
    BY <1>3, <1>4, <2>1, IdleIs
  <2>3. QED
    BY <1>4, <1>5, <2>1, <2>2
<1>6. CASE save[p].stage = "renaming"
  <2>1. PICK s \in Saves : s = save[p]
    BY DEF TInv
  <2>2. PICK x \in {"failed", "renamed"} : x = IF tmp = None THEN "failed" ELSE "renamed"
    OBVIOUS
  <2>3. PICK r \in Saves : r = [s EXCEPT !.stage = x]
    BY DEF Saves, Stages
  <2>4. save'[p] = r
    BY <1>3, <1>6, <2>1, <2>2, <2>3 DEF At
  <2>5. r.stage = x /\ r.edit = s.edit /\ r.doc = s.doc /\ r.fd = s.fd
    BY <2>3 DEF Saves
  <2>6. save' \in [Procs -> Saves]
    BY <1>3, <1>4, <2>4
  <2>7. QED
    BY <1>4, <1>6, <2>1, <2>2, <2>4, <2>5, <2>6
<1>7. QED
  BY <1>5, <1>6 DEF Rename

\* After a cancel of c, p is the job that its holder of the lock left behind.
Behind(c, p) ==
  /\ p = <<None, cancels + 1>> /\ p \in Left
  /\ lockQ # <<>> /\ Head(lockQ)[1] = c
  /\ save'[p].stage \in AfterCancel(save[Head(lockQ)].stage) \ {"idle"}
  /\ save'[p].edit = save[Head(lockQ)].edit /\ save'[p].doc = save[Head(lockQ)].doc
  /\ save'[p].fd = save[Head(lockQ)].fd

LEMMA CancelIs ==
  ASSUME TInv, NEW c \in Convs, Cancel(c)
  PROVE  /\ save' \in [Procs -> Saves]
         /\ \A p \in Procs : \/ save'[p] = IF p[1] = c THEN Idle ELSE save[p]
                             \/ Behind(c, p)
<1>1. PICK rest : rest = [p \in Procs |-> IF p[1] = c THEN Idle ELSE save[p]]
  OBVIOUS
<1>2. rest \in [Procs -> Saves] /\ \A p \in Procs : rest[p] = IF p[1] = c THEN Idle ELSE save[p]
  BY <1>1, IdleIs DEF TInv
<1>3. CASE save' = rest
  BY <1>2, <1>3
<1>4. CASE save' # rest
  <2>1. PICK left : left = <<None, cancels + 1>>
    OBVIOUS
  <2>2. /\ lockQ # <<>> /\ Head(lockQ)[1] = c
        /\ \E t \in AfterCancel(save[Head(lockQ)].stage) :
             t # "idle" /\ save' = [rest EXCEPT ![left] = [save[Head(lockQ)] EXCEPT !.stage = t]]
    BY <1>1, <1>4, <2>1 DEF Cancel
  <2>3. PICK h \in Calls : h = Head(lockQ)
    BY <2>2 DEF TInv
  <2>4. PICK s \in Saves : s = save[h]
    BY <2>3 DEF TInv, Procs
  <2>5. PICK t \in AfterCancel(s.stage) :
          t # "idle" /\ save' = [rest EXCEPT ![left] = [s EXCEPT !.stage = t]]
    BY <2>2, <2>3, <2>4
  <2>6. PICK r \in Saves : r = [s EXCEPT !.stage = t]
    BY <2>5 DEF AfterCancel, Saves, Stages
  <2>7. r.stage = t /\ r.edit = s.edit /\ r.doc = s.doc /\ r.fd = s.fd
    BY <2>6 DEF Saves
  <2>8. /\ save' \in [Procs -> Saves]
        /\ \A p \in Procs : save'[p] = IF p = left THEN r ELSE rest[p]
    BY <1>2, <2>5, <2>6
  <2>9. left \in Procs => left \in Left
    BY <2>1, MemoryAssumption DEF Procs, Calls
  <2>10. left \in Procs => Behind(c, left)
    BY <2>1, <2>2, <2>3, <2>4, <2>5, <2>6, <2>7, <2>8, <2>9 DEF Behind
  <2>11. QED
    BY <1>2, <2>8, <2>10
<1>5. QED
  BY <1>3, <1>4

\* A part of the queue keeps its order and its first call.
LEMMA OthersIs ==
  ASSUME NEW q \in Seq(Calls), NEW c
  PROVE  /\ Others(q, c) \in Seq(Calls)
         /\ \E f \in [DOMAIN Others(q, c) -> {i \in DOMAIN q : q[i][1] # c}] :
              /\ \A i, j \in DOMAIN Others(q, c) : i < j => f[i] < f[j]
              /\ \A i \in DOMAIN q : q[i][1] # c => \E j \in DOMAIN Others(q, c) : f[j] = i
              /\ \A j \in DOMAIN Others(q, c) : Others(q, c)[j] = q[f[j]]
<1>1. PICK m \in Nat : m = Len(q) /\ DOMAIN q = 1 .. m
  OBVIOUS
<1>2. PICK K : K = {i \in DOMAIN q : q[i][1] # c}
  OBVIOUS
<1>3. PICK before : before = [i \in K |-> {j \in K : j <= i}]
  OBVIOUS
<1>4. K \in SUBSET Nat /\ IsFiniteSet(K) /\ Cardinality(K) \in Nat
  <2>1. IsFiniteSet(1 .. m)
    BY FS_Interval
  <2>2. K \in SUBSET (1 .. m)
    BY <1>1, <1>2
  <2>3. IsFiniteSet(K)
    BY <2>1, <2>2, FS_Subset
  <2>4. QED
    BY <2>2, <2>3, FS_CardinalityType
<1>5. \A i \in K : /\ before[i] \in SUBSET K /\ i \in before[i]
                   /\ IsFiniteSet(before[i])
                   /\ Cardinality(before[i]) \in 1 .. Cardinality(K)
  <2>1. TAKE i \in K
  <2>2. before[i] \in SUBSET K /\ i \in before[i]
    BY <1>3, <1>4
  <2>3. IsFiniteSet(before[i]) /\ Cardinality(before[i]) <= Cardinality(K)
    BY <1>4, <2>2, FS_Subset
  <2>4. Cardinality(before[i]) \in Nat /\ Cardinality(before[i]) # 0
    BY <2>2, <2>3, FS_CardinalityType, FS_EmptySet
  <2>5. QED
    BY <1>4, <2>2, <2>3, <2>4
<1>6. \A h, i \in K : h < i => Cardinality(before[h]) < Cardinality(before[i])
  <2>1. SUFFICES ASSUME NEW h \in K, NEW i \in K, h < i
                 PROVE  Cardinality(before[h]) < Cardinality(before[i])
    OBVIOUS
  <2>2. before[h] \in SUBSET before[i] /\ i \notin before[h]
    <3>1. h \in Nat /\ i \in Nat /\ \A j \in K : j \in Nat
      BY <1>4
    <3>2. \A j \in K : j <= h => j <= i
      BY <2>1, <3>1
    <3>3. ~(i <= h)
      BY <2>1, <3>1
    <3>4. QED
      BY <1>3, <3>2, <3>3
  <2>3. Cardinality(before[h]) <= Cardinality(before[i])
        /\ Cardinality(before[h]) # Cardinality(before[i])
    BY <1>5, <2>2, FS_Subset
  <2>4. QED
    BY <1>5, <2>3
<1>7. PICK g : g = [i \in K |-> Cardinality(before[i])]
  OBVIOUS
<1>8. g \in [K -> 1 .. Cardinality(K)] /\ \A h, i \in K : g[h] = g[i] => h = i
  BY <1>4, <1>5, <1>6, <1>7
<1>9. g \in Injection(K, 1 .. Cardinality(K))
  BY <1>8 DEF Injection, IsInjective
<1>10. IsFiniteSet(1 .. Cardinality(K)) /\ Cardinality(1 .. Cardinality(K)) = Cardinality(K)
  BY <1>4, FS_Interval
<1>11. g \in Surjection(K, 1 .. Cardinality(K))
  BY <1>9, <1>10, FS_Injection
<1>12. \A n \in 1 .. Cardinality(K) : \E i \in K : Cardinality(before[i]) = n
  BY <1>7, <1>11 DEF Surjection
<1>13. PICK f : f = [n \in 1 .. Cardinality(K) |-> CHOOSE i \in K : Cardinality(before[i]) = n]
  OBVIOUS
<1>14. \A n \in 1 .. Cardinality(K) : f[n] \in K /\ Cardinality(before[f[n]]) = n
  BY <1>12, <1>13
<1>15. PICK d : d = [n \in 1 .. Cardinality(K) |-> q[f[n]]]
  OBVIOUS
<1>16. Others(q, c) = d
  <2>1. \A i \in K : before[i] = {j \in K : j <= i}
    BY <1>3
  <2>2. \A n \in 1 .. Cardinality(K) : f[n] = CHOOSE i \in K : Cardinality({j \in K : j <= i}) = n
    <3>1. TAKE n \in 1 .. Cardinality(K)
    <3>2. \A i \in K : Cardinality(before[i]) = n <=> Cardinality({j \in K : j <= i}) = n
      BY <2>1
    <3>3. QED
      BY <1>13, <3>2
  <2>3. Others(q, c) = [n \in 1 .. Cardinality(K) |->
                          q[CHOOSE i \in K : Cardinality({j \in K : j <= i}) = n]]
    BY <1>2 DEF Others
  <2>4. QED
    BY <1>15, <2>2, <2>3
<1>17. d \in Seq(Calls)
  <2>1. d \in [1 .. Cardinality(K) -> Calls]
    BY <1>1, <1>2, <1>14, <1>15
  <2>2. QED
    BY <1>4, <2>1, SeqDef
<1>18. DOMAIN d = 1 .. Cardinality(K) /\ f \in [DOMAIN d -> K]
  BY <1>13, <1>14, <1>15
<1>19. \A i, j \in DOMAIN d : i < j => f[i] < f[j]
  <2>1. SUFFICES ASSUME NEW i \in DOMAIN d, NEW j \in DOMAIN d, i < j PROVE f[i] < f[j]
    OBVIOUS
  <2>2. f[i] \in K /\ f[j] \in K /\ Cardinality(before[f[i]]) = i /\ Cardinality(before[f[j]]) = j
    BY <1>14, <1>18
  <2>3. i \in Nat /\ j \in Nat
    BY <1>18
  <2>4. ~(f[j] < f[i]) /\ f[i] # f[j]
    BY <1>6, <2>1, <2>2, <2>3
  <2>5. f[i] \in Nat /\ f[j] \in Nat
    BY <1>4, <2>2
  <2>6. QED
    BY <2>4, <2>5
<1>20. \A i \in K : \E j \in DOMAIN d : f[j] = i
  <2>1. TAKE i \in K
  <2>2. PICK n \in 1 .. Cardinality(K) : n = Cardinality(before[i])
    BY <1>5
  <2>3. f[n] \in K /\ Cardinality(before[f[n]]) = n
    BY <1>14
  <2>4. f[n] = i
    BY <1>7, <1>8, <2>2, <2>3
  <2>5. QED
    BY <1>18, <2>4
<1>21. \A j \in DOMAIN d : d[j] = q[f[j]]
  BY <1>15
<1>22. \E x \in [DOMAIN d -> K] :
         /\ \A i, j \in DOMAIN d : i < j => x[i] < x[j]
         /\ \A i \in K : \E j \in DOMAIN d : x[j] = i
         /\ \A j \in DOMAIN d : d[j] = q[x[j]]
  BY <1>18, <1>19, <1>20, <1>21
<1>23. \A i \in DOMAIN q : q[i][1] # c => i \in K
  BY <1>2
<1>24. QED
  BY <1>2, <1>16, <1>17, <1>22, <1>23

-----------------------------------------------------------------------------
(* The lock *)

Queued(p) == \E i \in DOMAIN lockQ : lockQ[i] = p

Active(p) == save[p].stage \notin {"idle", "locking"}

\* Who waits for the lock or holds it is in a save; only the holder reads and writes,
\* and what others left behind.
QueueInv ==
  /\ \A i, j \in DOMAIN lockQ : lockQ[i] = lockQ[j] => i = j
  /\ \A p \in Calls :
       /\ save[p].stage \notin Orphans
       /\ save[p].stage # "idle" <=> Queued(p)
       /\ Active(p) => Holds(p)
  /\ \A p \in Left : save[p].stage \in Orphans \cup {"idle"}
  /\ \A c \in Convs :
       /\ todo[c] # <<>> => turn[c] = "tools"
       /\ \A i \in Slots :
            save[<<c, i>>].stage # "idle" => turn[c] = "tools" /\ i > Len(todo[c])

LEMMA HolderIs ==
  ASSUME QueueInv, NEW p \in Procs, save[p].stage \in Stages \ {"idle", "locking"}
  PROVE  p \in Calls /\ Holds(p)
BY DEF QueueInv, Procs, Stages, Orphans, Active

-----------------------------------------------------------------------------
(* Types *)

LEMMA GoesTypes ==
  ASSUME TInv, NEW p \in Procs, NEW r \in Saves, Goes(p, r),
         r.stage # "idle" => r.edit \in Edits,
         r.stage \notin {"idle", "locking"} => r.doc \in Docs
  PROVE  save' \in [Procs -> Saves] /\ \A q \in Procs : SaveOK(q)'
BY DEF Goes, TInv, SaveOK

LEMMA TypesInit == Init => TInv
<1> SUFFICES ASSUME Init PROVE TInv
  OBVIOUS
<1>1. save \in [Procs -> Saves] /\ \A p \in Procs : SaveOK(p)
  BY IdleIs DEF Init, SaveOK
<1>2. shown \in [Convs -> Docs] /\ latest \in Docs
  BY NothingIsDoc DEF Init
<1>3. /\ main = None /\ tmp = None /\ lockQ = <<>> /\ told = {}
      /\ turn \in [Convs -> {"off", "prompt", "on", "tools"}]
  BY DEF Init
<1>4. clean \in BOOLEAN /\ mixed \in BOOLEAN
  BY Zenon DEF Init
<1>5. QED
  BY <1>1, <1>2, <1>3, <1>4 DEF TInv

LEMMA TalkTypes ==
  ASSUME TInv, PInv, NEW c \in Convs,
         StartTurn(c) \/ Recall(c) \/ Ask(c) \/ Answered(c) \/ EndTurn(c)
  PROVE  TInv'
<1>1. /\ turn' \in [Convs -> {"off", "prompt", "on", "tools"}]
      /\ shown' \in [Convs -> Docs]
  BY MemoryIs, NothingIsDoc DEF TInv, StartTurn, Recall, Ask, Answered, EndTurn, Forget
<1>2. UNCHANGED <<main, tmp, lockQ, save, told, latest, clean, mixed>>
  BY DEF StartTurn, Recall, Ask, Answered, EndTurn, files
<1>3. \A p \in Procs : SaveOK(p)'
  BY <1>2 DEF TInv, SaveOK
<1>4. QED
  BY <1>1, <1>2, <1>3 DEF TInv

LEMMA CallTypes ==
  ASSUME TInv, PInv, NEW p, Call(p)
  PROVE  TInv'
<1>1. UNCHANGED <<main, tmp, turn, shown, told, clean, mixed>>
  BY DEF Call, files
<1>2. CASE UNCHANGED <<lockQ, save, latest>>
  BY <1>1, <1>2 DEF TInv, SaveOK
<1>3. CASE ~UNCHANGED <<lockQ, save, latest>>
  <2>1. p \in Calls /\ p \in Procs
    BY CallIs
  <2>2. PICK e \in Edits, r \in Saves :
           /\ r.stage = "locking" /\ r.edit = e /\ r.fd = "none" /\ Goes(p, r)
           /\ lockQ' = Append(lockQ, p) /\ latest' = Put(latest, e.path, e.value)
    BY <1>3, CallIs
  <2>3. save' \in [Procs -> Saves] /\ \A q \in Procs : SaveOK(q)'
    BY <2>1, <2>2, GoesTypes
  <2>4. e.path \in Keys /\ e.value \in Values
    BY <2>2 DEF Edits
  <2>5. latest' \in Docs
    BY <2>2, <2>4, PutIs DEF TInv
  <2>6. lockQ' \in Seq(Calls)
    BY <2>1, <2>2 DEF TInv
  <2>7. QED
    BY <1>1, <2>3, <2>5, <2>6 DEF TInv
<1>4. QED
  BY <1>2, <1>3

LEMMA SavingTypes ==
  ASSUME TInv, QueueInv, NEW p \in Procs, Saving(p) \/ JobFails(p)
  PROVE  TInv'
<1>1. UNCHANGED <<turn, shown, latest>>
  BY DEF Saving, JobFails, Read, Open, Write, Rename, Finish, talk
<1>2. SaveOK(p) /\ save[p] \in Saves
  BY DEF TInv
<1>3. CASE Read(p)
  <2>1. save' \in [Procs -> Saves] /\ \A q \in Procs : SaveOK(q)'
    <3>1. PICK r \in Saves : /\ r.stage = "opening" /\ r.edit = save[p].edit
                             /\ r.doc \in Docs /\ Goes(p, r)
      BY <1>3, ReadIs
    <3>2. r.edit \in Edits
      BY <1>2, <1>3, <3>1 DEF Read, At, SaveOK
    <3>3. QED
      BY <3>1, <3>2, GoesTypes
  <2>2. UNCHANGED <<main, tmp, lockQ, told, clean>> /\ mixed' \in BOOLEAN
    BY <1>3 DEF Read, files
  <2>3. QED
    BY <1>1, <2>1, <2>2 DEF TInv
<1>4. CASE Open(p)
  <2>1. save' \in [Procs -> Saves] /\ \A q \in Procs : SaveOK(q)'
    <3>1. PICK r \in Saves : r.edit = save[p].edit /\ r.doc = save[p].doc /\ Goes(p, r)
      BY <1>4, OpenIs
    <3>2. r.edit \in Edits /\ r.doc \in Docs
      BY <1>2, <1>4, <3>1 DEF Open, SaveOK
    <3>3. QED
      BY <3>1, <3>2, GoesTypes
  <2>2. UNCHANGED <<main, lockQ, told, clean, mixed>> /\ tmp' = Empty
    BY <1>4 DEF Open
  <2>3. QED
    BY <1>1, <2>1, <2>2 DEF TInv
<1>5. CASE Write(p)
  <2>1. save[p].edit \in Edits /\ save[p].doc \in Docs
    BY <1>2, <1>5 DEF Write, SaveOK
  <2>2. save' \in [Procs -> Saves] /\ \A q \in Procs : SaveOK(q)'
    <3>1. PICK r \in Saves : /\ Goes(p, r)
                             /\ \/ r.edit = save[p].edit /\ r.doc = save[p].doc
                                \/ r.stage = "idle"
      BY <1>5, WriteIs
    <3>2. QED
      BY <2>1, <3>1, GoesTypes
  <2>3. PICK d \in Docs \cup {Torn} : /\ tmp' = IF save[p].fd = "tmp" THEN d ELSE tmp
                                     /\ main' = IF save[p].fd = "main" THEN d ELSE main
    BY <1>5, <2>1 DEF Write
  <2>4. UNCHANGED <<lockQ, told, clean, mixed>>
    BY <1>5 DEF Write
  <2>5. QED
    BY <1>1, <2>2, <2>3, <2>4 DEF TInv
<1>6. CASE Rename(p)
  <2>1. save' \in [Procs -> Saves]
    BY <1>6, RenameIs
  <2>2. \A q \in Procs : SaveOK(q)'
    <3>1. TAKE q \in Procs
    <3>2. CASE q # p
      BY <1>6, <3>2, RenameIs DEF TInv, SaveOK
    <3>3. CASE q = p
      BY <1>2, <1>6, <3>3, RenameIs, IdleIs DEF SaveOK
    <3>4. QED
      BY <3>2, <3>3
  <2>3. UNCHANGED <<lockQ, told, clean, mixed>> /\ (main' = main \/ main' = tmp)
        /\ (tmp' = tmp \/ tmp' = None)
    BY <1>6 DEF Rename, files
  <2>4. QED
    BY <1>1, <2>1, <2>2, <2>3 DEF TInv
<1>7. CASE JobFails(p)
  <2>1. save' \in [Procs -> Saves] /\ \A q \in Procs : SaveOK(q)'
    <3>1. PICK r \in Saves : r.edit = save[p].edit /\ r.doc = save[p].doc /\ Goes(p, r)
      BY <1>7, JobFailsIs
    <3>2. r.edit \in Edits /\ r.doc \in Docs
      BY <1>2, <1>7, <3>1 DEF JobFails, SaveOK
    <3>3. QED
      BY <3>1, <3>2, GoesTypes
  <2>2. UNCHANGED <<lockQ, told, clean, mixed>> /\ main' \in {main, Torn} /\ tmp' \in {tmp, Torn}
    BY <1>7 DEF JobFails
  <2>3. QED
    BY <1>1, <2>1, <2>2 DEF TInv
<1>8. CASE Finish(p)
  <2>1. save' \in [Procs -> Saves] /\ \A q \in Procs : SaveOK(q)'
    BY <1>8, FinishIs, GoesTypes, IdleIs
  <2>2. lockQ' \in Seq(Calls)
    <3>1. Holds(p)
      BY <1>8, HolderIs DEF Finish, Stages
    <3>2. QED
      BY <1>8, <3>1 DEF Finish, TInv, Holds
  <2>3. save[p].edit.path \in Keys
    BY <1>2, <1>8 DEF Finish, SaveOK, Edits
  <2>4. UNCHANGED <<main, tmp, mixed>> /\ clean' \in BOOLEAN /\ told' \subseteq Keys
    BY <1>8, <2>3 DEF Finish, files, TInv
  <2>5. QED
    BY <1>1, <2>1, <2>2, <2>4 DEF TInv
<1>9. QED
  BY <1>3, <1>4, <1>5, <1>6, <1>7, <1>8 DEF Saving

LEMMA CancelTypes ==
  ASSUME TInv, NEW c \in Convs, Cancel(c)
  PROVE  TInv'
<1>1. lockQ' \in Seq(Calls)
  BY OthersIs DEF Cancel, TInv
<1>2. save' \in [Procs -> Saves]
  BY CancelIs
<1>3. \A p \in Procs : SaveOK(p)'
  <2>1. TAKE p \in Procs
  <2>2. CASE save'[p] = IF p[1] = c THEN Idle ELSE save[p]
    BY <2>2, IdleIs DEF TInv, SaveOK
  <2>3. CASE Behind(c, p)
    <3>1. PICK h \in Calls : h = Head(lockQ)
      BY <2>3 DEF Behind, TInv
    <3>2. SaveOK(h)
      BY DEF TInv, Procs
    <3>3. save[h].stage \in {"opening", "writing", "renaming"}
      BY <2>3, <3>1 DEF Behind, AfterCancel, Orphans
    <3>4. QED
      BY <2>3, <3>1, <3>2, <3>3 DEF Behind, SaveOK
  <2>4. QED
    BY <2>2, <2>3, CancelIs
<1>4. /\ turn' \in [Convs -> {"off", "prompt", "on", "tools"}]
      /\ shown' \in [Convs -> Docs]
  BY NothingIsDoc DEF TInv, Cancel, Forget
<1>5. UNCHANGED <<main, tmp, told, latest, mixed>> /\ clean' \in BOOLEAN
  BY DEF Cancel, files, TInv
<1>6. QED
  BY <1>1, <1>2, <1>3, <1>4, <1>5 DEF TInv

LEMMA CrashTypes == ASSUME TInv, Crash PROVE TInv'
<1>1. save' \in [Procs -> Saves] /\ \A p \in Procs : SaveOK(p)'
  BY IdleIs DEF Crash, SaveOK
<1>2. /\ turn' \in [Convs -> {"off", "prompt", "on", "tools"}]
      /\ shown' \in [Convs -> Docs]
  BY NothingIsDoc DEF TInv, Crash, Forget
<1>3. UNCHANGED <<main, tmp, told, latest, mixed>> /\ clean' \in BOOLEAN /\ lockQ' = <<>>
  BY DEF Crash, files, TInv
<1>4. QED
  BY <1>1, <1>2, <1>3 DEF TInv

LEMMA TypesNext ==
  ASSUME TInv, PInv, QueueInv, [Next]_vars
  PROVE  TInv'
<1>1. ASSUME NEW c \in Convs, StartTurn(c) \/ Turn(c) \/ Cancel(c) PROVE TInv'
  BY <1>1, TalkTypes, CallTypes, CancelTypes DEF Turn
<1>2. CASE UNCHANGED vars
  BY <1>2 DEF TInv, SaveOK, vars, files, talk
<1>3. QED
  BY <1>1, <1>2, SavingTypes, CrashTypes DEF Next

-----------------------------------------------------------------------------
(* The lock's queue *)

\* What leaves the queue leaves the rest as it is.
LEMMA OthersKeep ==
  ASSUME NEW q \in Seq(Calls), NEW c, \A i, j \in DOMAIN q : q[i] = q[j] => i = j
  PROVE  /\ \A i, j \in DOMAIN Others(q, c) : Others(q, c)[i] = Others(q, c)[j] => i = j
         /\ \A p : (\E j \in DOMAIN Others(q, c) : Others(q, c)[j] = p)
                     <=> p[1] # c /\ \E i \in DOMAIN q : q[i] = p
         /\ q # <<>> /\ Head(q)[1] # c =>
              Others(q, c) # <<>> /\ Head(Others(q, c)) = Head(q)
<1>1. PICK o \in Seq(Calls) : o = Others(q, c)
  BY OthersIs
<1>2. PICK f \in [DOMAIN o -> {i \in DOMAIN q : q[i][1] # c}] :
        /\ \A i, j \in DOMAIN o : i < j => f[i] < f[j]
        /\ \A i \in DOMAIN q : q[i][1] # c => \E j \in DOMAIN o : f[j] = i
        /\ \A j \in DOMAIN o : o[j] = q[f[j]]
  BY <1>1, OthersIs
<1>3. /\ \A j \in DOMAIN o : j \in Nat /\ j >= 1 /\ f[j] \in DOMAIN q /\ q[f[j]][1] # c
      /\ \A i \in DOMAIN q : i \in Nat /\ i >= 1
  BY <1>2
<1>4. \A i, j \in DOMAIN o : f[i] = f[j] => i = j
  <2>1. SUFFICES ASSUME NEW i \in DOMAIN o, NEW j \in DOMAIN o, f[i] = f[j], i # j PROVE FALSE
    OBVIOUS
  <2>2. f[i] \in Nat /\ ~(f[i] < f[i])
    BY <1>3
  <2>3. i < j \/ j < i
    BY <1>3, <2>1
  <2>4. QED
    BY <1>2, <2>1, <2>2, <2>3
<1>5. \A i, j \in DOMAIN o : o[i] = o[j] => i = j
  BY <1>2, <1>3, <1>4
<1>6. \A p : (\E j \in DOMAIN o : o[j] = p) <=> p[1] # c /\ \E i \in DOMAIN q : q[i] = p
  <2>1. TAKE p
  <2>2. ASSUME NEW j \in DOMAIN o, o[j] = p PROVE p[1] # c /\ \E i \in DOMAIN q : q[i] = p
    BY <1>2, <1>3, <2>2
  <2>3. ASSUME p[1] # c, NEW i \in DOMAIN q, q[i] = p PROVE \E j \in DOMAIN o : o[j] = p
    BY <1>2, <2>3
  <2>4. QED
    BY <2>2, <2>3
<1>7. ASSUME q # <<>>, Head(q)[1] # c PROVE o # <<>> /\ Head(o) = Head(q)
  <2>1. 1 \in DOMAIN q /\ Head(q) = q[1]
    BY <1>7
  <2>2. PICK j \in DOMAIN o : f[j] = 1
    BY <1>2, <1>7, <2>1
  <2>3. 1 \in DOMAIN o /\ Head(o) = o[1] /\ o # <<>>
    BY <2>2
  <2>4. j = 1
    <3>1. SUFFICES ASSUME j # 1 PROVE FALSE
      OBVIOUS
    <3>2. 1 < j
      BY <1>3, <3>1
    <3>3. f[1] < 1 /\ f[1] \in Nat /\ f[1] >= 1
      BY <1>2, <1>3, <2>2, <2>3, <3>2
    <3>4. QED
      BY <3>3
  <2>5. o[1] = q[1]
    BY <1>2, <2>2, <2>3, <2>4
  <2>6. QED
    BY <2>1, <2>3, <2>5
<1>8. QED
  BY <1>1, <1>5, <1>6, <1>7

LEMMA QueueInit == Init => QueueInv
BY IdleIs, MemoryAssumption DEF Init, QueueInv, Queued, Active, Calls, Procs, Holds, Orphans, Idle

LEMMA TalkQueue ==
  ASSUME TInv, PInv, QueueInv, NEW c \in Convs,
         StartTurn(c) \/ Recall(c) \/ Ask(c) \/ Answered(c) \/ EndTurn(c)
  PROVE  QueueInv'
<1>1. UNCHANGED <<lockQ, save>>
  BY DEF StartTurn, Recall, Ask, Answered, EndTurn
<1>2. \A d \in Convs \ {c} : turn'[d] = turn[d] /\ todo'[d] = todo[d]
  BY DEF StartTurn, Recall, Ask, Answered, EndTurn, Forget, TInv, PInv
<1>3. /\ todo'[c] # <<>> => turn'[c] = "tools"
      /\ turn[c] # "tools" \/ \A i \in Slots : save[<<c, i>>].stage = "idle"
  BY DEF StartTurn, Recall, Ask, Answered, EndTurn, Forget, TInv, PInv, QueueInv, At
<1>4. \A i \in Slots : save[<<c, i>>].stage = "idle"
  BY <1>3 DEF QueueInv
<1>5. QED
  BY <1>1, <1>2, <1>3, <1>4 DEF QueueInv, Queued, Active, Holds

LEMMA CallQueue ==
  ASSUME TInv, PInv, QueueInv, NEW p, Call(p)
  PROVE  QueueInv'
<1>1. /\ p \in Calls /\ p \in Procs /\ p[1] \in Convs /\ p[2] \in Slots /\ p = <<p[1], p[2]>>
      /\ todo[p[1]] # <<>> /\ todo[p[1]] \in Seq(Edits) /\ p[2] = Len(todo[p[1]])
  BY CallIs DEF Calls
<1>2. PICK c \in Convs : c = p[1]
  BY <1>1
<1>3. /\ turn' = turn /\ todo' = [todo EXCEPT ![c] = Tail(todo[c])]
      /\ turn[c] = "tools" /\ Len(Tail(todo[c])) = Len(todo[c]) - 1 /\ Len(todo[c]) \in Nat
      /\ todo'[c] = Tail(todo[c])
  <2>1. turn' = turn /\ todo' = [todo EXCEPT ![c] = Tail(todo[c])]
    BY <1>1, <1>2, CallIs DEF Call
  <2>2. turn[c] = "tools"
    BY <1>1, <1>2 DEF QueueInv
  <2>3. Len(Tail(todo[c])) = Len(todo[c]) - 1 /\ Len(todo[c]) \in Nat
    BY <1>1, <1>2
  <2>4. QED
    BY <2>1, <2>2, <2>3 DEF PInv
<1>4. save[p].stage = "idle" /\ ~Queued(p)
  <2>1. ~(p[2] > Len(todo[c])) /\ save[<<c, p[2]>>] = save[p]
    BY <1>1, <1>2, <1>3
  <2>2. save[p].stage = "idle"
    BY <1>1, <2>1 DEF QueueInv
  <2>3. QED
    BY <1>1, <2>2 DEF QueueInv
<1>5. \A d \in Convs : todo'[d] # <<>> => turn'[d] = "tools"
  BY <1>3 DEF QueueInv, PInv
<1>6. CASE UNCHANGED <<lockQ, save, latest>>
  <2>1. \A d \in Convs, i \in Slots :
          save'[<<d, i>>].stage # "idle" => turn'[d] = "tools" /\ i > Len(todo'[d])
    <3>1. TAKE d \in Convs, i \in Slots
    <3>2. i \in Nat
      BY MemoryAssumption
    <3>3. CASE d = c
      BY <1>3, <1>6, <3>2, <3>3 DEF QueueInv
    <3>4. CASE d # c
      BY <1>3, <1>6, <3>4 DEF QueueInv, PInv
    <3>5. QED
      BY <3>3, <3>4
  <2>2. QED
    BY <1>5, <1>6, <2>1 DEF QueueInv, Queued, Active, Holds
<1>7. CASE ~UNCHANGED <<lockQ, save, latest>>
  <2>1. PICK r \in Saves : r.stage = "locking" /\ Goes(p, r) /\ lockQ' = Append(lockQ, p)
    BY <1>7, CallIs
  <2>2. PICK n \in Nat : n = Len(lockQ) /\ DOMAIN lockQ = 1 .. n
    BY DEF TInv
  <2>3. /\ DOMAIN lockQ' = 1 .. n + 1 /\ lockQ'[n + 1] = p
        /\ \A i \in 1 .. n : lockQ'[i] = lockQ[i]
    BY <1>1, <2>1, <2>2 DEF TInv
  <2>4. \A i \in 1 .. n + 1 : i \in 1 .. n \/ i = n + 1
    BY <2>2
  <2>5. \A i, j \in DOMAIN lockQ' : lockQ'[i] = lockQ'[j] => i = j
    BY <1>4, <2>2, <2>3, <2>4 DEF QueueInv, Queued
  <2>6. \A q : Queued(q)' <=> Queued(q) \/ q = p
    <3>1. TAKE q
    <3>2. Queued(q) => Queued(q)'
      BY <2>2, <2>3 DEF Queued
    <3>3. Queued(p)'
      BY <2>2, <2>3 DEF Queued
    <3>4. Queued(q)' => Queued(q) \/ q = p
      BY <2>2, <2>3, <2>4 DEF Queued
    <3>5. QED
      BY <3>2, <3>3, <3>4
  <2>7. \A q \in Procs : Holds(q) => Holds(q)'
    <3>1. TAKE q \in Procs
    <3>2. SUFFICES ASSUME lockQ # <<>>, Head(lockQ) = q PROVE Holds(q)'
      BY DEF Holds
    <3>3. 1 \in 1 .. n /\ q = lockQ[1]
      BY <2>2, <3>2 DEF TInv
    <3>4. lockQ' # <<>> /\ Head(lockQ') = lockQ'[1]
      BY <1>1, <2>1 DEF TInv
    <3>5. QED
      BY <2>3, <3>3, <3>4 DEF Holds
  <2>8. \A q \in Calls : /\ save'[q].stage \notin Orphans
                         /\ save'[q].stage # "idle" <=> Queued(q)'
                         /\ Active(q)' => Holds(q)'
    BY <1>1, <2>1, <2>6, <2>7 DEF QueueInv, Goes, Active, Procs, Orphans
  <2>9. \A q \in Left : save'[q].stage \in Orphans \cup {"idle"}
    <3>1. \A q \in Left : q # p /\ q \in Procs
      BY <1>1, MemoryAssumption DEF Left, Procs
    <3>2. QED
      BY <2>1, <3>1 DEF Goes, QueueInv
  <2>10. \A d \in Convs, i \in Slots :
          save'[<<d, i>>].stage # "idle" => turn'[d] = "tools" /\ i > Len(todo'[d])
    <3>1. TAKE d \in Convs, i \in Slots
    <3>2. i \in Nat /\ <<d, i>> \in Procs
      BY MemoryAssumption DEF Procs, Calls
    <3>3. CASE <<d, i>> = p
      <4>1. d = c /\ i = p[2]
        BY <1>1, <1>2, <3>3
      <4>2. PICK m \in Nat : m = Len(todo[c]) /\ Len(todo'[c]) = m - 1
        BY <1>3
      <4>3. i = m /\ m > m - 1
        BY <1>1, <1>2, <4>1, <4>2
      <4>4. QED
        BY <1>3, <4>1, <4>2, <4>3
    <3>4. CASE <<d, i>> # p /\ d = c
      <4>1. save[<<d, i>>].stage # "idle" => i > Len(todo[c])
        BY <3>4 DEF QueueInv
      <4>2. QED
        BY <1>3, <2>1, <3>2, <3>4, <4>1 DEF Goes
    <3>5. CASE d # c
      <4>1. <<d, i>> # p
        BY <1>1, <1>2, <3>5
      <4>2. todo'[d] = todo[d]
        BY <1>3, <3>5 DEF PInv
      <4>3. QED
        BY <1>3, <2>1, <3>2, <4>1, <4>2 DEF Goes, QueueInv
    <3>6. QED
      BY <3>3, <3>4, <3>5
  <2>11. QED
    BY <1>5, <2>5, <2>8, <2>9, <2>10 DEF QueueInv
<1>8. QED
  BY <1>6, <1>7

\* A save goes on: its stage is another, the queue is the same.
LEMMA OnQueue ==
  ASSUME TInv, QueueInv, NEW p \in Procs, UNCHANGED <<lockQ, turn, todo>>,
         \A q \in Procs \ {p} : save'[q].stage = save[q].stage,
         \/ save[p].stage \in Stages \ {"idle"} /\ save'[p].stage \in Stages \ {"idle"}
            /\ Holds(p)
         \/ save[p].stage \in Orphans /\ save'[p].stage \in Orphans \cup {"idle"}
  PROVE  QueueInv'
<1>1. Stages \cap Orphans = {} /\ "idle" \notin Orphans
  BY DEF Stages, Orphans
<1>2. \A q : Queued(q)' <=> Queued(q)
  BY DEF Queued
<1>3. CASE save[p].stage \in Stages \ {"idle"} /\ save'[p].stage \in Stages \ {"idle"} /\ Holds(p)
  <2>1. p \in Calls /\ p \notin Left
    BY <1>1, <1>3 DEF QueueInv, Procs
  <2>2. QED
    BY <1>1, <1>2, <1>3, <2>1 DEF QueueInv, Active, Holds, Procs, Calls
<1>4. CASE save[p].stage \in Orphans /\ save'[p].stage \in Orphans \cup {"idle"}
  <2>1. p \in Left /\ p \notin Calls
    BY <1>4 DEF QueueInv, Procs
  <2>2. QED
    BY <1>1, <1>2, <1>4, <2>1 DEF QueueInv, Active, Holds, Procs, Calls
<1>5. QED
  BY <1>3, <1>4

LEMMA FinishQueue ==
  ASSUME TInv, QueueInv, NEW p \in Procs, Finish(p)
  PROVE  QueueInv'
<1>1. /\ p \in Calls /\ lockQ # <<>> /\ Head(lockQ) = p /\ lockQ' = Tail(lockQ)
      /\ UNCHANGED <<turn, todo>>
  BY HolderIs DEF Finish, Stages, Holds, talk
<1>2. Goes(p, Idle) /\ Idle.stage = "idle"
  BY FinishIs, IdleIs
<1>3. PICK n \in Nat : n + 1 = Len(lockQ) /\ DOMAIN lockQ = 1 .. n + 1 /\ lockQ[1] = p
  <2>1. Len(lockQ) \in Nat \ {0} /\ DOMAIN lockQ = 1 .. Len(lockQ) /\ lockQ[1] = Head(lockQ)
    BY <1>1 DEF TInv
  <2>2. PICK n \in Nat : n + 1 = Len(lockQ)
    <3>1. Len(lockQ) - 1 \in Nat /\ (Len(lockQ) - 1) + 1 = Len(lockQ)
      BY <2>1
    <3>2. QED
      BY <3>1
  <2>3. QED
    BY <1>1, <2>1, <2>2
<1>4. DOMAIN lockQ' = 1 .. n /\ \A i \in 1 .. n : lockQ'[i] = lockQ[i + 1]
  BY <1>1, <1>3 DEF TInv
<1>5. \A i, j \in DOMAIN lockQ' : lockQ'[i] = lockQ'[j] => i = j
  BY <1>3, <1>4 DEF QueueInv
<1>6. \A q : Queued(q)' <=> Queued(q) /\ q # p
  <2>1. TAKE q
  <2>2. ASSUME Queued(q)' PROVE Queued(q) /\ q # p
    <3>1. PICK i \in 1 .. n : lockQ'[i] = q
      BY <1>4, <2>2 DEF Queued
    <3>2. i + 1 \in 1 .. n + 1 /\ i + 1 # 1 /\ lockQ[i + 1] = q
      BY <1>4, <3>1
    <3>3. QED
      BY <1>3, <3>2 DEF Queued, QueueInv
  <2>3. ASSUME Queued(q), q # p PROVE Queued(q)'
    <3>1. PICK i \in 1 .. n + 1 : lockQ[i] = q
      BY <1>3, <2>3 DEF Queued
    <3>2. PICK j \in 1 .. n : i = j + 1
      BY <1>3, <2>3, <3>1
    <3>3. QED
      BY <1>4, <3>1, <3>2 DEF Queued
  <2>4. QED
    BY <2>2, <2>3
<1>7. \A q \in Calls : /\ save'[q].stage \notin Orphans
                       /\ save'[q].stage # "idle" <=> Queued(q)'
                       /\ Active(q)' => Holds(q)'
  <2>1. TAKE q \in Calls
  <2>2. CASE q = p
    BY <1>1, <1>2, <1>6, <2>2 DEF Goes, Active, Orphans
  <2>3. CASE q # p
    <3>1. save'[q] = save[q] /\ ~Active(q)
      BY <1>1, <1>2, <2>3 DEF Goes, Procs, QueueInv, Holds
    <3>2. QED
      BY <1>6, <2>3, <3>1 DEF QueueInv, Active
  <2>4. QED
    BY <2>2, <2>3
<1>8. \A q \in Left : save'[q].stage \in Orphans \cup {"idle"}
  <2>1. \A q \in Left : q # p /\ q \in Procs
    BY <1>1, MemoryAssumption DEF Left, Procs, Calls
  <2>2. QED
    BY <1>2, <2>1 DEF Goes, QueueInv
<1>9. \A c \in Convs, i \in Slots :
        save'[<<c, i>>].stage # "idle" => turn'[c] = "tools" /\ i > Len(todo'[c])
  <2>1. TAKE c \in Convs, i \in Slots
  <2>2. <<c, i>> \in Procs
    BY DEF Procs, Calls
  <2>3. save'[<<c, i>>].stage # "idle" => save'[<<c, i>>] = save[<<c, i>>]
    BY <1>2, <2>2 DEF Goes
  <2>4. QED
    BY <1>1, <2>3 DEF QueueInv
<1>10. QED
  BY <1>1, <1>5, <1>7, <1>8, <1>9 DEF QueueInv

LEMMA SavingQueue ==
  ASSUME TInv, QueueInv, NEW p \in Procs, Saving(p) \/ JobFails(p)
  PROVE  QueueInv'
<1>1. CASE Read(p) \/ Open(p) \/ Write(p) \/ Rename(p) \/ JobFails(p)
  <2>1. UNCHANGED <<lockQ, turn, todo>>
    BY <1>1 DEF Read, Open, Write, Rename, JobFails, talk
  <2>2. \A q \in Procs \ {p} : save'[q].stage = save[q].stage
    BY <1>1, ReadIs, OpenIs, WriteIs, RenameIs, JobFailsIs DEF Goes
  <2>3. \/ save[p].stage \in Stages \ {"idle"} /\ save'[p].stage \in Stages \ {"idle"}
        \/ save[p].stage \in Orphans /\ save'[p].stage \in Orphans \cup {"idle"}
    <3>1. CASE Read(p)
      BY <3>1, ReadIs DEF Goes, Read, At, Stages
    <3>2. CASE Open(p)
      BY <3>2, OpenIs DEF Goes, Open, Stages, Orphans
    <3>3. CASE Write(p)
      BY <3>3, WriteIs DEF Goes, Stages, Orphans
    <3>4. CASE Rename(p)
      BY <3>4, RenameIs, IdleIs DEF Stages, Orphans
    <3>5. CASE JobFails(p)
      BY <3>5, JobFailsIs DEF Goes, JobFails, Stages
    <3>6. QED
      BY <1>1, <3>1, <3>2, <3>3, <3>4, <3>5
  <2>4. save[p].stage \in Stages \ {"idle"} => Holds(p)
    <3>1. CASE save[p].stage = "locking"
      BY <1>1, <3>1 DEF Read, Open, Write, Rename, JobFails, At
    <3>2. CASE save[p].stage # "locking"
      BY <3>2, HolderIs
    <3>3. QED
      BY <3>1, <3>2
  <2>5. QED
    BY <2>1, <2>2, <2>3, <2>4, OnQueue
<1>2. QED
  BY <1>1, FinishQueue DEF Saving

LEMMA CancelQueue ==
  ASSUME TInv, PInv, QueueInv, NEW c \in Convs, Cancel(c)
  PROVE  QueueInv'
<1>1. lockQ' = Others(lockQ, c) /\ lockQ \in Seq(Calls)
  BY DEF Cancel, TInv
<1>2. /\ \A d \in Convs \ {c} : turn'[d] = turn[d] /\ todo'[d] = todo[d]
      /\ todo'[c] = <<>>
  BY DEF Cancel, Forget, TInv, PInv
<1>3. \A i, j \in DOMAIN lockQ' : lockQ'[i] = lockQ'[j] => i = j
  BY <1>1, OthersKeep DEF QueueInv
<1>4. \A p : Queued(p)' <=> p[1] # c /\ Queued(p)
  BY <1>1, OthersKeep DEF QueueInv, Queued
<1>5. \A p \in Calls : save'[p] = IF p[1] = c THEN Idle ELSE save[p]
  <2>1. \A p \in Calls : p \in Procs /\ p \notin Left
    BY MemoryAssumption DEF Procs, Left, Calls
  <2>2. QED
    BY <2>1, CancelIs DEF Behind
<1>6. \A p \in Calls : /\ save'[p].stage \notin Orphans
                       /\ save'[p].stage # "idle" <=> Queued(p)'
                       /\ Active(p)' => Holds(p)'
  <2>1. TAKE p \in Calls
  <2>2. CASE p[1] = c
    BY <1>4, <1>5, <2>2, IdleIs DEF Active, Orphans
  <2>3. CASE p[1] # c
    <3>1. save'[p] = save[p] /\ (Queued(p)' <=> Queued(p))
      BY <1>4, <1>5, <2>3
    <3>2. Holds(p) => Holds(p)'
      BY <1>1, <2>3, OthersKeep DEF QueueInv, Holds
    <3>3. QED
      BY <3>1, <3>2 DEF QueueInv, Active
  <2>4. QED
    BY <2>2, <2>3
<1>7. \A p \in Left : save'[p].stage \in Orphans \cup {"idle"}
  <2>1. TAKE p \in Left
  <2>2. p \in Procs /\ p[1] # c
    BY MemoryAssumption DEF Left, Procs
  <2>3. CASE save'[p] = IF p[1] = c THEN Idle ELSE save[p]
    BY <2>2, <2>3 DEF QueueInv
  <2>4. CASE Behind(c, p)
    BY <2>4 DEF Behind, AfterCancel
  <2>5. QED
    BY <2>2, <2>3, <2>4, CancelIs
<1>8. \A d \in Convs, i \in Slots :
        save'[<<d, i>>].stage # "idle" => turn'[d] = "tools" /\ i > Len(todo'[d])
  <2>1. TAKE d \in Convs, i \in Slots
  <2>2. <<d, i>> \in Calls /\ <<d, i>>[1] = d
    BY DEF Calls
  <2>3. save'[<<d, i>>] = IF d = c THEN Idle ELSE save[<<d, i>>]
    BY <1>5, <2>2
  <2>4. CASE d = c
    BY <2>3, <2>4, IdleIs
  <2>5. CASE d # c
    BY <1>2, <2>3, <2>5 DEF QueueInv
  <2>6. QED
    BY <2>4, <2>5
<1>9. \A d \in Convs : todo'[d] # <<>> => turn'[d] = "tools"
  BY <1>2 DEF QueueInv
<1>10. QED
  BY <1>3, <1>6, <1>7, <1>8, <1>9 DEF QueueInv

LEMMA CrashQueue ==
  ASSUME Crash
  PROVE  QueueInv'
<1>1. lockQ' = <<>> /\ \A p \in Procs : save'[p] = Idle
  BY DEF Crash
<1>2. \A d \in Convs : todo'[d] = <<>>
  BY DEF Crash, Forget
<1>3. \A p : ~Queued(p)'
  BY <1>1 DEF Queued
<1>4. \A d \in Convs, i \in Slots : <<d, i>> \in Procs
  BY DEF Procs, Calls
<1>5. QED
  BY <1>1, <1>2, <1>3, <1>4, IdleIs DEF QueueInv, Active, Procs, Orphans, Queued

LEMMA QueueNext ==
  ASSUME TInv, PInv, QueueInv, [Next]_vars
  PROVE  QueueInv'
<1>1. ASSUME NEW c \in Convs, StartTurn(c) \/ Turn(c) \/ Cancel(c) PROVE QueueInv'
  BY <1>1, TalkQueue, CallQueue, CancelQueue DEF Turn
<1>2. CASE UNCHANGED vars
  BY <1>2 DEF QueueInv, Queued, Active, Holds, vars, talk
<1>3. QED
  BY <1>1, <1>2, SavingQueue, CrashQueue DEF Next

-----------------------------------------------------------------------------
(* What every state is made of *)

MInv == PInv /\ TInv /\ QueueInv

LEMMA MemoryInductive == Spec => []MInv
<1>1. Init => MInv
  BY PadInit, TypesInit, QueueInit DEF MInv
<1>2. MInv /\ [Next]_vars => MInv'
  BY PadNext, TypesNext, QueueNext DEF MInv
<1>3. QED
  BY <1>1, <1>2, PTL DEF Spec

\* The files hold documents or marks, the lock's queue calls, a save past its read a
\* document of its own, and every scratchpad is one (memory_store.py:25-48,
\* edit_memory.py:73-121).
THEOREM MemoryTypes == Spec => []TypeOK
<1>1. ASSUME MInv PROVE TypeOK
  <2>1. TInv /\ PInv
    BY <1>1 DEF MInv
  <2>2. /\ main \in {None, Empty, Torn} \/ IsDoc(main)
        /\ tmp \in {None, Empty, Torn} \/ IsDoc(tmp)
        /\ lockQ \in Seq(Calls)
    BY <2>1, DocIs DEF TInv
  <2>3. ASSUME NEW p \in Procs
        PROVE  /\ save[p].stage \in Stages \cup Orphans
               /\ save[p].edit \in Edits \cup {None}
               /\ save[p].doc = None \/ IsDoc(save[p].doc)
               /\ save[p].fd \in {"none", "tmp", "main", "gone"}
               /\ save[p].stage \in {"idle", "locking"} \/ save[p].doc # None
    <3>1. save[p] \in Saves /\ SaveOK(p)
      BY <2>1 DEF TInv
    <3>2. QED
      BY <3>1, DocIs, MarksAre DEF Saves, SaveOK
  <2>4. ASSUME NEW c \in Convs
        PROVE  /\ turn[c] \in {"off", "prompt", "on", "tools"}
               /\ todo[c] \in Seq(Edits)
               /\ IsPad(pad[c]) /\ IsPad(saved[c]) /\ IsDoc(shown[c])
    BY <2>1, DocIs DEF TInv, PInv, Sound
  <2>5. told \subseteq Keys /\ IsDoc(latest) /\ clean \in BOOLEAN /\ mixed \in BOOLEAN
    BY <2>1, DocIs DEF TInv
  <2>6. QED
    BY <2>2, <2>3, <2>4, <2>5 DEF TypeOK
<1>2. QED
  BY <1>1, MemoryInductive, PTL

-----------------------------------------------------------------------------
(* The job at work *)

\* What a job has done with memory.tmp, and what it is going to write.
JobOK(p) ==
  /\ save[p].stage \in {"writing", "orphanWriting"} =>
       save[p].fd = "tmp" /\ tmp = Empty
  /\ save[p].stage \notin {"writing", "orphanWriting"} => save[p].fd = "none"
  /\ save[p].stage \in {"renaming", "orphanRenaming"} => tmp = save[p].doc
  /\ save[p].stage \in {"opening", "writing", "renaming"} \cup Orphans =>
       save[p].doc = Put(Memory, save[p].edit.path, save[p].edit.value)
  /\ save[p].stage = "renamed" => save[p].edit.path \in DOMAIN Memory

\* While no save shares memory.tmp with the job of a cancelled one, one job is at
\* work at a time and has read what the file says now.
JobInv ==
  ~mixed => /\ \A p, q \in Procs : Active(p) /\ Active(q) => p = q
            /\ \A p \in Procs : JobOK(p)
            /\ told \subseteq DOMAIN Memory

LEMMA MemoryStays == ASSUME UNCHANGED main PROVE Memory' = Memory
BY DEF Memory

LEMMA QuietIs ==
  ASSUME NEW p, JobOK(p), ~Active(p)
  PROVE  save[p].fd = "none"
BY DEF JobOK, Active

LEMMA QuietOK ==
  ASSUME NEW p, ~Active(p)', save'[p].fd = "none"
  PROVE  JobOK(p)'
BY DEF JobOK, Active, Orphans

LEMMA Alone ==
  ASSUME JobInv, ~mixed, NEW p \in Procs, Active(p), NEW q \in Procs \ {p}
  PROVE  ~Active(q) /\ save[q].fd = "none"
BY QuietIs DEF JobInv

LEMMA JobInit == Init => JobInv
<1> SUFFICES ASSUME Init PROVE JobInv
  OBVIOUS
<1>1. \A p \in Procs : save[p] = Idle
  BY DEF Init
<1>2. \A p \in Procs : JobOK(p) /\ ~Active(p)
  BY <1>1, IdleIs DEF JobOK, Active, Orphans
<1>3. told \subseteq DOMAIN Memory
  BY DEF Init
<1>4. QED
  BY <1>2, <1>3 DEF JobInv

\* A step that leaves the files alone, and starts no job.
LEMMA JobsStay ==
  ASSUME TInv, JobInv, UNCHANGED <<main, tmp, told, mixed>>,
         \A q \in Procs : \/ save'[q] = save[q]
                          \/ ~Active(q)' /\ save'[q].fd = "none"
  PROVE  JobInv'
<1>1. SUFFICES ASSUME ~mixed PROVE JobInv'
  BY DEF JobInv
<1>2. Memory' = Memory
  BY MemoryStays
<1>3. \A q \in Procs : JobOK(q)'
  <2>1. TAKE q \in Procs
  <2>2. CASE save'[q] = save[q]
    <3>1. JobOK(q)
      BY <1>1 DEF JobInv
    <3>2. QED
      BY <1>2, <2>2, <3>1 DEF JobOK
  <2>3. CASE ~Active(q)' /\ save'[q].fd = "none"
    BY <2>3, QuietOK
  <2>4. QED
    BY <2>2, <2>3
<1>4. \A q \in Procs : Active(q)' => Active(q)
  BY DEF Active
<1>5. \A p, q \in Procs : Active(p)' /\ Active(q)' => p = q
  BY <1>1, <1>4 DEF JobInv
<1>6. told' \subseteq DOMAIN Memory'
  BY <1>1, <1>2 DEF JobInv
<1>7. QED
  BY <1>3, <1>5, <1>6 DEF JobInv

\* A step of the one job at work.
LEMMA JobGoes ==
  ASSUME NEW p \in Procs, JobOK(p)', told' \subseteq DOMAIN Memory',
         \A q \in Procs \ {p} : ~Active(q)' /\ save'[q].fd = "none"
  PROVE  JobInv'
<1>1. \A q \in Procs : JobOK(q)'
  <2>1. TAKE q \in Procs
  <2>2. CASE q = p
    BY <2>2
  <2>3. CASE q # p
    BY <2>3, QuietOK
  <2>4. QED
    BY <2>2, <2>3
<1>2. QED
  BY <1>1 DEF JobInv

LEMMA ReadJob ==
  ASSUME MInv, JobInv, ~mixed', NEW p \in Procs, Read(p)
  PROVE  JobInv'
<1>1. TInv /\ QueueInv /\ ~mixed /\ \A q \in Procs : save[q].stage \notin Orphans
  BY DEF MInv, Read
<1>2. Memory' = Memory /\ UNCHANGED <<tmp, told>>
  BY MemoryStays DEF Read, files
<1>3. p \in Calls /\ Holds(p) /\ ~Active(p) /\ save[p].fd = "none"
  <2>1. p \notin Left
    BY DEF QueueInv, MInv, Read, At, Orphans
  <2>2. ~Active(p) /\ Holds(p)
    BY DEF Read, At, Active
  <2>3. QED
    BY <1>1, <2>1, <2>2, QuietIs DEF Procs, JobInv
<1>4. \A q \in Procs \ {p} : ~Active(q) /\ save[q].fd = "none"
  <2>1. TAKE q \in Procs \ {p}
  <2>2. ~Active(q)
    BY <1>1, <1>3 DEF QueueInv, Procs, Holds, Active
  <2>3. QED
    BY <1>1, <2>2, QuietIs DEF JobInv
<1>5. PICK r \in Saves :
           /\ r.stage = "opening" /\ r.edit = save[p].edit /\ r.fd = save[p].fd
           /\ r.doc = Put(Memory, save[p].edit.path, save[p].edit.value) /\ Goes(p, r)
  BY <1>1, ReadIs
<1>6. JobOK(p)'
  BY <1>2, <1>3, <1>5 DEF JobOK, Goes
<1>7. \A q \in Procs \ {p} : ~Active(q)' /\ save'[q].fd = "none"
  BY <1>4, <1>5 DEF Goes, Active
<1>8. told' \subseteq DOMAIN Memory'
  BY <1>1, <1>2 DEF JobInv
<1>9. QED
  BY <1>6, <1>7, <1>8, JobGoes

LEMMA OpenJob ==
  ASSUME MInv, JobInv, ~mixed', NEW p \in Procs, Open(p)
  PROVE  JobInv'
<1>1. TInv /\ ~mixed /\ JobOK(p) /\ Active(p) /\ told \subseteq DOMAIN Memory
  BY DEF MInv, Open, JobInv, Active
<1>2. Memory' = Memory /\ tmp' = Empty /\ told' = told
  BY MemoryStays DEF Open
<1>3. PICK r \in Saves :
           /\ r.stage = IF save[p].stage = "opening" THEN "writing" ELSE "orphanWriting"
           /\ r.edit = save[p].edit /\ r.fd = "tmp" /\ r.doc = save[p].doc /\ Goes(p, r)
  BY <1>1, OpenIs
<1>4. save[p].doc = Put(Memory, save[p].edit.path, save[p].edit.value)
  BY <1>1 DEF Open, JobOK, Orphans
<1>5. JobOK(p)'
  BY <1>2, <1>3, <1>4 DEF JobOK, Goes
<1>6. \A q \in Procs \ {p} : ~Active(q)' /\ save'[q].fd = "none"
  BY <1>1, <1>3, Alone DEF Goes, Active
<1>7. QED
  BY <1>1, <1>2, <1>5, <1>6, JobGoes

\* What is written is one whole document, and to memory.tmp.
LEMMA WriteFile ==
  ASSUME TInv, JobInv, ~mixed, NEW p \in Procs, Write(p)
  PROVE  tmp' = save[p].doc /\ main' = main
<1>1. Active(p) /\ JobOK(p)
  BY DEF Write, Active, JobInv
<1>2. save[p].fd = "tmp" /\ tmp = Empty
  BY <1>1 DEF Write, JobOK
<1>3. \A q \in Procs \ {p} : save[q].fd = "none"
  BY <1>1, Alone
<1>4. ~Shared(p)
  BY <1>2, <1>3 DEF Shared
<1>5. QED
  BY <1>2, <1>4 DEF Write

LEMMA WriteJob ==
  ASSUME MInv, JobInv, ~mixed', NEW p \in Procs, Write(p)
  PROVE  JobInv'
<1>1. TInv /\ ~mixed /\ JobOK(p) /\ Active(p) /\ told \subseteq DOMAIN Memory
  BY DEF MInv, Write, JobInv, Active
<1>2. Memory' = Memory /\ tmp' = save[p].doc /\ told' = told
  BY <1>1, WriteFile, MemoryStays DEF Write
<1>3. PICK r \in Saves :
           /\ Goes(p, r) /\ r.fd = "none"
           /\ \/ /\ save[p].stage = "writing" /\ r.stage = "renaming"
                 /\ r.edit = save[p].edit /\ r.doc = save[p].doc
              \/ save[p].stage = "orphanWriting" /\ r.stage = "idle"
  BY <1>1, WriteIs
<1>4. save[p].doc = Put(Memory, save[p].edit.path, save[p].edit.value)
  BY <1>1 DEF Write, JobOK, Orphans
<1>5. JobOK(p)'
  BY <1>2, <1>3, <1>4 DEF JobOK, Goes, Orphans
<1>6. \A q \in Procs \ {p} : ~Active(q)' /\ save'[q].fd = "none"
  BY <1>1, <1>3, Alone DEF Goes, Active
<1>7. QED
  BY <1>1, <1>2, <1>5, <1>6, JobGoes

\* The rename shows what was written: the file as it was read, and one value more.
LEMMA RenameFile ==
  ASSUME TInv, JobInv, ~mixed, NEW p \in Procs, Rename(p)
  PROVE  /\ save[p].edit \in Edits /\ tmp # None /\ main' = tmp /\ tmp' = None
         /\ Memory' = Put(Memory, save[p].edit.path, save[p].edit.value)
<1>1. Active(p) /\ JobOK(p) /\ SaveOK(p)
  BY DEF Rename, Active, JobInv, TInv
<1>2. save[p].edit \in Edits /\ save[p].doc \in Docs
  BY <1>1 DEF Rename, SaveOK
<1>3. tmp = save[p].doc /\ save[p].doc = Put(Memory, save[p].edit.path, save[p].edit.value)
  BY <1>1 DEF Rename, JobOK, Orphans
<1>4. tmp # None /\ main' = tmp /\ tmp' = None
  BY <1>2, <1>3, MarksAre DEF Rename
<1>5. Memory' = main'
  BY <1>2, <1>3, <1>4, MarksAre DEF Memory
<1>6. QED
  BY <1>2, <1>3, <1>4, <1>5

LEMMA RenameJob ==
  ASSUME MInv, JobInv, ~mixed', NEW p \in Procs, Rename(p)
  PROVE  JobInv'
<1>1. TInv /\ ~mixed /\ JobOK(p) /\ Active(p) /\ told \subseteq DOMAIN Memory
  BY DEF MInv, Rename, JobInv, Active
<1>2. /\ save[p].edit \in Edits /\ tmp # None /\ told' = told
      /\ Memory' = Put(Memory, save[p].edit.path, save[p].edit.value)
  BY <1>1, RenameFile DEF Rename
<1>3. DOMAIN Memory' = DOMAIN Memory \cup {save[p].edit.path}
  <2>1. PICK k \in Keys, v \in Values : k = save[p].edit.path /\ v = save[p].edit.value
    BY <1>2 DEF Edits
  <2>2. Memory \in Docs
    BY <1>1, MemoryIs
  <2>3. DOMAIN Put(Memory, k, v) = DOMAIN Memory \cup {k}
    BY <2>2, PutIs
  <2>4. QED
    BY <1>2, <2>1, <2>3
<1>4. \A q \in Procs \ {p} : ~Active(q)' /\ save'[q].fd = "none"
  BY <1>1, Alone, RenameIs DEF Active
<1>5. JobOK(p)'
  <2>1. CASE save'[p] = Idle
    BY <2>1, IdleIs, QuietOK DEF Active
  <2>2. CASE save'[p] # Idle
    <3>1. /\ save'[p].stage = "renamed" /\ save'[p].edit = save[p].edit
          /\ save'[p].fd = save[p].fd /\ save[p].stage = "renaming"
      BY <1>1, <1>2, <2>2, RenameIs
    <3>2. save[p].fd = "none"
      BY <1>1, <3>1 DEF JobOK
    <3>3. QED
      BY <1>3, <3>1, <3>2 DEF JobOK, Orphans
  <2>3. QED
    BY <2>1, <2>2
<1>6. QED
  BY <1>1, <1>2, <1>3, <1>4, <1>5, JobGoes

LEMMA JobFailsJob ==
  ASSUME MInv, JobInv, ~mixed', NEW p \in Procs, JobFails(p)
  PROVE  JobInv' /\ main' = main
<1>1. TInv /\ ~mixed /\ JobOK(p) /\ Active(p) /\ told \subseteq DOMAIN Memory
  BY DEF MInv, JobFails, JobInv, Active
<1>2. main' = main /\ told' = told
  BY <1>1 DEF JobFails, JobOK, At
<1>3. PICK r \in Saves : Goes(p, r) /\ r.fd = "none" /\ r.stage = "failed"
  BY <1>1, JobFailsIs
<1>4. JobOK(p)'
  BY <1>3 DEF JobOK, Goes, Orphans
<1>5. \A q \in Procs \ {p} : ~Active(q)' /\ save'[q].fd = "none"
  BY <1>1, <1>3, Alone DEF Goes, Active
<1>6. Memory' = Memory
  BY <1>2, MemoryStays
<1>7. QED
  BY <1>1, <1>2, <1>4, <1>5, <1>6, JobGoes

LEMMA FinishJob ==
  ASSUME MInv, JobInv, ~mixed', NEW p \in Procs, Finish(p)
  PROVE  JobInv'
<1>1. TInv /\ ~mixed /\ JobOK(p) /\ Active(p) /\ told \subseteq DOMAIN Memory
  BY DEF MInv, Finish, JobInv, Active
<1>2. Memory' = Memory
  BY MemoryStays DEF Finish, files
<1>3. told' \subseteq DOMAIN Memory
  BY <1>1 DEF Finish, At, JobOK
<1>4. Goes(p, Idle)
  BY <1>1, FinishIs
<1>5. JobOK(p)'
  BY <1>4, IdleIs, QuietOK DEF Active, Goes
<1>6. \A q \in Procs \ {p} : ~Active(q)' /\ save'[q].fd = "none"
  BY <1>1, <1>4, Alone DEF Goes, Active
<1>7. QED
  BY <1>2, <1>3, <1>5, <1>6, JobGoes

\* The job that a cancelled save leaves behind is the one that was at work.
LEMMA CancelJob ==
  ASSUME MInv, JobInv, ~mixed', NEW c \in Convs, Cancel(c)
  PROVE  JobInv'
<1>1. TInv /\ QueueInv /\ ~mixed /\ UNCHANGED <<main, tmp, told>>
  BY DEF MInv, Cancel, files
<1>2. CASE \A p \in Procs : save'[p] = IF p[1] = c THEN Idle ELSE save[p]
  <2>1. \A p \in Procs : save'[p] = save[p] \/ (~Active(p)' /\ save'[p].fd = "none")
    <3>1. TAKE p \in Procs
    <3>2. save'[p] = Idle => ~Active(p)' /\ save'[p].fd = "none"
      BY IdleIs DEF Active
    <3>3. QED
      BY <1>2, <3>2
  <2>2. QED
    BY <1>1, <2>1, JobsStay DEF Cancel
<1>3. ASSUME NEW b \in Procs, Behind(c, b) PROVE JobInv'
  <2>1. PICK h \in Calls : h = Head(lockQ) /\ h[1] = c /\ h \in Procs
    BY <1>1, <1>3 DEF Behind, TInv, Procs
  <2>2. /\ save'[b].edit = save[h].edit /\ save'[b].doc = save[h].doc
        /\ save'[b].fd = save[h].fd
        /\ \/ save[h].stage = "opening" /\ save'[b].stage = "orphanOpening"
           \/ save[h].stage = "writing" /\ save'[b].stage = "orphanWriting"
           \/ save[h].stage = "renaming" /\ save'[b].stage = "orphanRenaming"
    BY <1>3, <2>1 DEF Behind, AfterCancel
  <2>3. Active(h) /\ JobOK(h) /\ told \subseteq DOMAIN Memory
    BY <1>1, <2>1, <2>2 DEF Active, JobInv
  <2>4. Memory' = Memory
    BY <1>1, MemoryStays
  <2>5. JobOK(b)'
    BY <1>1, <2>2, <2>3, <2>4 DEF JobOK, Orphans
  <2>6. \A q \in Procs \ {b} : ~Active(q)' /\ save'[q].fd = "none"
    <3>1. TAKE q \in Procs \ {b}
    <3>2. ~Behind(c, q)
      BY <1>3 DEF Behind
    <3>3. save'[q] = IF q[1] = c THEN Idle ELSE save[q]
      BY <1>1, <3>2, CancelIs
    <3>4. CASE q[1] = c
      BY <3>3, <3>4, IdleIs DEF Active
    <3>5. CASE q[1] # c
      BY <1>1, <2>1, <2>3, <3>3, <3>5, Alone DEF Active
    <3>6. QED
      BY <3>4, <3>5
  <2>7. QED
    BY <1>1, <2>3, <2>4, <2>5, <2>6, JobGoes
<1>4. QED
  BY <1>1, <1>2, <1>3, CancelIs

LEMMA RestJob ==
  ASSUME MInv, JobInv, NEW c \in Convs, StartTurn(c) \/ Turn(c)
  PROVE  JobInv' /\ UNCHANGED <<main, mixed>>
<1>1. TInv /\ PInv
  BY DEF MInv
<1>2. CASE StartTurn(c) \/ Recall(c) \/ Ask(c) \/ Answered(c) \/ EndTurn(c)
  <2>1. UNCHANGED <<main, tmp, told, mixed, save>>
    BY <1>2 DEF StartTurn, Recall, Ask, Answered, EndTurn, files
  <2>2. QED
    BY <1>1, <2>1, JobsStay
<1>3. ASSUME NEW p, Call(p) PROVE JobInv' /\ UNCHANGED <<main, mixed>>
  <2>1. UNCHANGED <<main, tmp, told, mixed>>
    BY <1>3 DEF Call, files
  <2>2. \A q \in Procs : save'[q] = save[q] \/ (~Active(q)' /\ save'[q].fd = "none")
    <3>1. CASE save' = save
      BY <3>1
    <3>2. CASE save' # save
      <4>1. PICK r \in Saves : r.stage = "locking" /\ r.fd = "none" /\ Goes(p, r)
        BY <1>1, <1>3, <3>2, CallIs
      <4>2. ~Active(p)' /\ save'[p].fd = "none"
        BY <4>1 DEF Goes, Active
      <4>3. QED
        BY <4>1, <4>2 DEF Goes
    <3>3. QED
      BY <3>1, <3>2
  <2>3. QED
    BY <1>1, <2>1, <2>2, JobsStay
<1>4. QED
  BY <1>2, <1>3 DEF Turn

LEMMA CrashJob ==
  ASSUME MInv, JobInv, Crash
  PROVE  JobInv' /\ UNCHANGED <<main, mixed>>
<1>1. TInv /\ UNCHANGED <<main, tmp, told, mixed>> /\ \A q \in Procs : save'[q] = Idle
  BY DEF MInv, Crash, files
<1>2. \A q \in Procs : ~Active(q)' /\ save'[q].fd = "none"
  BY <1>1, IdleIs DEF Active
<1>3. QED
  BY <1>1, <1>2, JobsStay

\* Nothing makes a mixed memory a clean one again.
LEMMA JobNext ==
  ASSUME MInv, JobInv, [Next]_vars
  PROVE  JobInv'
<1>1. SUFFICES ASSUME ~mixed' PROVE JobInv'
  BY DEF JobInv
<1>2. ASSUME NEW c \in Convs, StartTurn(c) \/ Turn(c) \/ Cancel(c) PROVE JobInv'
  BY <1>1, <1>2, RestJob, CancelJob
<1>3. ASSUME NEW p \in Procs, Saving(p) \/ JobFails(p) PROVE JobInv'
  BY <1>1, <1>3, ReadJob, OpenJob, WriteJob, RenameJob, JobFailsJob, FinishJob DEF Saving
<1>4. CASE UNCHANGED vars
  BY <1>4, JobsStay DEF vars, files, MInv
<1>5. QED
  BY <1>2, <1>3, <1>4, CrashJob DEF Next

LEMMA JobInductive == Spec => [](MInv /\ JobInv)
<1>1. MInv /\ JobInv /\ [Next]_vars => JobInv'
  BY JobNext
<1>2. QED
  BY <1>1, MemoryInductive, JobInit, PTL DEF Spec

\* What the file says changes by one key at a time, as long as no save shares
\* memory.tmp with the job of a cancelled one (memory_store.py:18-22, 40-48).
THEOREM MemoryOneKeyAtATime == Spec => OneKeyAtATime
<1> DEFINE Step == ~mixed' /\ Memory' # Memory =>
       \E p \in {p \in Procs : save[p].edit # None} :
         Memory' = Put(Memory, save[p].edit.path, save[p].edit.value)
<1>1. ASSUME MInv, JobInv, [Next]_vars PROVE Step
  <2>1. SUFFICES ASSUME ~mixed', main' # main
                 PROVE  \E p \in {p \in Procs : save[p].edit # None} :
                          Memory' = Put(Memory, save[p].edit.path, save[p].edit.value)
    BY MemoryStays
  <2>2. PICK p \in Procs : Saving(p) \/ JobFails(p)
    BY <1>1, <2>1, RestJob, CrashJob DEF Next, Cancel, vars, files
  <2>3. ~mixed
    BY <2>1, <2>2 DEF Saving, JobFails, Read, Open, Write, Rename, Finish
  <2>4. Rename(p)
    BY <1>1, <2>1, <2>2, <2>3, WriteFile, JobFailsJob
       DEF Saving, Read, Open, Finish, files, MInv
  <2>5. /\ save[p].edit \in Edits
        /\ Memory' = Put(Memory, save[p].edit.path, save[p].edit.value)
    BY <1>1, <2>3, <2>4, RenameFile DEF MInv
  <2>6. save[p].edit # None
    BY <2>5, MemoryAssumption
  <2>7. QED
    BY <2>5, <2>6
<1>2. QED
  BY <1>1, JobInductive, PTL DEF Spec, OneKeyAtATime

\* A turn that begins is shown every note that some call answered as persisted,
\* across conversations and restarts (prompt.py:145-157).
THEOREM NotesAreRecalled == Spec => Recalled
<1> DEFINE Step == \A c \in Convs : ~mixed /\ turn[c] = "prompt" /\ turn'[c] = "on"
                                      => told \subseteq DOMAIN shown'[c]
<1>1. ASSUME MInv, JobInv, [Next]_vars PROVE Step
  <2>1. SUFFICES ASSUME NEW c \in Convs, ~mixed, turn[c] = "prompt", turn'[c] = "on"
                 PROVE  told \subseteq DOMAIN shown'[c]
    OBVIOUS
  <2>2. TInv /\ PInv /\ QueueInv
    BY <1>1 DEF MInv
  <2>3. Recall(c)
    <3>1. turn' # turn
      BY <2>1
    <3>2. ASSUME NEW C, Forget(C) PROVE FALSE
      BY <2>1, <3>2 DEF Forget
    <3>3. ASSUME NEW p \in Procs, Saving(p) \/ JobFails(p) PROVE FALSE
      BY <3>1, <3>3 DEF Saving, JobFails, Read, Open, Write, Rename, Finish, talk
    <3>4. PICK d \in Convs : StartTurn(d) \/ Turn(d)
      BY <1>1, <3>1, <3>2, <3>3 DEF Next, Cancel, Crash, vars, talk
    <3>5. StartTurn(d) \/ Recall(d) \/ Ask(d) \/ Answered(d)
      BY <3>1, <3>2, <3>4 DEF Turn, EndTurn, Call
    <3>6. d = c
      BY <2>1, <2>2, <3>5 DEF StartTurn, Recall, Ask, Answered, TInv
    <3>7. QED
      BY <2>1, <3>5, <3>6 DEF StartTurn, Ask, Answered, TInv
  <2>4. shown'[c] = Memory
    BY <2>2, <2>3 DEF Recall, TInv
  <2>5. QED
    BY <1>1, <2>1, <2>4 DEF JobInv
<1>2. QED
  BY <1>1, JobInductive, PTL DEF Spec, Recalled

-----------------------------------------------------------------------------
(* What was asked last *)

Waits(k) == \E i \in DOMAIN lockQ : save[lockQ[i]].edit.path = k

\* The value asked for last under k is the last one in the queue, or the file's.
LastAsked(k) ==
  \/ \E i \in DOMAIN lockQ :
       /\ save[lockQ[i]].edit.path = k /\ latest[k] = save[lockQ[i]].edit.value
       /\ \A j \in DOMAIN lockQ : j > i => save[lockQ[j]].edit.path # k
  \/ ~Waits(k) /\ k \in DOMAIN Memory /\ latest[k] = Memory[k]

\* As long as every save is made: the queue is the way from what the file says to
\* what was asked last.
CleanInv ==
  clean =>
    /\ ~mixed /\ \A p \in Procs : save[p].stage \notin Orphans
    /\ \A k : k \in DOMAIN latest <=> k \in DOMAIN Memory \/ Waits(k)
    /\ \A k \in DOMAIN latest : LastAsked(k)
    /\ \A p \in Procs : save[p].stage = "renamed" =>
         Memory[save[p].edit.path] = save[p].edit.value

LEMMA CleanInit == Init => CleanInv
<1> SUFFICES ASSUME Init PROVE CleanInv
  OBVIOUS
<1>1. /\ ~mixed /\ lockQ = <<>> /\ latest = <<>> /\ Memory = <<>>
      /\ \A p \in Procs : save[p] = Idle
  BY DEF Init, Memory
<1>2. DOMAIN latest = {} /\ DOMAIN Memory = {} /\ \A k : ~Waits(k)
  BY <1>1, NothingIsDoc DEF Waits
<1>3. QED
  BY <1>1, <1>2, IdleIs DEF CleanInv, Orphans

\* A step that leaves the file, the queue and what is asked for alone.
LEMMA CleanStays ==
  ASSUME CleanInv, clean, UNCHANGED <<main, lockQ, latest>>, ~mixed',
         \A p \in Procs : save'[p].stage \notin Orphans,
         \A i \in DOMAIN lockQ : save'[lockQ[i]].edit = save[lockQ[i]].edit,
         \A p \in Procs : save'[p].stage = "renamed" =>
           save[p].stage = "renamed" /\ save'[p].edit = save[p].edit
  PROVE  CleanInv'
<1>1. Memory' = Memory
  BY MemoryStays
<1>2. \A k : Waits(k)' <=> Waits(k)
  BY DEF Waits
<1>3. \A k : k \in DOMAIN latest' <=> k \in DOMAIN Memory' \/ Waits(k)'
  BY <1>1, <1>2 DEF CleanInv
<1>4. \A k \in DOMAIN latest' : LastAsked(k)'
  <2>1. TAKE k \in DOMAIN latest'
  <2>2. LastAsked(k)
    BY DEF CleanInv
  <2>3. QED
    BY <1>1, <1>2, <2>2 DEF LastAsked
<1>5. \A p \in Procs : save'[p].stage = "renamed" =>
         Memory'[save'[p].edit.path] = save'[p].edit.value
  BY <1>1 DEF CleanInv
<1>6. QED
  BY <1>3, <1>4, <1>5 DEF CleanInv

\* A call that joins the queue asks for its value after all others.
LEMMA CleanCall ==
  ASSUME MInv, CleanInv, clean, NEW p, Call(p)
  PROVE  CleanInv'
<1>1. TInv /\ PInv /\ QueueInv /\ UNCHANGED <<main, mixed>>
  BY DEF MInv, Call, files
<1>2. CASE UNCHANGED <<lockQ, save, latest>>
  BY <1>1, <1>2, CleanStays DEF CleanInv
<1>3. ASSUME NEW e \in Edits, NEW r \in Saves,
             r.stage = "locking", r.edit = e, Goes(p, r),
             lockQ' = Append(lockQ, p), latest' = Put(latest, e.path, e.value)
      PROVE  CleanInv'
  <2>1. p \in Calls /\ p \in Procs /\ ~Queued(p)
    <3>1. /\ p \in Calls /\ p \in Procs /\ p[1] \in Convs /\ p[2] \in Slots
          /\ p = <<p[1], p[2]>> /\ p[2] = Len(todo[p[1]])
      BY <1>1, CallIs DEF Calls
    <3>2. p[2] \in Nat /\ ~(p[2] > Len(todo[p[1]]))
      BY <3>1, MemoryAssumption
    <3>3. save[<<p[1], p[2]>>].stage = "idle"
      BY <1>1, <3>1, <3>2 DEF QueueInv
    <3>4. QED
      BY <1>1, <3>1, <3>3 DEF QueueInv
  <2>2. PICK n \in Nat : n = Len(lockQ) /\ DOMAIN lockQ = 1 .. n
    BY <1>1 DEF TInv
  <2>3. /\ DOMAIN lockQ' = 1 .. n + 1 /\ lockQ'[n + 1] = p
        /\ \A i \in 1 .. n : lockQ'[i] = lockQ[i]
    BY <1>1, <1>3, <2>1, <2>2 DEF TInv
  <2>4. \A i \in 1 .. n + 1 : i \in 1 .. n \/ i = n + 1
    BY <2>2
  <2>5. \A i \in 1 .. n : save'[lockQ'[i]].edit = save[lockQ[i]].edit
    <3>1. TAKE i \in 1 .. n
    <3>2. lockQ[i] \in Procs \ {p}
      BY <1>1, <2>1, <2>2 DEF TInv, Queued, Procs
    <3>3. QED
      BY <1>3, <2>3, <3>2 DEF Goes
  <2>6. save'[lockQ'[n + 1]].edit = e
    BY <1>3, <2>3 DEF Goes
  <2>7. Memory' = Memory
    BY <1>1, MemoryStays
  <2>8. /\ latest \in Docs /\ e.path \in Keys /\ e.value \in Values
        /\ DOMAIN latest' = DOMAIN latest \cup {e.path} /\ latest'[e.path] = e.value
        /\ \A k \in DOMAIN latest \ {e.path} : latest'[k] = latest[k]
    <3>1. latest \in Docs /\ e.path \in Keys /\ e.value \in Values
      BY <1>1 DEF TInv, Edits
    <3>2. PICK k \in Keys, v \in Values : k = e.path /\ v = e.value
      BY <3>1
    <3>3. PICK d : d = Put(latest, k, v)
      OBVIOUS
    <3>4. /\ DOMAIN d = DOMAIN latest \cup {k} /\ d[k] = v
          /\ \A q \in DOMAIN latest \ {k} : d[q] = latest[q]
      BY <3>1, <3>3, PutIs
    <3>5. latest' = d
      BY <1>3, <3>2, <3>3
    <3>6. QED
      BY <3>1, <3>2, <3>4, <3>5
  <2>9. \A k : Waits(k)' <=> Waits(k) \/ k = e.path
    <3>1. TAKE k
    <3>2. ASSUME NEW i \in 1 .. n + 1, save'[lockQ'[i]].edit.path = k
          PROVE  Waits(k) \/ k = e.path
      BY <2>2, <2>4, <2>5, <2>6, <3>2 DEF Waits
    <3>3. ASSUME NEW i \in 1 .. n, save[lockQ[i]].edit.path = k PROVE Waits(k)'
      <4>1. i \in 1 .. n + 1
        BY <2>2
      <4>2. QED
        BY <2>3, <2>5, <3>3, <4>1 DEF Waits
    <3>4. Waits(e.path)'
      BY <2>2, <2>3, <2>6 DEF Waits
    <3>5. QED
      BY <2>2, <2>3, <3>2, <3>3, <3>4 DEF Waits
  <2>10. \A k : k \in DOMAIN latest' <=> k \in DOMAIN Memory' \/ Waits(k)'
    BY <2>7, <2>8, <2>9 DEF CleanInv
  <2>11. \A k \in DOMAIN latest' : LastAsked(k)'
    <3>1. TAKE k \in DOMAIN latest'
    <3>2. CASE k = e.path
      <4>1. n + 1 \in 1 .. n + 1 /\ \A j \in 1 .. n + 1 : ~(j > n + 1)
        BY <2>2
      <4>2. QED
        BY <2>3, <2>6, <2>8, <3>2, <4>1 DEF LastAsked
    <3>3. CASE k # e.path
      <4>1. k \in DOMAIN latest /\ latest'[k] = latest[k] /\ LastAsked(k)
        BY <2>8, <3>3 DEF CleanInv
      <4>2. CASE ~Waits(k) /\ k \in DOMAIN Memory /\ latest[k] = Memory[k]
        BY <2>7, <2>9, <3>3, <4>1, <4>2 DEF LastAsked
      <4>3. ASSUME NEW i \in 1 .. n, save[lockQ[i]].edit.path = k,
                   latest[k] = save[lockQ[i]].edit.value,
                   \A j \in 1 .. n : j > i => save[lockQ[j]].edit.path # k
            PROVE  LastAsked(k)'
        <5>1. i \in 1 .. n + 1 /\ save'[lockQ'[i]].edit = save[lockQ[i]].edit
          BY <2>2, <2>5
        <5>2. \A j \in 1 .. n + 1 : j > i => save'[lockQ'[j]].edit.path # k
          BY <2>4, <2>5, <2>6, <3>3, <4>3
        <5>3. QED
          BY <2>3, <4>1, <4>3, <5>1, <5>2 DEF LastAsked
      <4>4. QED
        BY <2>2, <4>1, <4>2, <4>3 DEF LastAsked
    <3>4. QED
      BY <3>2, <3>3
  <2>12. ~mixed' /\ \A q \in Procs : save'[q].stage \notin Orphans
    BY <1>1, <1>3 DEF CleanInv, Goes, Orphans
  <2>13. \A q \in Procs : save'[q].stage = "renamed" =>
           Memory'[save'[q].edit.path] = save'[q].edit.value
    BY <1>3, <2>7 DEF CleanInv, Goes
  <2>14. QED
    BY <2>10, <2>11, <2>12, <2>13 DEF CleanInv
<1>4. QED
  BY <1>1, <1>2, <1>3, CallIs

\* The rename makes the first call of the queue what the file says.
LEMMA CleanRename ==
  ASSUME MInv, JobInv, CleanInv, clean, NEW p \in Procs, Rename(p)
  PROVE  CleanInv'
<1>1. TInv /\ QueueInv /\ ~mixed /\ UNCHANGED <<lockQ, latest, mixed>>
  BY DEF MInv, Rename, CleanInv
<1>2. save[p].stage = "renaming"
  BY DEF Rename, CleanInv, Orphans
<1>3. Active(p) /\ p \in Calls /\ Holds(p)
  BY <1>1, <1>2, HolderIs DEF Active, Stages
<1>4. 1 \in DOMAIN lockQ /\ lockQ[1] = p
  BY <1>1, <1>3 DEF Holds, TInv
<1>5. PICK k \in Keys, v \in Values : k = save[p].edit.path /\ v = save[p].edit.value
  BY <1>1, RenameFile DEF Edits
<1>6. Memory' = Put(Memory, k, v) /\ Memory \in Docs
  BY <1>1, <1>5, RenameFile, MemoryIs
<1>7. /\ DOMAIN Memory' = DOMAIN Memory \cup {k} /\ Memory'[k] = v
      /\ \A q \in DOMAIN Memory \ {k} : Memory'[q] = Memory[q]
  <2>1. PICK d \in Docs : d = Memory
    BY <1>6
  <2>2. /\ DOMAIN Put(d, k, v) = DOMAIN d \cup {k} /\ Put(d, k, v)[k] = v
        /\ \A q \in DOMAIN d \ {k} : Put(d, k, v)[q] = d[q]
    BY PutIs
  <2>3. QED
    BY <1>6, <2>1, <2>2
<1>8. \A q \in Procs : /\ save'[q].edit = save[q].edit
                       /\ save'[q].stage \notin Orphans
                       /\ save'[q].stage = "renamed" => q = p
  <2>1. TAKE q \in Procs
  <2>2. CASE q = p
    BY <1>1, <1>2, <2>2, RenameIs DEF Orphans
  <2>3. CASE q # p
    <3>1. save'[q].stage = save[q].stage /\ save'[q].edit = save[q].edit
      BY <1>1, <2>3, RenameIs
    <3>2. ~Active(q)
      BY <1>1, <1>3, <2>3, Alone
    <3>3. QED
      BY <3>1, <3>2 DEF Active, Orphans
  <2>4. QED
    BY <2>2, <2>3
<1>9. \A i \in DOMAIN lockQ : save'[lockQ'[i]].edit = save[lockQ[i]].edit
  BY <1>1, <1>8 DEF TInv, Procs
<1>10. \A q : Waits(q)' <=> Waits(q)
  BY <1>1, <1>9 DEF Waits
<1>11. Waits(k)
  BY <1>4, <1>5 DEF Waits
<1>12. \A q : q \in DOMAIN latest' <=> q \in DOMAIN Memory' \/ Waits(q)'
  BY <1>1, <1>7, <1>10, <1>11 DEF CleanInv
<1>13. \A q \in DOMAIN latest' : LastAsked(q)'
  <2>1. TAKE q \in DOMAIN latest'
  <2>2. LastAsked(q)
    BY <1>1 DEF CleanInv
  <2>3. CASE ~Waits(q) /\ q \in DOMAIN Memory /\ latest[q] = Memory[q]
    <3>1. q # k /\ q \in DOMAIN Memory' /\ Memory'[q] = Memory[q]
      BY <1>7, <1>11, <2>3
    <3>2. QED
      BY <1>1, <1>10, <2>3, <3>1 DEF LastAsked
  <2>4. CASE Waits(q) \/ q \notin DOMAIN Memory \/ latest[q] # Memory[q]
    BY <1>1, <1>9, <2>2, <2>4 DEF LastAsked
  <2>5. QED
    BY <2>3, <2>4
<1>14. \A q \in Procs : save'[q].stage = "renamed" =>
         Memory'[save'[q].edit.path] = save'[q].edit.value
  BY <1>5, <1>7, <1>8
<1>15. ~mixed' /\ \A q \in Procs : save'[q].stage \notin Orphans
  BY <1>1, <1>8
<1>16. QED
  BY <1>12, <1>13, <1>14, <1>15 DEF CleanInv

\* The call whose value the file holds leaves the queue.
LEMMA CleanFinish ==
  ASSUME MInv, JobInv, CleanInv, clean', NEW p \in Procs, Finish(p)
  PROVE  CleanInv'
<1>1. /\ TInv /\ QueueInv /\ clean /\ ~mixed /\ save[p].stage = "renamed"
      /\ lockQ' = Tail(lockQ) /\ UNCHANGED <<main, latest, mixed>>
  BY DEF MInv, Finish, CleanInv, files, At
<1>2. Active(p) /\ p \in Calls /\ Holds(p)
  BY <1>1, HolderIs DEF Active, Stages
<1>3. PICK n \in Nat : /\ DOMAIN lockQ = 1 .. n + 1 /\ DOMAIN lockQ' = 1 .. n
                       /\ lockQ[1] = p /\ \A i \in 1 .. n : lockQ'[i] = lockQ[i + 1]
  <2>1. Len(lockQ) \in Nat \ {0} /\ DOMAIN lockQ = 1 .. Len(lockQ) /\ lockQ[1] = Head(lockQ)
    BY <1>1, <1>2 DEF TInv, Holds
  <2>2. PICK n \in Nat : n + 1 = Len(lockQ)
    <3>1. Len(lockQ) - 1 \in Nat /\ (Len(lockQ) - 1) + 1 = Len(lockQ)
      BY <2>1
    <3>2. QED
      BY <3>1
  <2>3. DOMAIN lockQ' = 1 .. n /\ \A i \in 1 .. n : lockQ'[i] = lockQ[i + 1]
    <3>1. lockQ \in Seq(Calls) /\ lockQ # <<>> /\ lockQ' = Tail(lockQ)
      BY <1>1, <1>2 DEF TInv, Holds
    <3>2. DOMAIN lockQ = 1 .. n + 1
      BY <2>1, <2>2
    <3>3. QED
      BY <2>2, <3>1, <3>2
  <2>4. QED
    BY <1>2, <2>1, <2>2, <2>3 DEF Holds
<1>4. Memory' = Memory
  BY <1>1, MemoryStays
<1>5. Goes(p, Idle)
  BY <1>1, FinishIs
<1>6. \A i \in 1 .. n : /\ i + 1 \in 1 .. n + 1 /\ i + 1 # 1
                        /\ save'[lockQ'[i]].edit = save[lockQ[i + 1]].edit
  <2>1. TAKE i \in 1 .. n
  <2>2. i + 1 \in 1 .. n + 1 /\ i + 1 # 1 /\ 1 \in 1 .. n + 1
    BY <1>3
  <2>3. lockQ[i + 1] \in Procs \ {p}
    BY <1>1, <1>3, <2>2 DEF QueueInv, TInv, Procs
  <2>4. QED
    BY <1>3, <1>5, <2>2, <2>3 DEF Goes
<1>7. \A i \in 1 .. n + 1 : i = 1 \/ \E j \in 1 .. n : i = j + 1
  <2>1. TAKE i \in 1 .. n + 1
  <2>2. ASSUME i # 1 PROVE i - 1 \in 1 .. n /\ i = (i - 1) + 1
    BY <2>2
  <2>3. QED
    BY <2>2
<1>8. PICK e \in Edits : e = save[p].edit
  BY <1>1 DEF TInv, SaveOK
<1>9. e.path \in DOMAIN Memory /\ Memory[e.path] = e.value
  BY <1>1, <1>8 DEF JobInv, JobOK, CleanInv
<1>10. \A k : Waits(k) <=> Waits(k)' \/ k = e.path
  <2>1. TAKE k
  <2>2. ASSUME NEW i \in 1 .. n + 1, save[lockQ[i]].edit.path = k
        PROVE  Waits(k)' \/ k = e.path
    <3>1. CASE i = 1
      BY <1>3, <1>8, <2>2, <3>1
    <3>2. CASE i # 1
      <4>1. PICK j \in 1 .. n : i = j + 1
        BY <1>7, <3>2
      <4>2. save'[lockQ'[j]].edit.path = k
        BY <1>6, <2>2, <4>1
      <4>3. QED
        BY <1>3, <4>2 DEF Waits
    <3>3. QED
      BY <3>1, <3>2
  <2>3. ASSUME NEW i \in 1 .. n, save'[lockQ'[i]].edit.path = k PROVE Waits(k)
    BY <1>3, <1>6, <2>3 DEF Waits
  <2>4. Waits(e.path)
    <3>1. 1 \in 1 .. n + 1
      BY <1>3
    <3>2. QED
      BY <1>3, <1>8, <3>1 DEF Waits
  <2>5. Waits(k) => \E i \in 1 .. n + 1 : save[lockQ[i]].edit.path = k
    BY <1>3 DEF Waits
  <2>6. Waits(k)' => \E i \in 1 .. n : save'[lockQ'[i]].edit.path = k
    BY <1>3 DEF Waits
  <2>7. QED
    BY <2>2, <2>3, <2>4, <2>5, <2>6
<1>11. \A k : k \in DOMAIN latest' <=> k \in DOMAIN Memory' \/ Waits(k)'
  BY <1>1, <1>4, <1>9, <1>10 DEF CleanInv
<1>12. \A k \in DOMAIN latest' : LastAsked(k)'
  <2>1. TAKE k \in DOMAIN latest'
  <2>2. LastAsked(k)
    BY <1>1 DEF CleanInv
  <2>3. CASE ~Waits(k) /\ k \in DOMAIN Memory /\ latest[k] = Memory[k]
    BY <1>1, <1>4, <1>10, <2>3 DEF LastAsked
  <2>4. ASSUME NEW i \in 1 .. n + 1, save[lockQ[i]].edit.path = k,
               latest[k] = save[lockQ[i]].edit.value,
               \A j \in 1 .. n + 1 : j > i => save[lockQ[j]].edit.path # k
        PROVE  LastAsked(k)'
    <3>1. CASE i = 1
      <4>1. k = e.path /\ latest[k] = Memory[k]
        BY <1>3, <1>8, <1>9, <2>4, <3>1
      <4>2. \A j \in 1 .. n : save'[lockQ'[j]].edit.path # k
        <5>1. TAKE j \in 1 .. n
        <5>2. j + 1 \in 1 .. n + 1 /\ j + 1 > i
          BY <1>3, <3>1
        <5>3. QED
          BY <1>6, <2>4, <5>2
      <4>3. ~Waits(k)'
        BY <1>3, <4>2 DEF Waits
      <4>4. QED
        BY <1>1, <1>4, <1>9, <4>1, <4>3 DEF LastAsked
    <3>2. CASE i # 1
      <4>1. PICK j \in 1 .. n : i = j + 1
        BY <1>7, <3>2
      <4>2. save'[lockQ'[j]].edit = save[lockQ[i]].edit
        BY <1>6, <4>1
      <4>3. \A h \in 1 .. n : h > j => save'[lockQ'[h]].edit.path # k
        <5>1. TAKE h \in 1 .. n
        <5>2. h + 1 \in 1 .. n + 1 /\ (h > j => h + 1 > i)
          BY <1>3, <4>1
        <5>3. QED
          BY <1>6, <2>4, <5>2
      <4>4. QED
        BY ZenonT(30), <1>1, <1>3, <2>4, <4>1, <4>2, <4>3 DEF LastAsked
    <3>3. QED
      BY <3>1, <3>2
  <2>5. QED
    BY <1>3, <2>2, <2>3, <2>4 DEF LastAsked
<1>13. ~mixed' /\ \A q \in Procs : save'[q].stage \notin Orphans
  BY <1>1, <1>5, IdleIs DEF CleanInv, Goes, Orphans
<1>14. \A q \in Procs : save'[q].stage = "renamed" =>
         Memory'[save'[q].edit.path] = save'[q].edit.value
  BY <1>1, <1>4, <1>5, IdleIs DEF CleanInv, Goes
<1>15. QED
  BY <1>11, <1>12, <1>13, <1>14 DEF CleanInv

\* Who has no call in the queue takes none out of it.
LEMMA OthersAll ==
  ASSUME NEW q \in Seq(Calls), NEW c, \A i \in DOMAIN q : q[i][1] # c
  PROVE  Others(q, c) = q
<1>1. PICK m \in Nat : m = Len(q) /\ DOMAIN q = 1 .. m
  OBVIOUS
<1>2. {i \in DOMAIN q : q[i][1] # c} = 1 .. m
  BY <1>1
<1>3. \A n \in 0 .. m : Cardinality(1 .. n) = n
  BY FS_Interval
<1>4. \A i \in 1 .. m : Cardinality({j \in 1 .. m : j <= i}) = i
  <2>1. TAKE i \in 1 .. m
  <2>2. {j \in 1 .. m : j <= i} = 1 .. i
    OBVIOUS
  <2>3. i \in 0 .. m
    OBVIOUS
  <2>4. QED
    BY <1>3, <2>2, <2>3
<1>5. \A n \in 1 .. m : (CHOOSE i \in 1 .. m : Cardinality({j \in 1 .. m : j <= i}) = n) = n
  <2>1. TAKE n \in 1 .. m
  <2>2. \A i \in 1 .. m : Cardinality({j \in 1 .. m : j <= i}) = n <=> i = n
    BY <1>4
  <2>3. QED
    BY <2>2
<1>6. Cardinality(1 .. m) = m
  BY <1>3
<1>7. PICK K : K = {i \in DOMAIN q : q[i][1] # c}
  OBVIOUS
<1>8. Others(q, c) = [n \in 1 .. m |-> q[n]]
  <2>1. Others(q, c) = [n \in 1 .. Cardinality(K) |->
                          q[CHOOSE i \in K : Cardinality({j \in K : j <= i}) = n]]
    BY <1>7 DEF Others
  <2>2. K = 1 .. m /\ Cardinality(K) = m
    BY <1>2, <1>6, <1>7
  <2>3. \A n \in 1 .. m : (CHOOSE i \in K : Cardinality({j \in K : j <= i}) = n) = n
    BY <1>5, <2>2
  <2>4. QED
    BY <2>1, <2>2, <2>3
<1>9. QED
  BY <1>1, <1>8

\* A cancel that cuts no save off leaves the queue as it is.
LEMMA CleanCancel ==
  ASSUME MInv, CleanInv, clean', NEW c \in Convs, Cancel(c)
  PROVE  CleanInv'
<1>1. /\ TInv /\ QueueInv /\ clean /\ \A i \in Slots : save[<<c, i>>].stage = "idle"
      /\ lockQ' = Others(lockQ, c) /\ UNCHANGED <<main, latest, mixed>>
  BY DEF MInv, Cancel, files, At
<1>2. \A i \in DOMAIN lockQ : lockQ[i] \in Calls /\ lockQ[i] \in Procs /\ lockQ[i][1] # c
  <2>1. TAKE i \in DOMAIN lockQ
  <2>2. PICK d \in Convs, s \in Slots : lockQ[i] = <<d, s>>
    BY <1>1 DEF TInv, Calls
  <2>3. <<d, s>> \in Calls /\ save[<<d, s>>].stage # "idle"
    BY <1>1, <2>2 DEF QueueInv, Queued, Calls
  <2>4. d # c
    BY <1>1, <2>3
  <2>5. QED
    BY <2>2, <2>3, <2>4 DEF Procs
<1>3. lockQ' = lockQ
  BY <1>1, <1>2, OthersAll DEF TInv
<1>4. \A p \in Procs : save'[p] = IF p[1] = c THEN Idle ELSE save[p]
  <2>1. lockQ # <<>> => Head(lockQ)[1] # c
    BY <1>1, <1>2 DEF TInv
  <2>2. QED
    BY <1>1, <2>1, CancelIs DEF Behind
<1>5. \A i \in DOMAIN lockQ : save'[lockQ[i]].edit = save[lockQ[i]].edit
  BY <1>2, <1>4
<1>6. ~mixed' /\ \A p \in Procs : save'[p].stage \notin Orphans
  BY <1>1, <1>4, IdleIs DEF CleanInv, Orphans
<1>7. \A p \in Procs : save'[p].stage = "renamed" =>
        save[p].stage = "renamed" /\ save'[p].edit = save[p].edit
  BY <1>4, IdleIs
<1>8. QED
  BY <1>1, <1>3, <1>5, <1>6, <1>7, CleanStays

LEMMA CleanCrash ==
  ASSUME MInv, CleanInv, clean', Crash
  PROVE  CleanInv'
<1>1. /\ TInv /\ QueueInv /\ clean /\ \A p \in Procs : save[p].stage = "idle"
      /\ lockQ' = <<>> /\ UNCHANGED <<main, latest, mixed>>
      /\ \A p \in Procs : save'[p] = Idle
  BY DEF MInv, Crash, files, At
<1>2. lockQ = <<>>
  <2>1. \A i \in DOMAIN lockQ : lockQ[i] \in Calls /\ Queued(lockQ[i])
    BY <1>1 DEF TInv, Queued
  <2>2. \A i \in DOMAIN lockQ : FALSE
    BY <1>1, <2>1 DEF QueueInv, Procs
  <2>3. lockQ # <<>> => 1 \in DOMAIN lockQ
    BY <1>1 DEF TInv
  <2>4. QED
    BY <2>2, <2>3
<1>3. DOMAIN lockQ = {}
  BY <1>2
<1>4. QED
  BY <1>1, <1>2, <1>3, CleanStays, IdleIs DEF CleanInv, Orphans

\* The steps of a save but its rename and its end.
LEMMA CleanSaving ==
  ASSUME MInv, JobInv, CleanInv, clean, NEW p \in Procs,
         Read(p) \/ Open(p) \/ Write(p) \/ JobFails(p)
  PROVE  CleanInv'
<1>1. /\ TInv /\ ~mixed /\ ~mixed' /\ UNCHANGED <<lockQ, latest>>
      /\ save[p].stage \notin Orphans
  <2>1. TInv /\ ~mixed /\ \A q \in Procs : save[q].stage \notin Orphans
    BY DEF MInv, CleanInv
  <2>2. UNCHANGED <<lockQ, latest>>
    BY DEF Read, Open, Write, JobFails
  <2>3. mixed' = mixed \/ Read(p)
    BY DEF Open, Write, JobFails
  <2>4. Read(p) => ~mixed'
    BY <2>1 DEF Read
  <2>5. QED
    BY <2>1, <2>2, <2>3, <2>4
<1>2. main' = main
  BY <1>1, WriteFile, JobFailsJob DEF Read, Open, files
<1>3. PICK r \in Saves : /\ r.edit = save[p].edit /\ Goes(p, r)
                         /\ r.stage \in {"opening", "writing", "renaming", "failed"}
  BY <1>1, ReadIs, OpenIs, WriteIs, JobFailsIs DEF Orphans, Open
<1>4. \A q \in Procs : /\ save'[q].edit = save[q].edit
                       /\ save'[q].stage \notin Orphans
                       /\ save'[q].stage = "renamed" => save[q].stage = "renamed"
  BY <1>3 DEF Goes, CleanInv, Orphans
<1>5. \A i \in DOMAIN lockQ : lockQ[i] \in Procs
  BY <1>1 DEF TInv, Procs
<1>6. QED
  BY <1>1, <1>2, <1>4, <1>5, CleanStays

LEMMA CleanNext ==
  ASSUME MInv, JobInv, CleanInv, [Next]_vars
  PROVE  CleanInv'
<1>1. SUFFICES ASSUME clean' PROVE CleanInv'
  BY DEF CleanInv
<1>2. ASSUME NEW c \in Convs, StartTurn(c) \/ Turn(c) \/ Cancel(c) PROVE CleanInv'
  <2>1. CASE StartTurn(c) \/ Recall(c) \/ Ask(c) \/ Answered(c) \/ EndTurn(c)
    <3>1. UNCHANGED <<main, save, lockQ, latest, clean, mixed>>
      BY <2>1 DEF StartTurn, Recall, Ask, Answered, EndTurn, files
    <3>2. QED
      BY <1>1, <3>1, CleanStays DEF CleanInv
  <2>2. ASSUME NEW p, Call(p) PROVE CleanInv'
    <3>1. clean
      BY <1>1, <2>2 DEF Call
    <3>2. QED
      BY <2>2, <3>1, CleanCall
  <2>3. QED
    BY <1>1, <1>2, <2>1, <2>2, CleanCancel DEF Turn
<1>3. ASSUME NEW p \in Procs, Saving(p) \/ JobFails(p) PROVE CleanInv'
  <2>1. clean
    BY <1>1, <1>3 DEF Saving, Read, Open, Write, Rename, Finish, JobFails
  <2>2. QED
    BY <1>1, <1>3, <2>1, CleanSaving, CleanRename, CleanFinish DEF Saving
<1>4. CASE UNCHANGED vars
  BY <1>1, <1>4, CleanStays DEF CleanInv, vars, files
<1>5. QED
  BY <1>1, <1>2, <1>3, <1>4, CleanCrash DEF Next

\* When every save asked for was made, the file holds the last value asked for under
\* each key, across conversations (memory_store.py:18-22, edit_memory.py:95-121).
THEOREM MemoryLastNoteWins == Spec => []LastNoteWins
<1>1. ASSUME MInv, CleanInv PROVE LastNoteWins
  <2>1. SUFFICES ASSUME clean, \A p \in Procs : save[p].stage = "idle"
                 PROVE  Memory = latest
    BY DEF LastNoteWins, At
  <2>2. TInv /\ QueueInv
    BY <1>1 DEF MInv
  <2>3. \A k : ~Waits(k)
    BY <2>1, <2>2 DEF Waits, QueueInv, Queued, TInv, Procs
  <2>4. \A k : k \in DOMAIN latest <=> k \in DOMAIN Memory
    BY <1>1, <2>1, <2>3 DEF CleanInv
  <2>5. \A k \in DOMAIN latest : latest[k] = Memory[k]
    BY <1>1, <2>1, <2>3 DEF CleanInv, LastAsked, Waits
  <2>6. IsDoc(latest) /\ IsDoc(Memory)
    BY <2>2, MemoryIs, DocIs DEF TInv
  <2>7. QED
    BY <2>4, <2>5, <2>6 DEF IsDoc
<1>2. MInv /\ JobInv /\ CleanInv /\ [Next]_vars => CleanInv'
  BY CleanNext
<1>3. QED
  BY <1>1, <1>2, JobInductive, CleanInit, PTL DEF Spec

=============================================================================
