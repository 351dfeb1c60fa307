------------------------- MODULE TransactionalProofs -------------------------
(***************************************************************************)
(* Proofs about Transactional for any frames, connections and number of    *)
(* attempts.  The inductive invariant says which values the contexts of a  *)
(* frame hold in each phase, that a frame whose callers still wait sees    *)
(* only sessions of these callers, and where the writes and listeners of   *)
(* an attempt are.                                                         *)
(***************************************************************************)
EXTENDS Transactional, SequenceTheorems, NaturalsInduction, WellFoundedInduction, TLAPS

Working == {"body", "committing", "aborting"}

\* What the phase of a frame says about its session, its outcome and its hook.
FrameFits(f) ==
    /\ phase[f] = "idle" => kind[f] = "plain" /\ attempt[f] = 0 /\ restore[f] = None
    /\ phase[f] = "starting" => kind[f] = "txn" /\ attempt[f] = 0
    /\ phase[f] \notin {"idle", "starting", "done"} => attempt[f] > 0
    /\ phase[f] \notin {"idle", "body", "done"} => kind[f] = "txn"
    /\ kind[f] = "txn" /\ phase[f] \in Working => session[f] = "active"
    /\ session[f] = "active" => kind[f] = "txn" /\ phase[f] \in Working
    /\ committed[f] # 0 => phase[f] \in {"ending", "done"} /\ committed[f] = attempt[f]
    /\ session[f] = "committed" => committed[f] # 0
    /\ kind[f] # "plain" /\ phase[f] # "done" => hook[f] = "open"
    /\ hook[f] \in {"commit", "rollback", "emitted"} => phase[f] = "done"
    /\ hook[f] = "commit" /\ kind[f] = "txn" => committed[f] # 0
    /\ phase[f] = "body" =>
         /\ prop[f] \in {"REQUIRED", "MANDATORY"} => ScopeOf(f) # NoScope
         /\ prop[f] \in {"NEVER", "NOT_SUPPORTED"} => ScopeOf(f) = NoScope
    /\ kind[f] = "txn" => prop[f] = "REQUIRED"
    /\ restore[f] # None => prop[f] = "NOT_SUPPORTED"

\* What the contexts of a frame hold.
ContextFits(f) ==
    /\ \A cn \in Conns :
         /\ sessionIn[cn][HookCtx(f)] \in {Unset, None, f}
         /\ sessionIn[cn][HookCtx(f)] = f <=>
              kind[f] = "txn" /\ phase[f] = "body" /\ conn[f] = cn
         /\ sessionIn[cn][CallCtx(f)] # Unset => prop[f] = "NOT_SUPPORTED"
         /\ sessionIn[cn][CallCtx(f)] \notin {Unset, None} => phase[f] = "done"
         /\ phase[f] = "idle" => /\ sessionIn[cn][CallCtx(f)] = Unset
                                 /\ sessionIn[cn][HookCtx(f)] = Unset
         /\ phase[f] = "starting" => sessionIn[cn][HookCtx(f)] = Unset
    /\ hookIn[CallCtx(f)] = Unset
    /\ hookIn[HookCtx(f)] = IF kind[f] = "plain" THEN Unset ELSE f

\* The frames f was called under, and its own: their contexts are on its path.
Callers(above) == {c[1] : c \in above}

CallersFit(f) ==
    /\ \A c \in callers[f] : c[2] > 0 /\ c[2] <= attempt[c[1]]
    /\ \A i \in 1..Len(path[f]) : path[f][i][1] \in Callers(callers[f]) \union {f}
    /\ kind[f] # "plain" =>
         Len(path[f]) \in 1..Len(path[f]) /\ path[f][Len(path[f])] = HookCtx(f)

\* The session that an operation on connection cn would get in f's context.
Seen(cn, f) == Lookup(sessionIn[cn], path[f])

\* A frame whose callers wait runs in the transaction it sees, which is its own
\* or that of a caller, and its hook is the transaction's.
AttachedFits(f) ==
    phase[f] = "body" /\ Attached(f) =>
        /\ Seen(conn[f], f) = ScopeOf(f)[1]
        /\ kind[f] # "txn" => scope[f] = NoScope \/ scope[f] \in callers[f]
        /\ OneConnection(f) =>
             /\ ScopeOf(f) # NoScope => HookOf(f) = ScopeOf(f)[1]
             /\ ScopeOf(f) = NoScope /\ HookOf(f) # None => kind[HookOf(f)] = "hooked"

\* A write is in the database or waits in the session of its attempt, as far as
\* that attempt has come.
WriteFits(w) ==
    LET s == w.scope[1]
    IN  /\ w.scope = NoScope => w \in durable /\ \A t \in Frames : w \notin staged[t]
        /\ w.scope # NoScope =>
             /\ s \in Frames /\ kind[s] = "txn"
             /\ w.scope[2] > 0 /\ w.scope[2] <= attempt[s]
             /\ w \in durable <=> committed[s] = w.scope[2]
             /\ \A t \in Frames : w \in staged[t] <=>
                  t = s /\ w.scope[2] = attempt[s] /\ phase[s] \in Working

WritesFit ==
    /\ durable \subseteq wrote /\ \A s \in Frames : staged[s] \subseteq wrote
    /\ \A w \in wrote : w.attached => WriteFits(w)

\* Listeners of a transaction are on its own hook, and were called with its
\* outcome.
Ours(l) == l.attached /\ OneConnection(l.frame) /\ l.scope # NoScope

ListenersFit ==
    /\ \A h \in Frames : \A l \in listeners[h] :
         /\ phase[l.frame] # "idle"
         /\ Ours(l) => l.scope[1] = h /\ kind[h] = "txn"
    /\ \A l \in fired :
         /\ phase[l.frame] # "idle"
         /\ Ours(l) => /\ l.scope[1] \in Frames /\ hook[l.scope[1]] = "emitted"
                       /\ l.event = "commit" => committed[l.scope[1]] # 0
    /\ \A l, m \in fired : Ours(l) /\ Ours(m) /\ l.scope[1] = m.scope[1] =>
         ~(l.event = "commit" /\ m.event = "rollback")

IInv ==
    /\ TypeOK
    /\ \A f \in Frames : FrameFits(f)
    /\ \A f \in Frames : ContextFits(f)
    /\ \A f \in Frames : CallersFit(f)
    /\ \A f \in Frames : AttachedFits(f)
    /\ WritesFit /\ ListenersFit

-----------------------------------------------------------------------------
(* namespace.get along a path *)

LEMMA LastOf ==
  ASSUME NEW n \in Nat, NEW S \in SUBSET (1..n), S # {}
  PROVE  \E i \in S : \A j \in S : j <= i
<1>. DEFINE gaps == {n - i : i \in S}
<1>1. gaps \subseteq Nat /\ gaps # {}
  <2>1. \A i \in S : n - i \in Nat
    OBVIOUS
  <2>. QED  BY <2>1
<1>2. PICK g \in gaps : \A h \in gaps : <<h, g>> \notin OpToRel(<, Nat)
  <2>. HIDE DEF gaps
  <2>. QED  BY <1>1, NatLessThanWellFounded, WFMin
<1>3. PICK i \in S : g = n - i
  OBVIOUS
<1>4. ASSUME NEW j \in S PROVE j <= i
  <2>1. n - j \in gaps /\ n - j \in Nat /\ g \in Nat
    OBVIOUS
  <2>2. ~(n - j < g)
    <3>. HIDE DEF gaps
    <3>. QED  BY <1>2, <2>1 DEF OpToRel
  <2>. QED  BY <1>3, <2>2
<1>. QED  BY <1>4

\* Lookup finds the last context on the path that has a value of its own.
LEMMA LookupLast ==
  ASSUME NEW val, NEW p \in Seq(Contexts), NEW i \in 1..Len(p), val[p[i]] # Unset,
         \A j \in 1..Len(p) : val[p[j]] # Unset => j <= i
  PROVE  Lookup(val, p) = val[p[i]]
<1>. DEFINE own == {j \in 1..Len(p) : val[p[j]] # Unset}
<1>1. i \in own /\ \A j \in own : j <= i
  OBVIOUS
<1>2. \A k \in own : (\A j \in own : j <= k) => k = i
  BY <1>1
<1>3. (CHOOSE k \in own : \A j \in own : j <= k) = i
  <2>. HIDE DEF own
  <2>. QED  BY <1>1, <1>2
<1>4. own # {}
  BY <1>1
<1>. QED  BY <1>3, <1>4 DEF Lookup

LEMMA LookupFinds ==
  ASSUME NEW val, NEW p \in Seq(Contexts)
  PROVE  \/ /\ Lookup(val, p) = None
            /\ \A i \in 1..Len(p) : val[p[i]] = Unset
         \/ \E i \in 1..Len(p) :
              /\ val[p[i]] # Unset /\ Lookup(val, p) = val[p[i]]
              /\ \A j \in 1..Len(p) : val[p[j]] # Unset => j <= i
<1>1. CASE \A i \in 1..Len(p) : val[p[i]] = Unset
  BY <1>1 DEF Lookup
<1>2. CASE \E i \in 1..Len(p) : val[p[i]] # Unset
  <2>1. PICK S \in SUBSET (1..Len(p)) : S = {j \in 1..Len(p) : val[p[j]] # Unset}
    OBVIOUS
  <2>2. PICK i \in S : \A j \in S : j <= i
    <3>1. S # {} /\ Len(p) \in Nat
      BY <1>2, <2>1
    <3>. QED  BY <3>1, LastOf
  <2>3. i \in 1..Len(p) /\ val[p[i]] # Unset /\ \A j \in 1..Len(p) : val[p[j]] # Unset => j <= i
    BY <2>1, <2>2
  <2>4. Lookup(val, p) = val[p[i]]
    BY <2>3, LookupLast
  <2>. QED  BY <2>3, <2>4
<1>. QED  BY <1>1, <1>2

\* It depends on the contexts on the path only.
LEMMA LookupSame ==
  ASSUME NEW v1, NEW v2, NEW p \in Seq(Contexts),
         \A i \in 1..Len(p) : v1[p[i]] = v2[p[i]]
  PROVE  Lookup(v1, p) = Lookup(v2, p)
<1>1. CASE \A i \in 1..Len(p) : v1[p[i]] = Unset
  BY <1>1 DEF Lookup
<1>2. ASSUME NEW i \in 1..Len(p), v1[p[i]] # Unset, Lookup(v1, p) = v1[p[i]],
             \A j \in 1..Len(p) : v1[p[j]] # Unset => j <= i
      PROVE  Lookup(v1, p) = Lookup(v2, p)
  <2>1. v2[p[i]] # Unset /\ \A j \in 1..Len(p) : v2[p[j]] # Unset => j <= i
    BY <1>2
  <2>. QED  BY <1>2, <2>1, LookupLast
<1>. QED  BY <1>1, <1>2, LookupFinds

\* A context further down hides the ones above if it has a value.
LEMMA LookupBelow ==
  ASSUME NEW val, NEW p \in Seq(Contexts), NEW x \in Contexts
  PROVE  /\ Append(p, x) \in Seq(Contexts)
         /\ Lookup(val, Append(p, x)) = IF val[x] # Unset THEN val[x] ELSE Lookup(val, p)
<1>1. PICK q : q = Append(p, x)
  OBVIOUS
<1>2. /\ q \in Seq(Contexts)
      /\ Len(p) \in Nat /\ Len(q) = Len(p) + 1 /\ q[Len(q)] = x
      /\ \A i \in 1..Len(p) : q[i] = p[i]
  BY <1>1, AppendProperties
<1>3. Lookup(val, q) = IF val[x] # Unset THEN val[x] ELSE Lookup(val, p)
  <2>1. CASE val[x] # Unset
    <3>1. Len(q) \in 1..Len(q) /\ val[q[Len(q)]] # Unset
      BY <1>2, <2>1
    <3>. QED  BY <1>2, <2>1, <3>1, LookupLast
  <2>2. CASE val[x] = Unset
    <3>1. CASE \A i \in 1..Len(p) : val[p[i]] = Unset
      <4>1. \A i \in 1..Len(q) : val[q[i]] = Unset
        BY <1>2, <2>2, <3>1
      <4>. QED  BY <2>2, <3>1, <4>1 DEF Lookup
    <3>2. ASSUME NEW i \in 1..Len(p), val[p[i]] # Unset, Lookup(val, p) = val[p[i]],
                 \A j \in 1..Len(p) : val[p[j]] # Unset => j <= i
          PROVE  Lookup(val, q) = Lookup(val, p)
      <4>1. i \in 1..Len(q) /\ val[q[i]] # Unset /\ val[q[i]] = val[p[i]]
        BY <1>2, <3>2
      <4>2. \A j \in 1..Len(q) : val[q[j]] # Unset => j <= i
        <5>. SUFFICES ASSUME NEW j \in 1..Len(q), val[q[j]] # Unset PROVE j <= i
          OBVIOUS
        <5>1. j # Len(q)
          BY <1>2, <2>2
        <5>2. j \in 1..Len(p)
          BY <1>2, <5>1
        <5>. QED  BY <1>2, <3>2, <5>2
      <4>. QED  BY <1>2, <3>2, <4>1, <4>2, LookupLast
    <3>. QED  BY <2>2, <3>1, <3>2, LookupFinds
  <2>. QED  BY <2>1, <2>2
<1>. QED  BY <1>1, <1>2, <1>3

-----------------------------------------------------------------------------
(* Contexts and what a frame sees *)

LEMMA ContextParts ==
  /\ \A f \in Frames : /\ CallCtx(f) \in Contexts /\ HookCtx(f) \in Contexts
                       /\ CallCtx(f)[1] = f /\ HookCtx(f)[1] = f
                       /\ CallCtx(f) # HookCtx(f)
  /\ \A x \in Contexts : x[1] \in Frames /\ (x = CallCtx(x[1]) \/ x = HookCtx(x[1]))
BY DEF Contexts, CallCtx, HookCtx

\* A body whose callers wait sees no session but one of theirs, or its own, of
\* the connection it asks for.
LEMMA SeenIsOpen ==
  ASSUME IInv, NEW f \in Frames, NEW cn \in Conns, phase[f] = "body", Attached(f)
  PROVE  \/ Seen(cn, f) = None
         \/ /\ Seen(cn, f) \in Frames /\ kind[Seen(cn, f)] = "txn"
            /\ phase[Seen(cn, f)] = "body" /\ conn[Seen(cn, f)] = cn
            /\ Seen(cn, f) \in Callers(callers[f]) \union {f}
<1>1. path[f] \in Seq(Contexts)
  BY DEF IInv, TypeOK
<1>2. ASSUME NEW i \in 1..Len(path[f]), sessionIn[cn][path[f][i]] # Unset,
             Seen(cn, f) = sessionIn[cn][path[f][i]], Seen(cn, f) # None
      PROVE  /\ Seen(cn, f) \in Frames /\ kind[Seen(cn, f)] = "txn"
             /\ phase[Seen(cn, f)] = "body" /\ conn[Seen(cn, f)] = cn
             /\ Seen(cn, f) \in Callers(callers[f]) \union {f}
  <2>1. PICK x \in Contexts : x = path[f][i]
    BY <1>1, <1>2
  <2>2. PICK h \in Frames : h = x[1] /\ h \in Callers(callers[f]) \union {f}
    BY <1>2, <2>1, ContextParts DEF IInv, CallersFit
  <2>3. phase[h] = "body"
    BY <2>2 DEF Callers, Attached
  <2>4. x # CallCtx(h)
    BY <1>2, <2>1, <2>2, <2>3 DEF IInv, ContextFits
  <2>5. sessionIn[cn][HookCtx(h)] = h
    BY <1>2, <2>1, <2>2, <2>4, ContextParts DEF IInv, ContextFits
  <2>. QED  BY <1>2, <2>1, <2>2, <2>4, <2>5, ContextParts DEF IInv, ContextFits
<1>. QED  BY <1>1, <1>2, LookupFinds DEF Seen

LEMMA HookIsOwn ==
  ASSUME IInv, NEW f \in Frames
  PROVE  HookOf(f) # None => /\ HookOf(f) \in Frames /\ kind[HookOf(f)] # "plain"
                             /\ HookOf(f) \in Callers(callers[f]) \union {f}
<1>1. path[f] \in Seq(Contexts)
  BY DEF IInv, TypeOK
<1>2. ASSUME NEW i \in 1..Len(path[f]), hookIn[path[f][i]] # Unset,
             HookOf(f) = hookIn[path[f][i]]
      PROVE  /\ HookOf(f) \in Frames /\ kind[HookOf(f)] # "plain"
             /\ HookOf(f) \in Callers(callers[f]) \union {f}
  <2>1. PICK x \in Contexts : x = path[f][i]
    BY <1>1, <1>2
  <2>2. PICK h \in Frames : h = x[1] /\ h \in Callers(callers[f]) \union {f}
    BY <1>2, <2>1, ContextParts DEF IInv, CallersFit
  <2>. QED  BY <1>2, <2>1, <2>2, ContextParts DEF IInv, ContextFits
<1>. QED  BY <1>1, <1>2, LookupFinds DEF HookOf

-----------------------------------------------------------------------------
(* What a step of one frame leaves as it was *)

\* A step that starts or restarts a frame, or ends its body, changes nothing for
\* the frames whose callers wait: it is not under them, or they no longer wait.
LEMMA FramesElsewhere ==
  ASSUME IInv, NEW g \in Frames,
         \A f \in Frames \ {g} :
            /\ phase'[f] = phase[f] /\ kind'[f] = kind[f] /\ prop'[f] = prop[f]
            /\ conn'[f] = conn[f] /\ path'[f] = path[f] /\ callers'[f] = callers[f]
            /\ scope'[f] = scope[f] /\ attempt'[f] = attempt[f]
            /\ restore'[f] = restore[f] /\ session'[f] = session[f]
            /\ hook'[f] = hook[f] /\ committed'[f] = committed[f],
         \A x \in Contexts : x[1] # g =>
            /\ \A cn \in Conns : sessionIn'[cn][x] = sessionIn[cn][x]
            /\ hookIn'[x] = hookIn[x],
         attempt'[g] \in Nat, attempt'[g] >= attempt[g],
         phase[g] = "idle" \/ phase'[g] # "body" \/ attempt'[g] > attempt[g]
  PROVE  \A f \in Frames \ {g} : /\ FrameFits(f)' /\ ContextFits(f)'
                                 /\ CallersFit(f)' /\ AttachedFits(f)'
<1>. SUFFICES ASSUME NEW f \in Frames \ {g}
              PROVE  FrameFits(f)' /\ ContextFits(f)' /\ CallersFit(f)' /\ AttachedFits(f)'
  OBVIOUS
<1>1. FrameFits(f)'
  BY DEF IInv, FrameFits, ScopeOf
<1>2. ContextFits(f)'
  BY ContextParts DEF IInv, ContextFits
<1>3. \A c \in callers[f] : c[1] \in Frames /\ c[2] \in Nat /\ attempt[c[1]] \in Nat
  BY FramesAssumption DEF IInv, TypeOK
<1>4. CallersFit(f)'
  <2>1. \A c \in callers[f] : c[2] > 0 /\ c[2] <= attempt[c[1]]
    BY DEF IInv, CallersFit
  <2>2. \A c \in callers[f] : c[2] > 0 /\ c[2] <= attempt'[c[1]]
    BY <1>3, <2>1
  <2>. QED  BY <2>2 DEF IInv, CallersFit
<1>5. AttachedFits(f)'
  <2>. SUFFICES ASSUME phase[f] = "body", Attached(f)' PROVE AttachedFits(f)'
    BY DEF AttachedFits
  <2>1. \A c \in callers[f] : c[1] # g
    <3>. SUFFICES ASSUME NEW c \in callers[f], c[1] = g PROVE FALSE
      OBVIOUS
    <3>1. phase'[g] = "body" /\ attempt'[g] = c[2]
      BY DEF Attached
    <3>2. c[2] > 0 /\ c[2] <= attempt[g] /\ attempt[g] \in Nat
      BY <1>3 DEF IInv, CallersFit
    <3>. QED  BY <3>1, <3>2 DEF IInv, FrameFits
  <2>2. Attached(f) /\ (OneConnection(f)' <=> OneConnection(f))
    BY <1>3, <2>1 DEF Attached, OneConnection
  <2>3. path[f] \in Seq(Contexts) /\ conn[f] \in Conns
    BY DEF IInv, TypeOK
  <2>4. \A i \in 1..Len(path[f]) : path[f][i] \in Contexts /\ path[f][i][1] # g
    BY <2>1, <2>3 DEF IInv, CallersFit, Callers
  <2>5. Seen(conn[f], f)' = Seen(conn[f], f)
    BY <2>3, <2>4, LookupSame DEF Seen
  <2>6. HookOf(f)' = HookOf(f)
    BY <2>3, <2>4, LookupSame DEF HookOf
  <2>7. HookOf(f) # None => kind'[HookOf(f)] = kind[HookOf(f)]
    BY <2>1, HookIsOwn DEF Callers
  <2>8. ScopeOf(f)' = ScopeOf(f)
    BY DEF ScopeOf
  <2>. QED  BY <2>2, <2>5, <2>6, <2>7, <2>8 DEF IInv, AttachedFits
<1>. QED  BY <1>1, <1>2, <1>4, <1>5

\* A step that moves no write, of a frame that is not in an attempt, or stays in
\* it, or is out of it.
LEMMA WritesElsewhere ==
  ASSUME IInv, NEW g \in Frames, UNCHANGED <<staged, durable, wrote>>,
         \A f \in Frames \ {g} :
            /\ phase'[f] = phase[f] /\ kind'[f] = kind[f]
            /\ attempt'[f] = attempt[f] /\ committed'[f] = committed[f],
         \/ attempt[g] = 0
         \/ /\ kind'[g] = kind[g] /\ attempt'[g] = attempt[g]
            /\ committed'[g] = committed[g]
            /\ kind[g] = "txn" => (phase'[g] \in Working <=> phase[g] \in Working)
  PROVE  WritesFit'
<1>1. ASSUME NEW w \in wrote, w.attached PROVE WriteFits(w)'
  <2>1. WriteFits(w) /\ w.scope[2] \in Nat /\ attempt[g] \in Nat
    BY <1>1, FramesAssumption DEF IInv, WritesFit, TypeOK, WriteRecords, Scopes
  <2>2. w.scope # NoScope => w.scope[1] # g \/ attempt[g] # 0
    BY <2>1 DEF WriteFits
  <2>. QED  BY <2>1, <2>2 DEF WriteFits
<1>. QED  BY <1>1 DEF IInv, WritesFit

\* A step in which no listener comes, goes or is called.
LEMMA ListenersElsewhere ==
  ASSUME IInv, NEW g \in Frames, UNCHANGED <<listeners, fired>>,
         \A f \in Frames \ {g} :
            /\ phase'[f] = phase[f] /\ kind'[f] = kind[f] /\ conn'[f] = conn[f]
            /\ callers'[f] = callers[f] /\ hook'[f] = hook[f]
            /\ committed'[f] = committed[f],
         \/ phase[g] = "idle"
         \/ /\ phase'[g] # "idle" /\ kind'[g] = kind[g] /\ conn'[g] = conn[g]
            /\ callers'[g] = callers[g]
            /\ hook[g] = "emitted" => hook'[g] = "emitted"
            /\ committed[g] # 0 => committed'[g] # 0
  PROVE  ListenersFit'
<1>1. /\ \A h \in Frames : \A l \in listeners[h] : l.frame \in Frames /\ phase[l.frame] # "idle"
      /\ \A l \in fired : l.frame \in Frames /\ phase[l.frame] # "idle"
  BY DEF IInv, TypeOK, ListenerRecords, ListenersFit
<1>2. ASSUME NEW f \in Frames, phase[f] # "idle"
      PROVE  phase'[f] # "idle" /\ (OneConnection(f)' <=> OneConnection(f))
  <2>1. \A c \in callers[f] : c[1] \in Frames /\ phase[c[1]] # "idle"
    <3>. SUFFICES ASSUME NEW c \in callers[f] PROVE c[1] \in Frames /\ phase[c[1]] # "idle"
      OBVIOUS
    <3>1. c[1] \in Frames /\ c[2] > 0 /\ c[2] <= attempt[c[1]] /\ c[2] \in Nat
      BY FramesAssumption DEF IInv, TypeOK, CallersFit
    <3>. QED  BY <3>1 DEF IInv, FrameFits
  <2>2. callers'[f] = callers[f] /\ conn'[f] = conn[f]
        /\ \A c \in callers[f] : conn'[c[1]] = conn[c[1]]
    BY <1>2, <2>1
  <2>. QED  BY <1>2, <2>2 DEF OneConnection
<1>3. /\ \A h \in Frames : \A l \in listeners[h] : Ours(l)' <=> Ours(l)
      /\ \A l \in fired : Ours(l)' <=> Ours(l)
  BY <1>1, <1>2 DEF Ours
<1>4. \A h \in Frames : /\ kind[h] = "txn" => kind'[h] = "txn"
                        /\ hook[h] = "emitted" => hook'[h] = "emitted"
                        /\ hook[h] = "emitted" /\ committed[h] # 0 => committed'[h] # 0
  BY DEF IInv, FrameFits
<1>5. \A h \in Frames : \A l \in listeners'[h] :
         /\ phase'[l.frame] # "idle"
         /\ Ours(l)' => l.scope[1] = h /\ kind'[h] = "txn"
  BY <1>1, <1>2, <1>3, <1>4 DEF IInv, ListenersFit
<1>6. \A l \in fired' :
         /\ phase'[l.frame] # "idle"
         /\ Ours(l)' => /\ l.scope[1] \in Frames /\ hook'[l.scope[1]] = "emitted"
                        /\ l.event = "commit" => committed'[l.scope[1]] # 0
  BY <1>1, <1>2, <1>3, <1>4 DEF IInv, ListenersFit
<1>7. \A l, m \in fired' : Ours(l)' /\ Ours(m)' /\ l.scope[1] = m.scope[1] =>
         ~(l.event = "commit" /\ m.event = "rollback")
  BY <1>3 DEF IInv, ListenersFit
<1>. QED  BY <1>5, <1>6, <1>7 DEF ListenersFit

LEMMA InitHolds == Init => IInv
<1>. SUFFICES ASSUME Init PROVE IInv
  OBVIOUS
<1>1. (CHOOSE c \in Conns : TRUE) \in Conns
  BY FramesAssumption
<1>2. TypeOK
  <2>1. /\ conn \in [Frames -> Conns] /\ path \in [Frames -> Seq(Contexts)]
        /\ scope \in [Frames -> Scopes] /\ attempt \in [Frames -> 0..MaxAttempts]
        /\ committed \in [Frames -> 0..MaxAttempts]
    BY <1>1, FramesAssumption DEF Init, Scopes, FramesAndNone, NoScope
  <2>2. /\ sessionIn \in [Conns -> [Contexts -> FramesAndNone \union {Unset}]]
        /\ hookIn \in [Contexts -> Frames \union {Unset}]
        /\ restore \in [Frames -> FramesAndNone]
    BY DEF Init, FramesAndNone
  <2>3. /\ callers \in [Frames -> SUBSET (Frames \X (0..MaxAttempts))]
        /\ listeners \in [Frames -> SUBSET ListenerRecords]
        /\ staged \in [Frames -> SUBSET WriteRecords]
    BY DEF Init
  <2>. QED  BY <2>1, <2>2, <2>3 DEF Init, TypeOK
<1>3. \A f \in Frames : FrameFits(f)
  BY DEF Init, FrameFits
<1>4. \A f \in Frames : ContextFits(f)
  BY FramesAssumption, ContextParts DEF Init, ContextFits
<1>5. \A f \in Frames : CallersFit(f)
  <2>1. 1..Len(<<>>) = {}
    OBVIOUS
  <2>. QED  BY <2>1 DEF Init, CallersFit
<1>6. \A f \in Frames : AttachedFits(f)
  BY DEF Init, AttachedFits
<1>7. WritesFit /\ ListenersFit
  BY DEF Init, WritesFit, ListenersFit
<1>. QED  BY <1>2, <1>3, <1>4, <1>5, <1>6, <1>7 DEF IInv

-----------------------------------------------------------------------------
(* The call and its propagation *)

\* What a call finds on the path of its caller: the sessions and hooks of frames
\* in above, if these wait for it.
CallFits(p, above, cn) ==
    LET s == Lookup(sessionIn[cn], p)
        h == Lookup(hookIn, p)
    IN  /\ p \in Seq(Contexts) /\ above \subseteq Frames \X (0..MaxAttempts)
        /\ \A c \in above : c[2] > 0 /\ c[2] <= attempt[c[1]]
        /\ \A i \in 1..Len(p) : p[i][1] \in Callers(above)
        /\ (\A c \in above : phase[c[1]] = "body" /\ attempt[c[1]] = c[2]) =>
             /\ s # None => <<s, attempt[s]>> \in above
             /\ (\A c \in above : conn[c[1]] = cn) =>
                  /\ s # None => h = s
                  /\ s = None /\ h # None => h \in Callers(above) /\ kind[h] = "hooked"

LEMMA RootCall ==
  ASSUME NEW cn \in Conns
  PROVE  CallFits(<<>>, {}, cn)
<1>1. 1..Len(<<>>) = {} /\ \A val : Lookup(val, <<>>) = None
  <2>1. 1..Len(<<>>) = {}
    OBVIOUS
  <2>. QED  BY <2>1 DEF Lookup
<1>. QED  BY <1>1 DEF CallFits

LEMMA NestedCall ==
  ASSUME IInv, NEW g \in Frames, phase[g] = "body", NEW cn \in Conns
  PROVE  CallFits(path[g], callers[g] \union {<<g, attempt[g]>>}, cn)
<1>1. PICK above : above = callers[g] \union {<<g, attempt[g]>>}
  OBVIOUS
<1>2. /\ path[g] \in Seq(Contexts) /\ above \subseteq Frames \X (0..MaxAttempts)
      /\ attempt[g] > 0 /\ attempt[g] \in Nat
  <2>1. path[g] \in Seq(Contexts) /\ attempt[g] \in 0..MaxAttempts /\ MaxAttempts \in Nat
        /\ callers[g] \subseteq Frames \X (0..MaxAttempts)
    BY FramesAssumption DEF IInv, TypeOK
  <2>2. attempt[g] > 0
    BY DEF IInv, FrameFits
  <2>. QED  BY <1>1, <2>1, <2>2
<1>3. \A c \in above : c[2] > 0 /\ c[2] <= attempt[c[1]]
  BY <1>1, <1>2 DEF IInv, CallersFit
<1>4. Callers(above) = Callers(callers[g]) \union {g}
  <2>1. \A c \in above : c[1] \in Callers(callers[g]) \union {g}
    BY <1>1 DEF Callers
  <2>2. \A h \in Callers(callers[g]) : h \in Callers(above)
    BY <1>1 DEF Callers
  <2>3. <<g, attempt[g]>> \in above /\ <<g, attempt[g]>>[1] = g
    BY <1>1
  <2>. QED  BY <2>1, <2>2, <2>3 DEF Callers
<1>5. \A i \in 1..Len(path[g]) : path[g][i][1] \in Callers(above)
  BY <1>4 DEF IInv, CallersFit
<1>6. ASSUME \A c \in above : phase[c[1]] = "body" /\ attempt[c[1]] = c[2]
      PROVE  /\ Seen(cn, g) # None => <<Seen(cn, g), attempt[Seen(cn, g)]>> \in above
             /\ (\A c \in above : conn[c[1]] = cn) =>
                  /\ Seen(cn, g) # None => HookOf(g) = Seen(cn, g)
                  /\ Seen(cn, g) = None /\ HookOf(g) # None =>
                       HookOf(g) \in Callers(above) /\ kind[HookOf(g)] = "hooked"
  <2>1. Attached(g)
    BY <1>1, <1>6 DEF Attached
  <2>2. ASSUME Seen(cn, g) # None
        PROVE  <<Seen(cn, g), attempt[Seen(cn, g)]>> \in above
    <3>1. PICK c \in above : c[1] = Seen(cn, g)
      BY <1>4, <2>1, <2>2, SeenIsOpen DEF Callers
    <3>2. c = <<c[1], c[2]>>
      BY <1>2
    <3>. QED  BY <1>6, <3>1, <3>2
  <2>3. ASSUME \A c \in above : conn[c[1]] = cn
        PROVE  /\ Seen(cn, g) # None => HookOf(g) = Seen(cn, g)
               /\ Seen(cn, g) = None /\ HookOf(g) # None =>
                    HookOf(g) \in Callers(above) /\ kind[HookOf(g)] = "hooked"
    <3>1. conn[g] = cn /\ OneConnection(g)
      <4>1. <<g, attempt[g]>> \in above /\ <<g, attempt[g]>>[1] = g
        BY <1>1
      <4>2. conn[g] = cn
        BY <2>3, <4>1
      <4>. QED  BY <1>1, <2>3, <4>2 DEF OneConnection
    <3>2. Seen(cn, g) = ScopeOf(g)[1]
      BY <2>1, <3>1 DEF IInv, AttachedFits
    <3>3. ScopeOf(g) = NoScope <=> Seen(cn, g) = None
      <4>1. ScopeOf(g) # NoScope => ScopeOf(g)[1] \in Frames
        BY <1>2, <1>1, <2>1 DEF IInv, AttachedFits, ScopeOf
      <4>. QED  BY <3>2, <4>1, FramesAssumption DEF NoScope
    <3>. QED  BY <1>4, <2>1, <3>1, <3>2, <3>3, HookIsOwn DEF IInv, AttachedFits
  <2>. QED  BY <2>2, <2>3
<1>. QED  BY <1>1, <1>2, <1>3, <1>5, <1>6 DEF CallFits, Seen, HookOf

LEMMA ConcatAppends ==
  ASSUME NEW S, NEW p \in Seq(S), NEW a \in S, NEW b \in S
  PROVE  p \o <<a>> = Append(p, a) /\ p \o <<a, b>> = Append(Append(p, a), b)
<1>1. <<a>> \in Seq(S) /\ <<a, b>> \in Seq(S) /\ Len(p) \in Nat
  OBVIOUS
<1>2. p \o <<a>> = Append(p, a)
  <2>1. Len(p \o <<a>>) = Len(Append(p, a)) /\ p \o <<a>> \in Seq(S) /\ Append(p, a) \in Seq(S)
    BY <1>1, ConcatProperties, AppendProperties
  <2>2. \A i \in 1..Len(p \o <<a>>) : (p \o <<a>>)[i] = Append(p, a)[i]
    BY <1>1, ConcatProperties, AppendProperties
  <2>. QED  BY <2>1, <2>2, SeqEqual
<1>3. p \o <<a, b>> = Append(Append(p, a), b)
  <2>1. PICK q \in Seq(S) : q = Append(p, a)
    BY AppendProperties
  <2>2. Len(q) = Len(p) + 1 /\ q[Len(q)] = a /\ \A i \in 1..Len(p) : q[i] = p[i]
    BY <2>1, AppendProperties
  <2>3. PICK r \in Seq(S) : r = Append(q, b)
    BY AppendProperties
  <2>4. Len(r) = Len(q) + 1 /\ r[Len(r)] = b /\ \A i \in 1..Len(q) : r[i] = q[i]
    BY <2>3, AppendProperties
  <2>5. PICK t \in Seq(S) : t = p \o <<a, b>>
    BY <1>1, ConcatProperties
  <2>6. Len(t) = Len(p) + 2 /\ t[Len(p) + 1] = a /\ t[Len(p) + 2] = b
        /\ \A i \in 1..Len(p) : t[i] = p[i]
    BY <1>1, <2>5, ConcatProperties
  <2>7. \A i \in 1..Len(t) : t[i] = r[i]
    BY <1>1, <2>2, <2>4, <2>6
  <2>8. t = r
    BY <1>1, <2>2, <2>4, <2>6, <2>7, SeqEqual
  <2>. QED  BY <2>1, <2>3, <2>5, <2>8
<1>. QED  BY <1>2, <1>3

\* The contexts of a call on its path, and what is found there.
LEMMA NewPath ==
  ASSUME NEW p \in Seq(Contexts), NEW f \in Frames
  PROVE  \E here, deep \in Seq(Contexts) :
           /\ here = p \o <<CallCtx(f)>> /\ deep = p \o <<CallCtx(f), HookCtx(f)>>
           /\ here = Append(p, CallCtx(f)) /\ deep = Append(here, HookCtx(f))
           /\ \A i \in 1..Len(here) : here[i][1] = f \/ (i \in 1..Len(p) /\ here[i] = p[i])
           /\ \A i \in 1..Len(deep) : deep[i][1] = f \/ (i \in 1..Len(p) /\ deep[i] = p[i])
           /\ Len(deep) \in 1..Len(deep) /\ deep[Len(deep)] = HookCtx(f)
<1>0. PICK here, deep : here = p \o <<CallCtx(f)>> /\ deep = p \o <<CallCtx(f), HookCtx(f)>>
  OBVIOUS
<1>1. here = Append(p, CallCtx(f)) /\ deep = Append(here, HookCtx(f))
  BY <1>0, ContextParts, ConcatAppends
<1>2. here \in Seq(Contexts) /\ deep \in Seq(Contexts)
  BY <1>1, ContextParts, AppendProperties
<1>3. /\ Len(p) \in Nat /\ Len(here) = Len(p) + 1 /\ here[Len(here)] = CallCtx(f)
      /\ \A i \in 1..Len(p) : here[i] = p[i]
  BY <1>1, ContextParts, AppendProperties
<1>4. /\ Len(deep) = Len(here) + 1 /\ deep[Len(deep)] = HookCtx(f)
      /\ \A i \in 1..Len(here) : deep[i] = here[i]
  BY <1>1, <1>2, ContextParts, AppendProperties
<1>5. \A i \in 1..Len(here) : here[i][1] = f \/ (i \in 1..Len(p) /\ here[i] = p[i])
  BY <1>3, ContextParts
<1>6. \A i \in 1..Len(deep) : deep[i][1] = f \/ (i \in 1..Len(p) /\ deep[i] = p[i])
  BY <1>3, <1>4, <1>5, ContextParts
<1>7. Len(deep) \in 1..Len(deep)
  BY <1>3, <1>4
<1>. QED  BY <1>0, <1>1, <1>2, <1>4, <1>5, <1>6, <1>7

\* What is found there: a value of its own, or what its caller finds.
LEMMA NewLookup ==
  ASSUME NEW p \in Seq(Contexts), NEW f \in Frames, NEW val
  PROVE  /\ Lookup(val, p \o <<CallCtx(f)>>) =
              IF val[CallCtx(f)] # Unset THEN val[CallCtx(f)] ELSE Lookup(val, p)
         /\ Lookup(val, p \o <<CallCtx(f), HookCtx(f)>>) =
              IF val[HookCtx(f)] # Unset THEN val[HookCtx(f)]
              ELSE IF val[CallCtx(f)] # Unset THEN val[CallCtx(f)] ELSE Lookup(val, p)
<1>1. PICK here, deep \in Seq(Contexts) :
         /\ here = p \o <<CallCtx(f)>> /\ deep = p \o <<CallCtx(f), HookCtx(f)>>
         /\ here = Append(p, CallCtx(f)) /\ deep = Append(here, HookCtx(f))
  BY NewPath
<1>3. CallCtx(f) \in Contexts /\ HookCtx(f) \in Contexts
  BY ContextParts
<1>4. Lookup(val, Append(p, CallCtx(f))) =
        IF val[CallCtx(f)] # Unset THEN val[CallCtx(f)] ELSE Lookup(val, p)
  BY <1>3, LookupBelow
<1>5. Lookup(val, Append(here, HookCtx(f))) =
        IF val[HookCtx(f)] # Unset THEN val[HookCtx(f)] ELSE Lookup(val, here)
  BY <1>1, <1>3, LookupBelow
<1>. QED  BY <1>1, <1>4, <1>5

\* Every branch of the switch: the frame is no longer idle, and no other frame,
\* nor a context of one, has changed.
LEMMA PropagateElsewhere ==
  ASSUME IInv, NEW f \in Frames, phase[f] = "idle", NEW p, NEW above, NEW pr,
         NEW cn \in Conns, CallFits(p, above, cn), Propagate(f, p, above, pr, cn),
         UNCHANGED <<session, dbVars, listeners, fired>>
  PROVE  /\ \A g \in Frames \ {f} :
               /\ phase'[g] = phase[g] /\ kind'[g] = kind[g] /\ prop'[g] = prop[g]
               /\ conn'[g] = conn[g] /\ path'[g] = path[g] /\ callers'[g] = callers[g]
               /\ scope'[g] = scope[g] /\ attempt'[g] = attempt[g]
               /\ restore'[g] = restore[g] /\ session'[g] = session[g]
               /\ hook'[g] = hook[g] /\ committed'[g] = committed[g]
         /\ \A x \in Contexts : x[1] # f =>
               /\ \A c \in Conns : sessionIn'[c][x] = sessionIn[c][x]
               /\ hookIn'[x] = hookIn[x]
         /\ prop'[f] = pr /\ conn'[f] = cn /\ callers'[f] = above
         /\ attempt'[f] \in {0, 1}
<1>1. /\ prop' = [prop EXCEPT ![f] = pr] /\ conn' = [conn EXCEPT ![f] = cn]
      /\ callers' = [callers EXCEPT ![f] = above]
      /\ \E q : path' = [path EXCEPT ![f] = q]
      /\ \E t : scope' = [scope EXCEPT ![f] = t]
  BY DEF Propagate, Enter
<1>2. /\ \E v : phase' = [phase EXCEPT ![f] = v]
      /\ kind' = kind \/ \E v : kind' = [kind EXCEPT ![f] = v]
      /\ hook' = hook \/ \E v : hook' = [hook EXCEPT ![f] = v]
      /\ restore' = restore \/ \E v : restore' = [restore EXCEPT ![f] = v]
      /\ attempt' = attempt \/ attempt' = [attempt EXCEPT ![f] = 1]
      /\ sessionIn' = sessionIn \/ sessionIn' = [sessionIn EXCEPT ![cn][CallCtx(f)] = None]
      /\ hookIn' = hookIn \/ hookIn' = [hookIn EXCEPT ![HookCtx(f)] = f]
  BY DEF Propagate, RunOriginal, RunWithNewHook, RunWithNewTransaction, Throw, Suspend
<1>3. attempt[f] = 0
  BY DEF IInv, FrameFits
<1>4. /\ attempt \in [Frames -> 0..MaxAttempts]
      /\ sessionIn \in [Conns -> [Contexts -> FramesAndNone \union {Unset}]]
      /\ hookIn \in [Contexts -> Frames \union {Unset}]
      /\ conn \in [Frames -> Conns] /\ callers \in [Frames -> SUBSET (Frames \X (0..MaxAttempts))]
  BY DEF IInv, TypeOK
<1>5. \A g \in Frames \ {f} :
         /\ phase'[g] = phase[g] /\ kind'[g] = kind[g] /\ prop'[g] = prop[g]
         /\ conn'[g] = conn[g] /\ path'[g] = path[g] /\ callers'[g] = callers[g]
         /\ scope'[g] = scope[g] /\ attempt'[g] = attempt[g]
         /\ restore'[g] = restore[g] /\ session'[g] = session[g]
         /\ hook'[g] = hook[g] /\ committed'[g] = committed[g]
  <2>1. /\ DOMAIN phase = Frames /\ DOMAIN kind = Frames /\ DOMAIN prop = Frames
        /\ DOMAIN path = Frames /\ DOMAIN scope = Frames /\ DOMAIN restore = Frames
        /\ DOMAIN hook = Frames /\ DOMAIN conn = Frames /\ DOMAIN callers = Frames
        /\ DOMAIN attempt = Frames
    BY DEF IInv, TypeOK
  <2>. SUFFICES ASSUME NEW g \in Frames \ {f}
                PROVE  /\ phase'[g] = phase[g] /\ kind'[g] = kind[g] /\ prop'[g] = prop[g]
                       /\ conn'[g] = conn[g] /\ path'[g] = path[g]
                       /\ callers'[g] = callers[g] /\ scope'[g] = scope[g]
                       /\ attempt'[g] = attempt[g] /\ restore'[g] = restore[g]
                       /\ session'[g] = session[g] /\ hook'[g] = hook[g]
                       /\ committed'[g] = committed[g]
    OBVIOUS
  <2>2. prop'[g] = prop[g] /\ conn'[g] = conn[g] /\ path'[g] = path[g]
        /\ callers'[g] = callers[g] /\ scope'[g] = scope[g]
    BY <1>1, <2>1
  <2>3. phase'[g] = phase[g] /\ kind'[g] = kind[g] /\ hook'[g] = hook[g]
        /\ restore'[g] = restore[g] /\ attempt'[g] = attempt[g]
    BY <1>2, <2>1
  <2>. QED  BY <2>2, <2>3 DEF dbVars
<1>6. \A x \in Contexts : x[1] # f =>
         /\ \A c \in Conns : sessionIn'[c][x] = sessionIn[c][x]
         /\ hookIn'[x] = hookIn[x]
  <2>. SUFFICES ASSUME NEW x \in Contexts, x[1] # f
                PROVE  /\ \A c \in Conns : sessionIn'[c][x] = sessionIn[c][x]
                       /\ hookIn'[x] = hookIn[x]
    OBVIOUS
  <2>1. x # CallCtx(f) /\ x # HookCtx(f)
    BY ContextParts
  <2>2. hookIn'[x] = hookIn[x]
    BY <1>2, <1>4, <2>1
  <2>3. \A c \in Conns : sessionIn'[c][x] = sessionIn[c][x]
    BY <1>2, <1>4, <2>1
  <2>. QED  BY <2>2, <2>3
<1>7. prop'[f] = pr /\ conn'[f] = cn /\ callers'[f] = above /\ attempt'[f] \in {0, 1}
  <2>1. DOMAIN prop = Frames
    BY DEF IInv, TypeOK
  <2>2. prop'[f] = pr /\ conn'[f] = cn /\ callers'[f] = above
    BY <1>1, <1>4, <2>1
  <2>3. attempt'[f] \in {0, 1}
    BY <1>2, <1>3, <1>4
  <2>. QED  BY <2>2, <2>3
<1>. QED  BY <1>5, <1>6, <1>7

LEMMA PropagateTypes ==
  ASSUME IInv, NEW f \in Frames, phase[f] = "idle", NEW p, NEW above, NEW pr \in Propagations,
         NEW cn \in Conns, CallFits(p, above, cn), Propagate(f, p, above, pr, cn),
         UNCHANGED <<session, dbVars, listeners, fired>>
  PROVE  TypeOK'
<1>1. p \in Seq(Contexts) /\ above \subseteq Frames \X (0..MaxAttempts)
  BY DEF CallFits
<1>2. PICK here, deep \in Seq(Contexts) :
         here = p \o <<CallCtx(f)>> /\ deep = p \o <<CallCtx(f), HookCtx(f)>>
  BY <1>1, NewPath
<1>3. here \in Seq(Contexts) /\ deep \in Seq(Contexts)
  OBVIOUS
<1>4. PICK cur : cur = Lookup(sessionIn[cn], p)
  OBVIOUS
<1>5. cur \in FramesAndNone
  <2>1. PICK val : val = sessionIn[cn]
    OBVIOUS
  <2>2. val \in [Contexts -> FramesAndNone \union {Unset}]
    BY <2>1 DEF IInv, TypeOK
  <2>3. \A i \in 1..Len(p) : val[p[i]] # Unset => val[p[i]] \in FramesAndNone
    BY <1>1, <2>2
  <2>. QED  BY <1>1, <1>4, <2>1, <2>3, LookupFinds DEF FramesAndNone
<1>6. /\ prop' = [prop EXCEPT ![f] = pr] /\ conn' = [conn EXCEPT ![f] = cn]
      /\ callers' = [callers EXCEPT ![f] = above]
      /\ path' = [path EXCEPT ![f] = here] \/ path' = [path EXCEPT ![f] = deep]
      /\ \/ scope' = [scope EXCEPT ![f] = NoScope]
         \/ cur \in Frames /\ scope' = [scope EXCEPT ![f] = <<cur, attempt[cur]>>]
  BY <1>2, <1>4, <1>5 DEF Propagate, Enter, FramesAndNone
<1>7. /\ \E v \in {"done", "body", "starting"} : phase' = [phase EXCEPT ![f] = v]
      /\ kind' = kind \/ \E v \in {"hooked", "txn"} : kind' = [kind EXCEPT ![f] = v]
      /\ hook' = hook \/ hook' = [hook EXCEPT ![f] = "open"]
      /\ restore' = restore \/ restore' = [restore EXCEPT ![f] = cur]
      /\ attempt' = attempt \/ attempt' = [attempt EXCEPT ![f] = 1]
      /\ sessionIn' = sessionIn \/ sessionIn' = [sessionIn EXCEPT ![cn][CallCtx(f)] = None]
      /\ hookIn' = hookIn \/ hookIn' = [hookIn EXCEPT ![HookCtx(f)] = f]
  BY <1>4 DEF Propagate, RunOriginal, RunWithNewHook, RunWithNewTransaction, Throw, Suspend
<1>8. /\ NoScope \in Scopes /\ \A h \in Frames : <<h, attempt[h]>> \in Scopes
      /\ 1 \in 0..MaxAttempts
  BY FramesAssumption DEF NoScope, Scopes, FramesAndNone, IInv, TypeOK
<1>9. /\ prop' \in [Frames -> {"MANDATORY", "NEVER", "NOT_SUPPORTED", "REQUIRED", "SUPPORTS"}]
      /\ conn' \in [Frames -> Conns] /\ path' \in [Frames -> Seq(Contexts)]
      /\ callers' \in [Frames -> SUBSET (Frames \X (0..MaxAttempts))]
      /\ scope' \in [Frames -> Scopes]
  <2>1. pr \in {"MANDATORY", "NEVER", "NOT_SUPPORTED", "REQUIRED", "SUPPORTS"}
    BY FramesAssumption
  <2>2. prop' \in [Frames -> {"MANDATORY", "NEVER", "NOT_SUPPORTED", "REQUIRED", "SUPPORTS"}]
    BY <1>6, <2>1 DEF IInv, TypeOK
  <2>3. /\ conn' \in [Frames -> Conns]
        /\ callers' \in [Frames -> SUBSET (Frames \X (0..MaxAttempts))]
    BY <1>1, <1>6 DEF IInv, TypeOK
  <2>4. path' \in [Frames -> Seq(Contexts)]
    BY <1>3, <1>6 DEF IInv, TypeOK
  <2>5. scope' \in [Frames -> Scopes]
    BY <1>6, <1>8 DEF IInv, TypeOK
  <2>. QED  BY <2>2, <2>3, <2>4, <2>5
<1>10. /\ phase' \in [Frames -> {"idle", "starting", "body", "committing", "aborting", "ending",
                                 "done"}]
       /\ kind' \in [Frames -> {"plain", "hooked", "txn"}]
       /\ hook' \in [Frames -> {"none", "open", "commit", "rollback", "emitted"}]
       /\ restore' \in [Frames -> FramesAndNone]
       /\ attempt' \in [Frames -> 0..MaxAttempts]
  <2>1. phase' \in [Frames -> {"idle", "starting", "body", "committing", "aborting", "ending",
                               "done"}]
    BY <1>7 DEF IInv, TypeOK
  <2>2. kind' \in [Frames -> {"plain", "hooked", "txn"}]
    BY <1>7 DEF IInv, TypeOK
  <2>3. hook' \in [Frames -> {"none", "open", "commit", "rollback", "emitted"}]
    BY <1>7 DEF IInv, TypeOK
  <2>4. restore' \in [Frames -> FramesAndNone]
    <3>1. restore \in [Frames -> FramesAndNone]
      BY DEF IInv, TypeOK
    <3>2. restore' = restore \/ restore' = [restore EXCEPT ![f] = cur]
      BY <1>7
    <3>. QED  BY <1>5, <3>1, <3>2
  <2>5. attempt' \in [Frames -> 0..MaxAttempts]
    BY <1>7, <1>8 DEF IInv, TypeOK
  <2>. QED  BY <2>1, <2>2, <2>3, <2>4, <2>5
<1>11. /\ sessionIn' \in [Conns -> [Contexts -> FramesAndNone \union {Unset}]]
       /\ hookIn' \in [Contexts -> Frames \union {Unset}]
  <2>1. /\ sessionIn \in [Conns -> [Contexts -> FramesAndNone \union {Unset}]]
        /\ hookIn \in [Contexts -> Frames \union {Unset}]
        /\ None \in FramesAndNone
    BY DEF IInv, TypeOK, FramesAndNone
  <2>2. sessionIn' \in [Conns -> [Contexts -> FramesAndNone \union {Unset}]]
    <3>1. CASE sessionIn' = sessionIn
      BY <2>1, <3>1
    <3>2. CASE sessionIn' = [sessionIn EXCEPT ![cn][CallCtx(f)] = None]
      BY <2>1, <3>2
    <3>. QED  BY <1>7, <3>1, <3>2
  <2>3. hookIn' \in [Contexts -> Frames \union {Unset}]
    BY <1>7, <2>1
  <2>. QED  BY <2>2, <2>3
<1>. QED  BY <1>9, <1>10, <1>11 DEF IInv, TypeOK, dbVars

LEMMA PropagateKeeps ==
  ASSUME IInv, NEW f \in Frames, phase[f] = "idle", NEW p, NEW above, NEW pr \in Propagations,
         NEW cn \in Conns, CallFits(p, above, cn), Propagate(f, p, above, pr, cn),
         UNCHANGED <<session, dbVars, listeners, fired>>
  PROVE  IInv'
<1>1. PICK here, deep \in Seq(Contexts) :
         /\ here = p \o <<CallCtx(f)>> /\ deep = p \o <<CallCtx(f), HookCtx(f)>>
         /\ \A i \in 1..Len(here) : here[i][1] = f \/ (i \in 1..Len(p) /\ here[i] = p[i])
         /\ \A i \in 1..Len(deep) : deep[i][1] = f \/ (i \in 1..Len(p) /\ deep[i] = p[i])
         /\ Len(deep) \in 1..Len(deep) /\ deep[Len(deep)] = HookCtx(f)
  BY NewPath DEF CallFits
<1>2. PICK cur, h : cur = Lookup(sessionIn[cn], p) /\ h = Lookup(hookIn, p)
  OBVIOUS
<1>3. attempt[f] = 0 /\ f \notin Callers(above)
  <2>1. attempt[f] = 0
    BY DEF IInv, FrameFits
  <2>2. \A c \in above : c[1] \in Frames /\ c[2] \in Nat /\ c[2] > 0 /\ c[2] <= attempt[c[1]]
    BY FramesAssumption DEF CallFits
  <2>. QED  BY <2>1, <2>2 DEF Callers
<1>4. p \in Seq(Contexts) /\ \A i \in 1..Len(p) : p[i] \in Contexts /\ p[i][1] \in Callers(above)
  BY DEF CallFits
<1>5. /\ phase \in [Frames -> {"idle", "starting", "body", "committing", "aborting", "ending",
                               "done"}]
      /\ kind \in [Frames -> {"plain", "hooked", "txn"}] /\ kind[f] = "plain"
      /\ path \in [Frames -> Seq(Contexts)] /\ scope \in [Frames -> Scopes]
      /\ attempt \in [Frames -> 0..MaxAttempts] /\ restore \in [Frames -> FramesAndNone]
      /\ restore[f] = None /\ committed[f] = 0
      /\ session[f] # "committed" /\ session[f] # "active"
      /\ hook \in [Frames -> {"none", "open", "commit", "rollback", "emitted"}]
      /\ hook[f] \notin {"commit", "rollback", "emitted"}
  BY DEF IInv, TypeOK, FrameFits
<1>6. /\ sessionIn \in [Conns -> [Contexts -> FramesAndNone \union {Unset}]]
      /\ hookIn \in [Contexts -> Frames \union {Unset}]
      /\ hookIn[CallCtx(f)] = Unset /\ hookIn[HookCtx(f)] = Unset
      /\ \A c \in Conns : sessionIn[c][CallCtx(f)] = Unset /\ sessionIn[c][HookCtx(f)] = Unset
  BY <1>5 DEF IInv, TypeOK, ContextFits
<1>7. /\ prop'[f] = pr /\ conn'[f] = cn /\ callers'[f] = above
      /\ committed'[f] = 0 /\ session'[f] = session[f]
  BY <1>5, PropagateElsewhere DEF dbVars
<1>8. \* Throw
      \/ /\ phase'[f] = "done" /\ kind'[f] = "plain" /\ path'[f] = here
         /\ scope'[f] = NoScope /\ restore'[f] = None /\ hook'[f] = hook[f]
         /\ UNCHANGED ctxVars
      \* RunOriginal
      \/ /\ phase'[f] = "body" /\ kind'[f] = "plain" /\ path'[f] = here
         /\ attempt'[f] = 1 /\ restore'[f] = None /\ hook'[f] = hook[f]
         /\ UNCHANGED ctxVars
         /\ scope'[f] = IF cur = None THEN NoScope ELSE <<cur, attempt[cur]>>
         /\ pr \in {"REQUIRED", "MANDATORY"} => cur # None
         /\ pr \in {"NEVER", "NOT_SUPPORTED"} => cur = None
      \* RunWithNewHook
      \/ /\ phase'[f] = "body" /\ kind'[f] = "hooked" /\ path'[f] = deep
         /\ attempt'[f] = 1 /\ hook'[f] = "open" /\ scope'[f] = NoScope
         /\ hookIn' = [hookIn EXCEPT ![HookCtx(f)] = f]
         /\ pr \notin {"REQUIRED", "MANDATORY"}
         /\ \/ cur = None /\ sessionIn' = sessionIn /\ restore'[f] = None
            \/ /\ sessionIn' = [sessionIn EXCEPT ![cn][CallCtx(f)] = None]
               /\ pr = "NOT_SUPPORTED"
      \* RunWithNewTransaction
      \/ /\ phase'[f] = "starting" /\ kind'[f] = "txn" /\ path'[f] = deep
         /\ attempt'[f] = 0 /\ hook'[f] = "open" /\ restore'[f] = None
         /\ hookIn' = [hookIn EXCEPT ![HookCtx(f)] = f] /\ sessionIn' = sessionIn
         /\ pr = "REQUIRED"
  BY <1>1, <1>2, <1>3, <1>5
     DEF Propagate, Enter, RunOriginal, RunWithNewHook, RunWithNewTransaction, Throw,
         Suspend, ctxVars
<1>9. FrameFits(f)'
  <2>1. cur # None => <<cur, attempt[cur]>> # NoScope
    BY DEF NoScope
  <2>2. /\ phase'[f] \in {"body", "starting", "done"} /\ hook'[f] \in {hook[f], "open"}
        /\ phase'[f] = "starting" => kind'[f] = "txn" /\ attempt'[f] = 0
        /\ phase'[f] = "body" => kind'[f] # "txn" /\ attempt'[f] > 0
        /\ kind'[f] # "plain" => hook'[f] = "open"
        /\ phase'[f] = "done" => kind'[f] = "plain"
        /\ restore'[f] # None => prop'[f] = "NOT_SUPPORTED"
        /\ kind'[f] = "txn" => prop'[f] = "REQUIRED"
    BY <1>7, <1>8
  <2>3. phase'[f] = "body" =>
          /\ prop'[f] \in {"REQUIRED", "MANDATORY"} => scope'[f] # NoScope
          /\ prop'[f] \in {"NEVER", "NOT_SUPPORTED"} => scope'[f] = NoScope
    BY <1>7, <1>8, <2>1
  <2>. QED  BY <1>5, <1>7, <2>2, <2>3 DEF FrameFits, ScopeOf, Working
<1>10. ContextFits(f)'
  <2>1. /\ hookIn'[CallCtx(f)] = Unset
        /\ hookIn'[HookCtx(f)] = IF kind'[f] = "plain" THEN Unset ELSE f
    BY <1>6, <1>8, ContextParts DEF ctxVars
  <2>2. \A c \in Conns : /\ sessionIn'[c][HookCtx(f)] = Unset
                         /\ sessionIn'[c][CallCtx(f)] \in {Unset, None}
                         /\ sessionIn'[c][CallCtx(f)] # Unset => pr = "NOT_SUPPORTED"
    BY <1>6, <1>8, ContextParts DEF ctxVars
  <2>3. /\ phase'[f] # "idle"
        /\ ~(kind'[f] = "txn" /\ phase'[f] = "body")
    BY <1>8
  <2>. QED  BY <1>7, <2>1, <2>2, <2>3, FramesAssumption DEF ContextFits
<1>11. CallersFit(f)'
  <2>1. \A c \in above : c[1] \in Frames \ {f}
    BY <1>3 DEF CallFits, Callers
  <2>2. \A c \in above : c[2] > 0 /\ c[2] <= attempt'[c[1]]
    BY <2>1, PropagateElsewhere DEF CallFits
  <2>3. /\ \A i \in 1..Len(here) : here[i][1] \in Callers(above) \union {f}
        /\ \A i \in 1..Len(deep) : deep[i][1] \in Callers(above) \union {f}
        /\ Len(deep) \in 1..Len(deep) /\ deep[Len(deep)] = HookCtx(f)
    BY <1>1, <1>4
  <2>4. path'[f] = deep \/ (path'[f] = here /\ kind'[f] = "plain")
    BY <1>8
  <2>. QED  BY <1>7, <2>2, <2>3, <2>4 DEF CallersFit
<1>12. AttachedFits(f)'
  <2>. SUFFICES ASSUME phase'[f] = "body", Attached(f)' PROVE AttachedFits(f)'
    BY DEF AttachedFits
  <2>1. \A c \in above : c[1] \in Frames \ {f} /\ phase[c[1]] = "body" /\ attempt[c[1]] = c[2]
    <3>1. \A c \in above : c[1] \in Frames \ {f}
      BY <1>3 DEF CallFits, Callers
    <3>. QED  BY <1>7, <3>1, PropagateElsewhere DEF Attached
  <2>2. OneConnection(f)' <=> \A c \in above : conn[c[1]] = cn
    BY <1>7, <2>1, PropagateElsewhere DEF OneConnection
  <2>3. /\ cur # None => <<cur, attempt[cur]>> \in above
        /\ OneConnection(f)' => /\ cur # None => h = cur
                                /\ cur = None /\ h # None =>
                                     h \in Frames \ {f} /\ kind[h] = "hooked"
    <3>1. \A g \in Callers(above) : g \in Frames \ {f}
      BY <2>1 DEF Callers
    <3>. QED  BY <1>2, <2>1, <2>2, <3>1 DEF CallFits
  <2>4. /\ Lookup(sessionIn'[cn], here) =
              IF sessionIn'[cn][CallCtx(f)] # Unset THEN sessionIn'[cn][CallCtx(f)]
              ELSE Lookup(sessionIn'[cn], p)
        /\ Lookup(sessionIn'[cn], deep) =
              IF sessionIn'[cn][HookCtx(f)] # Unset THEN sessionIn'[cn][HookCtx(f)]
              ELSE IF sessionIn'[cn][CallCtx(f)] # Unset THEN sessionIn'[cn][CallCtx(f)]
              ELSE Lookup(sessionIn'[cn], p)
        /\ Lookup(hookIn', here) =
              IF hookIn'[CallCtx(f)] # Unset THEN hookIn'[CallCtx(f)]
              ELSE Lookup(hookIn', p)
        /\ hookIn'[HookCtx(f)] # Unset => Lookup(hookIn', deep) = hookIn'[HookCtx(f)]
    BY <1>1, <1>4, NewLookup
  <2>5. CASE kind'[f] = "plain"
    <3>1. path'[f] = here /\ sessionIn' = sessionIn /\ hookIn' = hookIn
          /\ scope'[f] = IF cur = None THEN NoScope ELSE <<cur, attempt[cur]>>
      BY <1>8, <2>5 DEF ctxVars
    <3>2. Seen(conn[f], f)' = cur /\ HookOf(f)' = h
      BY <1>2, <1>6, <1>7, <2>4, <3>1 DEF Seen, HookOf
    <3>3. /\ ScopeOf(f)' = scope'[f] /\ scope'[f][1] = cur
          /\ scope'[f] # NoScope <=> cur # None
      BY <2>5, <3>1 DEF ScopeOf, NoScope
    <3>4. scope'[f] = NoScope \/ scope'[f] \in callers'[f]
      BY <1>7, <2>3, <3>1
    <3>5. OneConnection(f)' =>
            /\ ScopeOf(f)' # NoScope => HookOf(f)' = ScopeOf(f)'[1]
            /\ ScopeOf(f)' = NoScope /\ HookOf(f)' # None => kind'[HookOf(f)'] = "hooked"
      BY <2>3, <3>2, <3>3, PropagateElsewhere
    <3>. QED  BY <3>2, <3>3, <3>4, <3>5 DEF AttachedFits
  <2>6. CASE kind'[f] # "plain"
    <3>1. /\ kind'[f] = "hooked" /\ path'[f] = deep /\ scope'[f] = NoScope
          /\ hookIn' = [hookIn EXCEPT ![HookCtx(f)] = f]
          /\ \/ cur = None /\ sessionIn' = sessionIn
             \/ sessionIn' = [sessionIn EXCEPT ![cn][CallCtx(f)] = None]
      BY <1>8, <2>6
    <3>2. HookOf(f)' = f
      BY <1>6, <2>4, <3>1, ContextParts, FramesAssumption DEF HookOf
    <3>3. Seen(conn[f], f)' = None
      <4>1. CASE cur = None /\ sessionIn' = sessionIn
        BY <1>2, <1>6, <1>7, <2>4, <3>1, <4>1 DEF Seen
      <4>2. CASE sessionIn' = [sessionIn EXCEPT ![cn][CallCtx(f)] = None]
        <5>1. sessionIn'[cn][CallCtx(f)] = None /\ sessionIn'[cn][HookCtx(f)] = Unset
          BY <1>6, <4>2, ContextParts
        <5>. QED  BY <1>7, <2>4, <3>1, <5>1, FramesAssumption DEF Seen
      <4>. QED  BY <3>1, <4>1, <4>2
    <3>. QED  BY <3>1, <3>2, <3>3 DEF AttachedFits, ScopeOf, NoScope
  <2>. QED  BY <2>5, <2>6
<1>13. \A g \in Frames \ {f} : /\ FrameFits(g)' /\ ContextFits(g)'
                               /\ CallersFit(g)' /\ AttachedFits(g)'
  <2>1. attempt'[f] \in Nat /\ attempt'[f] >= attempt[f]
    BY <1>3, PropagateElsewhere
  <2>. QED  BY <2>1, PropagateElsewhere, FramesElsewhere
<1>14. WritesFit'
  BY <1>3, PropagateElsewhere, WritesElsewhere DEF dbVars
<1>15. ListenersFit'
  BY PropagateElsewhere, ListenersElsewhere
<1>. QED
  BY <1>9, <1>10, <1>11, <1>12, <1>13, <1>14, <1>15, PropagateTypes DEF IInv

LEMMA CallKeeps ==
  ASSUME IInv, NEW f \in Frames, NEW pr \in Propagations, NEW cn \in Conns,
         CallFromRoot(f, pr, cn) \/ \E g \in Frames : Call(g, f, pr, cn)
  PROVE  IInv'
<1>1. CASE CallFromRoot(f, pr, cn)
  BY <1>1, RootCall, PropagateKeeps DEF CallFromRoot
<1>2. ASSUME NEW g \in Frames, Call(g, f, pr, cn) PROVE IInv'
  <2>1. PICK above : above = callers[g] \union {<<g, attempt[g]>>}
    OBVIOUS
  <2>2. CallFits(path[g], above, cn)
    BY <1>2, <2>1, NestedCall DEF Call
  <2>. QED  BY <1>2, <2>1, <2>2, PropagateKeeps DEF Call
<1>. QED  BY <1>1, <1>2

-----------------------------------------------------------------------------
(* Attempts *)

\* StartSession and Retry: the hook context holds the session, and it is the
\* last on the path.
LEMMA BeginKeeps ==
  ASSUME IInv, NEW f \in Frames, StartSession(f) \/ Retry(f)
  PROVE  IInv'
<1>1. /\ kind[f] = "txn" /\ conn[f] \in Conns /\ committed[f] = 0
      /\ phase[f] = "starting" => attempt[f] = 0
      /\ phase[f] \in {"starting", "committing", "aborting"}
  <2>1. phase[f] \in {"starting", "committing", "aborting"}
    BY DEF StartSession, Retry
  <2>. QED  BY <2>1 DEF IInv, FrameFits, TypeOK
<1>2. attempt[f] \in Nat /\ attempt[f] < MaxAttempts /\ MaxAttempts \in Nat
  <2>1. attempt[f] \in 0..MaxAttempts /\ MaxAttempts \in Nat \ {0}
    BY FramesAssumption DEF IInv, TypeOK
  <2>2. phase[f] = "starting" \/ attempt[f] < MaxAttempts
    BY DEF StartSession, Retry
  <2>. QED  BY <1>1, <2>1, <2>2
<1>3. /\ phase' = [phase EXCEPT ![f] = "body"] /\ attempt' = [attempt EXCEPT ![f] = @ + 1]
      /\ session' = [session EXCEPT ![f] = "active"]
      /\ sessionIn' = [sessionIn EXCEPT ![conn[f]][HookCtx(f)] = f]
      /\ UNCHANGED <<kind, prop, conn, path, callers, scope, restore, hookIn, durable,
                     wrote, committed, hook, listeners, fired>>
      /\ \/ staged' = staged /\ phase[f] = "starting"
         \/ staged' = [staged EXCEPT ![f] = {}]
  BY DEF StartSession, Retry, BeginAttempt, callVars, dbVars, hookVars
<1>4. TypeOK'
  <2>1. attempt' \in [Frames -> 0..MaxAttempts]
    BY <1>2, <1>3 DEF IInv, TypeOK
  <2>2. sessionIn' \in [Conns -> [Contexts -> FramesAndNone \union {Unset}]]
    BY <1>1, <1>3 DEF IInv, TypeOK, FramesAndNone
  <2>3. staged' \in [Frames -> SUBSET WriteRecords]
    BY <1>3 DEF IInv, TypeOK
  <2>. QED  BY <1>3, <2>1, <2>2, <2>3 DEF IInv, TypeOK
<1>5. /\ phase'[f] = "body" /\ attempt'[f] = attempt[f] + 1 /\ session'[f] = "active"
      /\ hook[f] = "open"
      /\ \A x \in Contexts : x # HookCtx(f) => \A cn \in Conns :
            sessionIn'[cn][x] = sessionIn[cn][x]
      /\ \A cn \in Conns : sessionIn'[cn][HookCtx(f)] =
            IF cn = conn[f] THEN f ELSE sessionIn[cn][HookCtx(f)]
  <2>1. /\ sessionIn \in [Conns -> [Contexts -> FramesAndNone \union {Unset}]]
        /\ HookCtx(f) \in Contexts
    BY ContextParts DEF IInv, TypeOK
  <2>2. /\ \A x \in Contexts : x # HookCtx(f) => \A cn \in Conns :
              sessionIn'[cn][x] = sessionIn[cn][x]
        /\ \A cn \in Conns : sessionIn'[cn][HookCtx(f)] =
              IF cn = conn[f] THEN f ELSE sessionIn[cn][HookCtx(f)]
    BY <1>1, <1>3, <2>1
  <2>3. hook[f] = "open"
    BY <1>1 DEF IInv, FrameFits
  <2>4. phase'[f] = "body" /\ attempt'[f] = attempt[f] + 1 /\ session'[f] = "active"
    BY <1>3 DEF IInv, TypeOK
  <2>. QED  BY <2>2, <2>3, <2>4
<1>6. \A g \in Frames \ {f} : /\ FrameFits(g)' /\ ContextFits(g)'
                              /\ CallersFit(g)' /\ AttachedFits(g)'
  <2>1. \A g \in Frames \ {f} : /\ phase'[g] = phase[g] /\ attempt'[g] = attempt[g]
                                /\ session'[g] = session[g]
    BY <1>3 DEF IInv, TypeOK
  <2>2. \A x \in Contexts : x[1] # f =>
           /\ \A cn \in Conns : sessionIn'[cn][x] = sessionIn[cn][x]
           /\ hookIn'[x] = hookIn[x]
    BY <1>3, <1>5, ContextParts
  <2>. QED  BY <1>2, <1>3, <1>5, <2>1, <2>2, FramesElsewhere
<1>7. FrameFits(f)'
  <2>1. ScopeOf(f)' = <<f, attempt'[f]>> /\ ScopeOf(f)' # NoScope
    BY <1>1, <1>3, FramesAssumption DEF ScopeOf, NoScope
  <2>2. prop[f] \notin {"NEVER", "NOT_SUPPORTED"}
    BY <1>1 DEF IInv, FrameFits
  <2>. QED  BY <1>1, <1>2, <1>3, <1>5, <2>1, <2>2 DEF IInv, FrameFits, Working
<1>8. ContextFits(f)'
  BY <1>1, <1>3, <1>5, ContextParts, FramesAssumption DEF IInv, ContextFits
<1>9. CallersFit(f)'
  <2>1. \A c \in callers[f] : c[1] \in Frames /\ c[2] \in Nat /\ c[2] > 0 /\ c[2] <= attempt[c[1]]
    BY <1>2 DEF IInv, TypeOK, CallersFit
  <2>2. \A g \in Frames : /\ attempt[g] \in Nat /\ attempt'[g] \in Nat
                          /\ attempt'[g] >= attempt[g]
    BY <1>2, <1>3, <1>5 DEF IInv, TypeOK
  <2>3. \A c \in callers[f] : c[2] > 0 /\ c[2] <= attempt'[c[1]]
    <3>. SUFFICES ASSUME NEW c \in callers[f] PROVE c[2] > 0 /\ c[2] <= attempt'[c[1]]
      OBVIOUS
    <3>1. PICK a \in Nat, b \in Nat, d \in Nat :
             a = attempt[c[1]] /\ b = attempt'[c[1]] /\ d = c[2]
      BY <2>1, <2>2
    <3>2. d > 0 /\ d <= a /\ b >= a
      BY <2>1, <2>2, <3>1
    <3>. QED  BY <3>1, <3>2
  <2>. QED  BY <1>3, <2>3 DEF IInv, CallersFit
<1>10. AttachedFits(f)'
  <2>1. path[f] \in Seq(Contexts) /\ Len(path[f]) \in 1..Len(path[f])
        /\ path[f][Len(path[f])] = HookCtx(f) /\ Len(path[f]) \in Nat
    BY <1>1 DEF IInv, TypeOK, CallersFit
  <2>2. Seen(conn[f], f)' = f
    <3>1. sessionIn'[conn[f]][HookCtx(f)] = f /\ f # Unset
      BY <1>1, <1>5, FramesAssumption
    <3>2. PICK val : val = sessionIn'[conn[f]]
      OBVIOUS
    <3>3. val[path[f][Len(path[f])]] = f
      BY <2>1, <3>1, <3>2
    <3>4. \A j \in 1..Len(path[f]) : val[path[f][j]] # Unset => j <= Len(path[f])
      BY <2>1
    <3>5. Lookup(val, path[f]) = f
      BY <2>1, <3>1, <3>3, <3>4, LookupLast
    <3>. QED  BY <1>3, <3>2, <3>5 DEF Seen
  <2>3. HookOf(f)' = f
    <3>1. hookIn'[HookCtx(f)] = f /\ f # Unset
      BY <1>1, <1>3, FramesAssumption DEF IInv, ContextFits
    <3>. QED  BY <1>3, <2>1, <3>1, LookupLast DEF HookOf
  <2>4. ScopeOf(f)' = <<f, attempt'[f]>> /\ ScopeOf(f)' # NoScope /\ ScopeOf(f)'[1] = f
    BY <1>1, <1>3, FramesAssumption DEF ScopeOf, NoScope
  <2>. QED  BY <1>1, <1>3, <2>2, <2>3, <2>4 DEF AttachedFits
<1>11. WritesFit'
  <2>1. \A t \in Frames : staged'[t] = staged[t] \/ (t = f /\ staged'[t] = {})
    BY <1>3 DEF IInv, TypeOK
  <2>2. ASSUME NEW w \in wrote, w.attached PROVE WriteFits(w)'
    <3>1. WriteFits(w) /\ w.scope[2] \in Nat
      BY <1>2, <2>2 DEF IInv, WritesFit, TypeOK, WriteRecords, Scopes
    <3>2. w.scope # NoScope => w \in durable <=> committed[w.scope[1]] = w.scope[2]
      BY <3>1 DEF WriteFits
    <3>3. w.scope # NoScope => /\ w.scope[1] \in Frames /\ kind[w.scope[1]] = "txn"
                               /\ w.scope[2] > 0 /\ w.scope[2] <= attempt'[w.scope[1]]
      BY <1>2, <1>5, <1>3, <3>1 DEF WriteFits, IInv, TypeOK
    <3>4. w \notin staged'[f]
      <4>1. CASE staged' = staged /\ phase[f] = "starting"
        BY <1>1, <2>2, <3>1, <4>1, FramesAssumption DEF WriteFits
      <4>2. CASE staged' = [staged EXCEPT ![f] = {}]
        BY <4>2 DEF IInv, TypeOK
      <4>. QED  BY <1>3, <4>1, <4>2
    <3>5. w.scope[1] = f /\ w.scope # NoScope => w.scope[2] # attempt'[f]
      BY <1>2, <1>5, <3>1 DEF WriteFits
    <3>6. \A t \in Frames : w.scope = NoScope => w \notin staged'[t]
      BY <2>1, <3>1 DEF WriteFits
    <3>7. w.scope # NoScope => \A t \in Frames : w \in staged'[t] <=>
            /\ t = w.scope[1] /\ w.scope[2] = attempt'[w.scope[1]]
            /\ phase'[w.scope[1]] \in Working
      <4>. SUFFICES ASSUME w.scope # NoScope, NEW t \in Frames
                    PROVE  w \in staged'[t] <=>
                              /\ t = w.scope[1] /\ w.scope[2] = attempt'[w.scope[1]]
                              /\ phase'[w.scope[1]] \in Working
        OBVIOUS
      <4>1. CASE t = f
        BY <3>4, <3>5, <4>1
      <4>2. CASE t # f
        <5>1. staged'[t] = staged[t] /\ phase'[t] = phase[t] /\ attempt'[t] = attempt[t]
          BY <1>3, <2>1, <4>2 DEF IInv, TypeOK
        <5>. QED  BY <3>1, <5>1 DEF WriteFits
      <4>. QED  BY <4>1, <4>2
    <3>. QED  BY <1>3, <3>1, <3>2, <3>3, <3>6, <3>7 DEF WriteFits
  <2>3. \A t \in Frames : staged'[t] \subseteq wrote
    BY <2>1 DEF IInv, WritesFit
  <2>. QED  BY <1>3, <2>2, <2>3 DEF IInv, WritesFit
<1>12. ListenersFit'
  <2>1. \A g \in Frames \ {f} : phase'[g] = phase[g]
    BY <1>3 DEF IInv, TypeOK
  <2>. QED  BY <1>3, <1>5, <2>1, ListenersElsewhere
<1>. QED
  BY <1>4, <1>6, <1>7, <1>8, <1>9, <1>10, <1>11, <1>12 DEF IInv

-----------------------------------------------------------------------------
(* The end of a body and what follows *)

\* A step of a frame that is not in its body afterwards.
LEMMA LeaveKeeps ==
  ASSUME IInv, NEW f \in Frames, UNCHANGED <<attempt, callVars, hookIn>>,
         phase[f] # "idle", phase'[f] \notin {"idle", "starting", "body"},
         \A g \in Frames \ {f} :
            /\ phase'[g] = phase[g] /\ session'[g] = session[g]
            /\ hook'[g] = hook[g] /\ committed'[g] = committed[g],
         \A x \in Contexts : x[1] # f =>
            \A cn \in Conns : sessionIn'[cn][x] = sessionIn[cn][x],
         FrameFits(f)', ContextFits(f)'
  PROVE  \A g \in Frames : /\ FrameFits(g)' /\ ContextFits(g)'
                           /\ CallersFit(g)' /\ AttachedFits(g)'
<1>1. attempt[f] \in Nat
  BY FramesAssumption DEF IInv, TypeOK
<1>2. \A g \in Frames \ {f} : /\ FrameFits(g)' /\ ContextFits(g)'
                              /\ CallersFit(g)' /\ AttachedFits(g)'
  BY <1>1, FramesElsewhere DEF callVars
<1>3. CallersFit(f)' /\ AttachedFits(f)'
  BY DEF IInv, CallersFit, AttachedFits, callVars
<1>. QED  BY <1>2, <1>3

LEMMA StartFailsKeeps ==
  ASSUME IInv, NEW f \in Frames, StartFails(f)
  PROVE  IInv'
<1>1. TypeOK'
  BY DEF IInv, TypeOK, StartFails, callVars, ctxVars, dbVars
<1>2. /\ phase[f] = "starting" /\ phase'[f] = "done" /\ hook'[f] = "rollback"
      /\ \A g \in Frames \ {f} : phase'[g] = phase[g] /\ hook'[g] = hook[g]
      /\ UNCHANGED <<attempt, session, callVars, ctxVars, dbVars, listeners, fired>>
  BY DEF IInv, TypeOK, StartFails
<1>3. /\ UNCHANGED <<kind, prop, conn, path, callers, scope, restore, sessionIn, hookIn,
                     staged, durable, wrote, committed>>
  BY <1>2 DEF callVars, ctxVars, dbVars
<1>4. FrameFits(f)'
  BY <1>2, <1>3 DEF IInv, FrameFits, ScopeOf, Working
<1>5. ContextFits(f)'
  <2>1. ContextFits(f)
    BY DEF IInv
  <2>. QED  BY <1>2, <1>3, <2>1 DEF ContextFits
<1>6. \A g \in Frames : FrameFits(g)' /\ ContextFits(g)' /\ CallersFit(g)' /\ AttachedFits(g)'
  BY <1>2, <1>3, <1>4, <1>5, LeaveKeeps
<1>7. WritesFit'
  BY <1>2, <1>3, WritesElsewhere DEF Working
<1>8. ListenersFit'
  <2>1. hook[f] # "emitted"
    BY <1>2 DEF IInv, FrameFits
  <2>. QED  BY <1>2, <1>3, <2>1, ListenersElsewhere
<1>. QED  BY <1>1, <1>6, <1>7, <1>8 DEF IInv

LEMMA EndBodyKeeps ==
  ASSUME IInv, NEW f \in Frames, NEW ok \in BOOLEAN, EndBody(f, ok)
  PROVE  IInv'
<1>1. /\ conn[f] \in Conns /\ CallCtx(f) \in Contexts /\ restore[f] \in FramesAndNone
      /\ sessionIn \in [Conns -> [Contexts -> FramesAndNone \union {Unset}]]
  BY ContextParts DEF IInv, TypeOK
<1>2. /\ phase[f] = "body" /\ kind[f] # "txn" /\ phase' = [phase EXCEPT ![f] = "done"]
      /\ \/ hook' = hook /\ kind[f] = "plain"
         \/ hook' = [hook EXCEPT ![f] = "commit"]
         \/ hook' = [hook EXCEPT ![f] = "rollback"]
      /\ \/ sessionIn' = sessionIn
         \/ /\ restore[f] # None
            /\ sessionIn' = [sessionIn EXCEPT ![conn[f]][CallCtx(f)] = restore[f]]
      /\ UNCHANGED <<attempt, session, kind, prop, conn, path, callers, scope, restore,
                     hookIn, staged, durable, wrote, committed, listeners, fired>>
  BY DEF EndBody, callVars, dbVars, IInv, TypeOK
<1>3. TypeOK'
  <2>1. sessionIn' \in [Conns -> [Contexts -> FramesAndNone \union {Unset}]]
    BY <1>1, <1>2
  <2>2. hook' \in [Frames -> {"none", "open", "commit", "rollback", "emitted"}]
    BY <1>2 DEF IInv, TypeOK
  <2>3. phase' \in [Frames ->
          {"idle", "starting", "body", "committing", "aborting", "ending", "done"}]
    <3>1. phase \in [Frames ->
            {"idle", "starting", "body", "committing", "aborting", "ending", "done"}]
      BY DEF IInv, TypeOK
    <3>. QED  BY <1>2, <3>1
  <2>. QED  BY <1>2, <2>1, <2>2, <2>3 DEF IInv, TypeOK
<1>4. /\ phase'[f] = "done" /\ hook[f] # "emitted"
      /\ \A g \in Frames \ {f} : phase'[g] = phase[g] /\ hook'[g] = hook[g]
      /\ \A x \in Contexts : x # CallCtx(f) =>
           \A cn \in Conns : sessionIn'[cn][x] = sessionIn[cn][x]
      /\ \A cn \in Conns :
           \/ sessionIn'[cn][CallCtx(f)] = sessionIn[cn][CallCtx(f)]
           \/ restore[f] # None
  <2>1. phase'[f] = "done" /\ \A g \in Frames \ {f} : phase'[g] = phase[g] /\ hook'[g] = hook[g]
    BY <1>2 DEF IInv, TypeOK
  <2>2. hook[f] # "emitted"
    BY <1>2 DEF IInv, FrameFits
  <2>3. \A x \in Contexts : x # CallCtx(f) =>
           \A cn \in Conns : sessionIn'[cn][x] = sessionIn[cn][x]
    BY <1>1, <1>2
  <2>. QED  BY <1>2, <2>1, <2>2, <2>3
<1>5. FrameFits(f)'
  BY <1>2, <1>4 DEF IInv, FrameFits, Working
<1>6. ContextFits(f)'
  <2>1. ContextFits(f) /\ (restore[f] # None => prop[f] = "NOT_SUPPORTED")
    BY DEF IInv, FrameFits
  <2>2. HookCtx(f) # CallCtx(f) /\ HookCtx(f) \in Contexts
    BY ContextParts
  <2>. QED  BY <1>2, <1>4, <2>1, <2>2 DEF ContextFits
<1>7. \A g \in Frames : FrameFits(g)' /\ ContextFits(g)' /\ CallersFit(g)' /\ AttachedFits(g)'
  <2>1. \A x \in Contexts : x[1] # f =>
           \A cn \in Conns : sessionIn'[cn][x] = sessionIn[cn][x]
    BY <1>4, ContextParts
  <2>. QED  BY <1>2, <1>4, <1>5, <1>6, <2>1, LeaveKeeps DEF callVars
<1>8. WritesFit'
  BY <1>2, <1>4, WritesElsewhere
<1>9. ListenersFit'
  BY <1>2, <1>4, ListenersElsewhere
<1>. QED  BY <1>3, <1>7, <1>8, <1>9 DEF IInv

LEMMA EndAttemptKeeps ==
  ASSUME IInv, NEW f \in Frames, NEW ok \in BOOLEAN, EndAttempt(f, ok)
  PROVE  IInv'
<1>1. /\ conn[f] \in Conns /\ HookCtx(f) \in Contexts
      /\ sessionIn \in [Conns -> [Contexts -> FramesAndNone \union {Unset}]]
  BY ContextParts DEF IInv, TypeOK
<1>2. /\ phase[f] = "body" /\ kind[f] = "txn"
      /\ \/ phase' = [phase EXCEPT ![f] = "committing"]
         \/ phase' = [phase EXCEPT ![f] = "aborting"]
      /\ sessionIn' = [sessionIn EXCEPT ![conn[f]][HookCtx(f)] = None]
      /\ UNCHANGED <<attempt, session, kind, prop, conn, path, callers, scope, restore,
                     hookIn, staged, durable, wrote, committed, hook, listeners, fired>>
  BY DEF EndAttempt, callVars, dbVars, hookVars
<1>3. TypeOK'
  <2>1. sessionIn' \in [Conns -> [Contexts -> FramesAndNone \union {Unset}]]
    BY <1>1, <1>2 DEF FramesAndNone
  <2>2. phase' \in [Frames ->
          {"idle", "starting", "body", "committing", "aborting", "ending", "done"}]
    <3>1. phase \in [Frames ->
            {"idle", "starting", "body", "committing", "aborting", "ending", "done"}]
      BY DEF IInv, TypeOK
    <3>. QED  BY <1>2, <3>1
  <2>. QED  BY <1>2, <2>1, <2>2 DEF IInv, TypeOK
<1>4. /\ phase'[f] \in {"committing", "aborting"}
      /\ \A g \in Frames \ {f} : phase'[g] = phase[g]
      /\ \A x \in Contexts : x # HookCtx(f) =>
           \A cn \in Conns : sessionIn'[cn][x] = sessionIn[cn][x]
      /\ \A cn \in Conns : sessionIn'[cn][HookCtx(f)] =
            IF cn = conn[f] THEN None ELSE sessionIn[cn][HookCtx(f)]
  <2>1. phase'[f] \in {"committing", "aborting"} /\ \A g \in Frames \ {f} : phase'[g] = phase[g]
    BY <1>2 DEF IInv, TypeOK
  <2>2. /\ \A x \in Contexts : x # HookCtx(f) =>
             \A cn \in Conns : sessionIn'[cn][x] = sessionIn[cn][x]
        /\ \A cn \in Conns : sessionIn'[cn][HookCtx(f)] =
              IF cn = conn[f] THEN None ELSE sessionIn[cn][HookCtx(f)]
    BY <1>1, <1>2
  <2>. QED  BY <2>1, <2>2
<1>5. FrameFits(f)'
  BY <1>2, <1>4 DEF IInv, FrameFits, Working
<1>6. ContextFits(f)'
  <2>1. ContextFits(f)
    BY DEF IInv
  <2>2. HookCtx(f) # CallCtx(f) /\ CallCtx(f) \in Contexts
    BY ContextParts
  <2>. QED  BY <1>2, <1>4, <2>1, <2>2, FramesAssumption DEF ContextFits
<1>7. \A g \in Frames : FrameFits(g)' /\ ContextFits(g)' /\ CallersFit(g)' /\ AttachedFits(g)'
  <2>1. \A x \in Contexts : x[1] # f =>
           \A cn \in Conns : sessionIn'[cn][x] = sessionIn[cn][x]
    BY <1>4, ContextParts
  <2>. QED  BY <1>2, <1>4, <1>5, <1>6, <2>1, LeaveKeeps DEF callVars
<1>8. WritesFit'
  BY <1>2, <1>4, WritesElsewhere DEF Working
<1>9. ListenersFit'
  BY <1>2, <1>4, ListenersElsewhere
<1>. QED  BY <1>3, <1>7, <1>8, <1>9 DEF IInv

-----------------------------------------------------------------------------
(* The outcome of a transaction *)

\* The attempt is over: its writes moved to the database, or were dropped.
LEMMA OutcomeKeeps ==
  ASSUME IInv, NEW f \in Frames, CommitSucceeds(f) \/ CommitUnknown(f) \/ Abort(f)
  PROVE  IInv'
<1>1. /\ phase[f] \in {"committing", "aborting"} /\ kind[f] = "txn" /\ attempt[f] > 0
      /\ committed[f] = 0 /\ hook[f] = "open" /\ attempt[f] \in Nat
  <2>1. phase[f] \in {"committing", "aborting"}
    BY DEF CommitSucceeds, CommitUnknown, Abort
  <2>. QED  BY <2>1, FramesAssumption DEF IInv, FrameFits, TypeOK
<1>2. /\ phase' = [phase EXCEPT ![f] = "ending"]
      /\ session' = [session EXCEPT ![f] = "committed"]
           \/ session' = [session EXCEPT ![f] = "aborted"]
      /\ staged' = [staged EXCEPT ![f] = {}]
      /\ UNCHANGED <<attempt, kind, prop, conn, path, callers, scope, restore, sessionIn,
                     hookIn, wrote, hook, listeners, fired>>
      /\ \/ /\ durable' = durable \union staged[f]
            /\ committed' = [committed EXCEPT ![f] = attempt[f]]
         \/ /\ durable' = durable /\ committed' = committed
            /\ session' = [session EXCEPT ![f] = "aborted"]
  BY DEF CommitSucceeds, CommitUnknown, Abort, Commit, callVars, ctxVars, hookVars
<1>3. TypeOK'
  <2>1. durable' \subseteq WriteRecords /\ staged' \in [Frames -> SUBSET WriteRecords]
    BY <1>2 DEF IInv, TypeOK
  <2>2. committed' \in [Frames -> 0..MaxAttempts]
    BY <1>2 DEF IInv, TypeOK
  <2>3. session' \in [Frames -> {"none", "active", "committed", "aborted", "ended"}]
    <3>1. session \in [Frames -> {"none", "active", "committed", "aborted", "ended"}]
      BY DEF IInv, TypeOK
    <3>. QED  BY <1>2, <3>1
  <2>4. phase' \in [Frames ->
          {"idle", "starting", "body", "committing", "aborting", "ending", "done"}]
    <3>1. phase \in [Frames ->
            {"idle", "starting", "body", "committing", "aborting", "ending", "done"}]
      BY DEF IInv, TypeOK
    <3>. QED  BY <1>2, <3>1
  <2>. QED  BY <1>2, <2>1, <2>2, <2>3, <2>4 DEF IInv, TypeOK
<1>4. /\ phase'[f] = "ending" /\ session'[f] \in {"committed", "aborted"}
      /\ session'[f] = "committed" => committed'[f] = attempt[f]
      /\ staged'[f] = {}
      /\ \A g \in Frames \ {f} : /\ phase'[g] = phase[g] /\ session'[g] = session[g]
                                 /\ staged'[g] = staged[g] /\ committed'[g] = committed[g]
      /\ \/ durable' = durable \union staged[f] /\ committed'[f] = attempt[f]
         \/ durable' = durable /\ committed'[f] = 0
  BY <1>1, <1>2 DEF IInv, TypeOK
<1>5. FrameFits(f)'
  BY <1>1, <1>2, <1>4 DEF IInv, FrameFits, Working
<1>6. ContextFits(f)'
  <2>1. ContextFits(f)
    BY DEF IInv
  <2>. QED  BY <1>1, <1>2, <1>4, <2>1 DEF ContextFits
<1>7. \A g \in Frames : FrameFits(g)' /\ ContextFits(g)' /\ CallersFit(g)' /\ AttachedFits(g)'
  BY <1>1, <1>2, <1>4, <1>5, <1>6, LeaveKeeps DEF callVars
<1>8. WritesFit'
  <2>1. ASSUME NEW w \in wrote, w.attached PROVE WriteFits(w)'
    <3>1. WriteFits(w) /\ w.scope[2] \in Nat
      BY <2>1, FramesAssumption DEF IInv, WritesFit, TypeOK, WriteRecords, Scopes
    <3>2. CASE w.scope = NoScope
      BY <1>4, <3>1, <3>2 DEF WriteFits
    <3>3. CASE w.scope # NoScope /\ w.scope[1] # f
      BY <1>2, <1>4, <3>1, <3>3 DEF WriteFits
    <3>4. CASE w.scope # NoScope /\ w.scope[1] = f
      <4>1. w \notin durable /\ (w \in staged[f] <=> w.scope[2] = attempt[f])
        BY <1>1, <3>1, <3>4 DEF WriteFits, Working
      <4>2. w \in durable' <=> committed'[f] = w.scope[2]
        BY <1>4, <3>1, <3>4, <4>1 DEF WriteFits
      <4>3. \A t \in Frames : w \notin staged'[t]
        BY <1>4, <3>1, <3>4 DEF WriteFits
      <4>4. phase'[f] \notin Working
        BY <1>4 DEF Working
      <4>. QED  BY <1>2, <3>1, <3>4, <4>2, <4>3, <4>4 DEF WriteFits
    <3>. QED  BY <3>2, <3>3, <3>4
  <2>2. durable' \subseteq wrote /\ \A t \in Frames : staged'[t] \subseteq wrote
    BY <1>4 DEF IInv, WritesFit
  <2>. QED  BY <1>2, <2>1, <2>2 DEF WritesFit
<1>9. ListenersFit'
  BY <1>1, <1>2, <1>4, ListenersElsewhere
<1>. QED  BY <1>3, <1>7, <1>8, <1>9 DEF IInv

LEMMA EndSessionKeeps ==
  ASSUME IInv, NEW f \in Frames, EndSession(f)
  PROVE  IInv'
<1>1. /\ phase[f] = "ending" /\ phase' = [phase EXCEPT ![f] = "done"]
      /\ hook' = [hook EXCEPT ![f] = IF session[f] = "committed" THEN "commit" ELSE "rollback"]
      /\ session' = [session EXCEPT ![f] = "ended"]
      /\ UNCHANGED <<attempt, kind, prop, conn, path, callers, scope, restore, sessionIn,
                     hookIn, staged, durable, wrote, committed, listeners, fired>>
  BY DEF EndSession, callVars, ctxVars, dbVars
<1>2. TypeOK'
  BY <1>1 DEF IInv, TypeOK
<1>3. /\ phase'[f] = "done" /\ session'[f] = "ended" /\ hook[f] = "open"
      /\ hook'[f] = IF session[f] = "committed" THEN "commit" ELSE "rollback"
      /\ \A g \in Frames \ {f} : /\ phase'[g] = phase[g] /\ session'[g] = session[g]
                                 /\ hook'[g] = hook[g]
  <2>1. /\ phase \in [Frames -> {"idle", "starting", "body", "committing", "aborting",
                                 "ending", "done"}]
        /\ hook \in [Frames -> {"none", "open", "commit", "rollback", "emitted"}]
        /\ session \in [Frames -> {"none", "active", "committed", "aborted", "ended"}]
    BY DEF IInv, TypeOK
  <2>2. hook[f] = "open"
    <3>1. FrameFits(f)
      BY DEF IInv
    <3>. QED  BY <1>1, <3>1 DEF FrameFits
  <2>. QED  BY <1>1, <2>1, <2>2
<1>4. FrameFits(f)'
  BY <1>1, <1>3 DEF IInv, FrameFits, Working
<1>5. ContextFits(f)'
  <2>1. ContextFits(f)
    BY DEF IInv
  <2>. QED  BY <1>1, <1>3, <2>1 DEF ContextFits
<1>6. \A g \in Frames : FrameFits(g)' /\ ContextFits(g)' /\ CallersFit(g)' /\ AttachedFits(g)'
  BY <1>1, <1>3, <1>4, <1>5, LeaveKeeps DEF callVars
<1>7. WritesFit'
  BY <1>1, <1>3, WritesElsewhere DEF Working
<1>8. ListenersFit'
  BY <1>1, <1>3, ListenersElsewhere
<1>. QED  BY <1>2, <1>6, <1>7, <1>8 DEF IInv

LEMMA EmitHooksKeeps ==
  ASSUME IInv, NEW f \in Frames, EmitHooks(f)
  PROVE  IInv'
<1>1. /\ hook[f] \in {"commit", "rollback"} /\ hook' = [hook EXCEPT ![f] = "emitted"]
      /\ fired' = fired \union {l \in listeners[f] : l.event \in {hook[f], "end"}}
      /\ listeners' = [listeners EXCEPT ![f] = {}]
      /\ UNCHANGED <<phase, session, attempt, kind, prop, conn, path, callers, scope,
                     restore, sessionIn, hookIn, staged, durable, wrote, committed>>
  BY DEF EmitHooks, callVars, ctxVars, dbVars
<1>2. TypeOK'
  <2>1. /\ hook' \in [Frames -> {"none", "open", "commit", "rollback", "emitted"}]
        /\ listeners' \in [Frames -> SUBSET ListenerRecords] /\ fired' \subseteq ListenerRecords
    BY <1>1 DEF IInv, TypeOK
  <2>. QED  BY <1>1, <2>1 DEF IInv, TypeOK
<1>3. /\ phase[f] = "done" /\ hook'[f] = "emitted" /\ listeners'[f] = {}
      /\ \A g \in Frames \ {f} : hook'[g] = hook[g] /\ listeners'[g] = listeners[g]
  BY <1>1 DEF IInv, TypeOK, FrameFits
<1>4. FrameFits(f)' /\ ContextFits(f)'
  BY <1>1, <1>3 DEF IInv, FrameFits, ContextFits, Working
<1>5. \A g \in Frames : FrameFits(g)' /\ ContextFits(g)' /\ CallersFit(g)' /\ AttachedFits(g)'
  BY <1>1, <1>3, <1>4, LeaveKeeps DEF callVars
<1>6. WritesFit'
  BY <1>1, WritesElsewhere
<1>7. ListenersFit'
  <2>1. \A l : Ours(l)' <=> Ours(l)
    BY <1>1 DEF Ours, OneConnection
  <2>2. \A h \in Frames : \A l \in listeners'[h] :
           phase'[l.frame] # "idle" /\ (Ours(l)' => l.scope[1] = h /\ kind'[h] = "txn")
    BY <1>1, <1>3, <2>1 DEF IInv, ListenersFit
  <2>3. ASSUME NEW l \in fired', l \notin fired
        PROVE  /\ phase'[l.frame] # "idle" /\ l.event \in {hook[f], "end"}
               /\ Ours(l) => l.scope[1] = f /\ (l.event = "commit" => committed[f] # 0)
    <3>1. l \in listeners[f] /\ l.event \in {hook[f], "end"}
      BY <1>1, <2>3
    <3>2. hook[f] = "commit" /\ kind[f] = "txn" => committed[f] # 0
      BY DEF IInv, FrameFits
    <3>. QED  BY <1>1, <3>1, <3>2 DEF IInv, ListenersFit
  <2>4. \A l \in fired : /\ phase'[l.frame] # "idle"
                         /\ Ours(l) => /\ l.scope[1] \in Frames \ {f}
                                       /\ hook[l.scope[1]] = "emitted"
                                       /\ l.event = "commit" => committed[l.scope[1]] # 0
    BY <1>1 DEF IInv, ListenersFit
  <2>5. \A l \in fired' :
           /\ phase'[l.frame] # "idle"
           /\ Ours(l)' => /\ l.scope[1] \in Frames /\ hook'[l.scope[1]] = "emitted"
                          /\ l.event = "commit" => committed'[l.scope[1]] # 0
    BY <1>1, <1>3, <2>1, <2>3, <2>4
  <2>6. ASSUME NEW l \in fired', NEW m \in fired', Ours(l), Ours(m), l.scope[1] = m.scope[1]
        PROVE  ~(l.event = "commit" /\ m.event = "rollback")
    <3>1. CASE l \in fired /\ m \in fired
      BY <2>6, <3>1 DEF IInv, ListenersFit
    <3>2. CASE l \notin fired /\ m \notin fired
      BY <1>1, <2>3, <3>2
    <3>3. CASE l \in fired /\ m \notin fired
      BY <2>3, <2>4, <2>6, <3>3
    <3>4. CASE l \notin fired /\ m \in fired
      BY <2>3, <2>4, <2>6, <3>4
    <3>. QED  BY <3>1, <3>2, <3>3, <3>4
  <2>. QED  BY <2>1, <2>2, <2>5, <2>6 DEF ListenersFit
<1>. QED  BY <1>2, <1>5, <1>6, <1>7 DEF IInv

-----------------------------------------------------------------------------
(* What a body does *)

\* A step that changes no frame and no context.
LEMMA FramesUnchanged ==
  ASSUME IInv,
         UNCHANGED <<phase, attempt, session, callVars, ctxVars, hook, committed>>
  PROVE  \A f \in Frames : FrameFits(f)' /\ ContextFits(f)' /\ CallersFit(f)' /\ AttachedFits(f)'
<1>. SUFFICES ASSUME NEW f \in Frames
              PROVE  FrameFits(f)' /\ ContextFits(f)' /\ CallersFit(f)' /\ AttachedFits(f)'
  OBVIOUS
<1>1. UNCHANGED <<kind, prop, conn, path, callers, scope, restore, sessionIn, hookIn>>
  BY DEF callVars, ctxVars
<1>2. FrameFits(f)'
  BY <1>1 DEF IInv, FrameFits, ScopeOf
<1>3. ContextFits(f)'
  BY <1>1 DEF IInv, ContextFits
<1>4. CallersFit(f)'
  BY <1>1 DEF IInv, CallersFit
<1>5. AttachedFits(f)'
  <2>1. Seen(conn[f], f)' = Seen(conn[f], f) /\ HookOf(f)' = HookOf(f)
    BY <1>1 DEF Seen, HookOf, Lookup
  <2>2. ScopeOf(f)' = ScopeOf(f) /\ (Attached(f)' <=> Attached(f))
        /\ (OneConnection(f)' <=> OneConnection(f))
    BY <1>1 DEF ScopeOf, Attached, OneConnection
  <2>. QED  BY <1>1, <2>1, <2>2 DEF IInv, AttachedFits
<1>. QED  BY <1>2, <1>3, <1>4, <1>5

\* A body whose callers wait: the transaction it belongs to is open.
LEMMA ScopeIsOpen ==
  ASSUME IInv, NEW f \in Frames, phase[f] = "body", Attached(f)
  PROVE  LET s == ScopeOf(f)[1]
         IN  /\ SessionOf(f) = s
             /\ ScopeOf(f) = NoScope <=> s = None
             /\ s # None => /\ s \in Frames /\ kind[s] = "txn" /\ phase[s] = "body"
                            /\ conn[s] = conn[f] /\ session[s] = "active"
                            /\ ScopeOf(f) = <<s, attempt[s]>>
                            /\ attempt[s] > 0 /\ committed[s] = 0
<1>1. conn[f] \in Conns /\ callers[f] \subseteq Frames \X (0..MaxAttempts)
  BY DEF IInv, TypeOK
<1>2. PICK s : s = ScopeOf(f)[1]
  OBVIOUS
<1>3. SessionOf(f) = s /\ Seen(conn[f], f) = s
  BY <1>2 DEF IInv, AttachedFits, SessionOf, Seen
<1>4. s # None => s \in Frames /\ kind[s] = "txn" /\ phase[s] = "body" /\ conn[s] = conn[f]
  BY <1>1, <1>3, SeenIsOpen
<1>5. s # None => session[s] = "active" /\ attempt[s] > 0 /\ committed[s] = 0
  BY <1>4 DEF IInv, FrameFits, Working
<1>6. /\ ScopeOf(f) = NoScope => s = None
      /\ ScopeOf(f) # NoScope => s \in Frames /\ ScopeOf(f) = <<s, attempt[s]>>
  <2>1. CASE kind[f] = "txn"
    BY <1>2, <2>1 DEF ScopeOf, NoScope
  <2>2. CASE kind[f] # "txn"
    <3>1. ScopeOf(f) = scope[f] /\ (scope[f] = NoScope \/ scope[f] \in callers[f])
      BY <2>2 DEF IInv, AttachedFits, ScopeOf
    <3>2. scope[f] \in callers[f] =>
            s \in Frames /\ scope[f] = <<s, scope[f][2]>> /\ attempt[s] = scope[f][2]
      BY <1>1, <1>2, <3>1 DEF Attached
    <3>. QED  BY <1>2, <3>1, <3>2 DEF NoScope
  <2>. QED  BY <2>1, <2>2
<1>. QED  BY <1>2, <1>3, <1>4, <1>5, <1>6, FramesAssumption

LEMMA ScopeType ==
  ASSUME TypeOK, NEW f \in Frames
  PROVE  ScopeOf(f) \in Scopes
BY DEF TypeOK, ScopeOf, Scopes, FramesAndNone

\* A write goes to the open transaction of the session that was found or
\* remembered, or to the database.
WriteGoes(f, w, s) ==
    /\ phase[f] = "body" /\ w \in WriteRecords /\ w \notin wrote
    /\ w.attached <=> Attached(f)
    /\ wrote' = wrote \union {w}
    /\ \/ /\ s \in Frames /\ kind[s] = "txn" /\ phase[s] \in Working /\ attempt[s] > 0
          /\ committed[s] = 0 /\ (w.attached => w.scope = <<s, attempt[s]>>)
          /\ staged' = [staged EXCEPT ![s] = @ \union {w}] /\ durable' = durable
       \/ /\ w.attached => w.scope = NoScope
          /\ durable' = durable \union {w} /\ staged' = staged
    /\ UNCHANGED <<phase, attempt, session, callVars, ctxVars, committed, hook,
                    listeners, fired>>

LEMMA WriteLands ==
  ASSUME IInv, NEW f \in Frames, NEW own \in Frames \union {None}, Write(f, own)
  PROVE  \E w, s : WriteGoes(f, w, s)
<1>. DEFINE found == SessionOf(f)
            s == IF found = None THEN own ELSE found
            inTransaction == IF s = None THEN FALSE ELSE session[s] = "active"
            w == [frame |-> f, attached |-> Attached(f), scope |->
                     IF ScopeOf(f) = NoScope /\ inTransaction THEN <<s, attempt[s]>>
                                                              ELSE ScopeOf(f)]
<1>1. /\ phase[f] = "body" /\ w \notin wrote /\ wrote' = wrote \union {w}
      /\ \/ /\ inTransaction /\ durable' = durable
            /\ staged' = [staged EXCEPT ![s] = @ \union {w}]
         \/ ~inTransaction /\ durable' = durable \union {w} /\ staged' = staged
      /\ UNCHANGED <<phase, attempt, session, callVars, ctxVars, committed, hook,
                      listeners, fired>>
  BY DEF Write, hookVars
<1>2. found \in Frames \union {None}
  <2>1. /\ conn[f] \in Conns /\ path[f] \in Seq(Contexts)
        /\ sessionIn[conn[f]] \in [Contexts -> FramesAndNone \union {Unset}]
    BY DEF IInv, TypeOK
  <2>2. Lookup(sessionIn[conn[f]], path[f]) \in FramesAndNone
    BY <2>1, LookupFinds DEF FramesAndNone
  <2>. QED  BY <2>2 DEF SessionOf, FramesAndNone
<1>3. s \in Frames \union {None}
  BY <1>2
<1>4. inTransaction => /\ s \in Frames /\ kind[s] = "txn" /\ phase[s] \in Working
                       /\ attempt[s] > 0 /\ committed[s] = 0
  BY <1>3 DEF IInv, FrameFits, Working
<1>5. Attached(f) => w.scope = IF inTransaction THEN <<s, attempt[s]>> ELSE NoScope
  <2>. SUFFICES ASSUME Attached(f)
                PROVE  w.scope = IF inTransaction THEN <<s, attempt[s]>> ELSE NoScope
    OBVIOUS
  <2>1. /\ ScopeOf(f) = NoScope <=> found = None
        /\ found # None => /\ ScopeOf(f) = <<found, attempt[found]>>
                           /\ session[found] = "active"
    BY <1>1, ScopeIsOpen
  <2>2. CASE found = None
    BY <2>1, <2>2
  <2>3. CASE found # None
    BY <2>1, <2>3
  <2>. QED  BY <2>2, <2>3
<1>6. w \in WriteRecords
  <2>1. ScopeOf(f) \in Scopes /\ Attached(f) \in BOOLEAN
    BY ScopeType DEF IInv, Attached
  <2>2. inTransaction => <<s, attempt[s]>> \in Scopes
    BY <1>3, <1>4 DEF IInv, TypeOK, Scopes, FramesAndNone
  <2>. QED  BY <2>1, <2>2 DEF WriteRecords
<1>7. w.attached <=> Attached(f)
  OBVIOUS
<1>8. WriteGoes(f, w, s)
  <2>. HIDE DEF w, s, inTransaction
  <2>. QED  BY <1>1, <1>4, <1>5, <1>6, <1>7 DEF WriteGoes
<1>. QED  BY <1>8

LEMMA WriteKeeps ==
  ASSUME IInv, NEW f \in Frames, NEW own \in Frames \union {None}, Write(f, own)
  PROVE  IInv'
<1>1. PICK w, s : WriteGoes(f, w, s)
  BY WriteLands
<1>2. /\ w \in WriteRecords /\ w \notin wrote /\ wrote' = wrote \union {w}
      /\ UNCHANGED <<phase, attempt, session, callVars, ctxVars, committed, hook,
                      listeners, fired>>
  BY <1>1 DEF WriteGoes
<1>3. UNCHANGED <<kind, prop, conn, path, callers, scope, restore, sessionIn, hookIn>>
  BY <1>2 DEF callVars, ctxVars
<1>4. \/ /\ s \in Frames /\ kind[s] = "txn" /\ phase[s] \in Working /\ attempt[s] > 0
         /\ committed[s] = 0 /\ (w.attached => w.scope = <<s, attempt[s]>>)
         /\ staged'[s] = staged[s] \union {w} /\ durable' = durable
         /\ \A t \in Frames \ {s} : staged'[t] = staged[t]
      \/ /\ w.attached => w.scope = NoScope
         /\ durable' = durable \union {w} /\ staged' = staged
  BY <1>1 DEF WriteGoes, IInv, TypeOK
<1>5. TypeOK'
  <2>1. staged' \in [Frames -> SUBSET WriteRecords]
    <3>1. staged \in [Frames -> SUBSET WriteRecords]
      BY DEF IInv, TypeOK
    <3>2. CASE staged' = [staged EXCEPT ![s] = @ \union {w}]
      BY <1>2, <3>1, <3>2
    <3>. QED  BY <1>1, <3>1, <3>2 DEF WriteGoes
  <2>2. durable' \subseteq WriteRecords /\ wrote' \subseteq WriteRecords
    BY <1>2, <1>4 DEF IInv, TypeOK
  <2>. QED  BY <1>2, <1>3, <2>1, <2>2 DEF IInv, TypeOK
<1>6. \A g \in Frames : FrameFits(g)' /\ ContextFits(g)' /\ CallersFit(g)' /\ AttachedFits(g)'
  BY <1>2, FramesUnchanged
<1>7. w \notin durable /\ \A t \in Frames : w \notin staged[t]
  BY <1>2 DEF IInv, WritesFit
<1>8. WritesFit'
  <2>1. ASSUME NEW v \in wrote, v.attached PROVE WriteFits(v)'
    <3>1. WriteFits(v) /\ v # w
      BY <1>2, <2>1 DEF IInv, WritesFit
    <3>2. /\ v \in durable' <=> v \in durable
          /\ \A t \in Frames : v \in staged'[t] <=> v \in staged[t]
      BY <1>4, <3>1
    <3>. QED  BY <1>2, <1>3, <3>1, <3>2 DEF WriteFits
  <2>2. ASSUME w.attached PROVE WriteFits(w)'
    <3>1. CASE w.scope = NoScope /\ durable' = durable \union {w} /\ staged' = staged
      BY <1>7, <3>1 DEF WriteFits
    <3>2. CASE /\ s \in Frames /\ kind[s] = "txn" /\ phase[s] \in Working /\ attempt[s] > 0
               /\ committed[s] = 0 /\ w.scope = <<s, attempt[s]>>
               /\ staged'[s] = staged[s] \union {w} /\ durable' = durable
               /\ \A t \in Frames \ {s} : staged'[t] = staged[t]
      <4>1. w.scope # NoScope /\ w.scope[1] = s /\ w.scope[2] = attempt[s]
        BY <3>2, FramesAssumption DEF NoScope
      <4>2. w \notin durable' /\ \A t \in Frames : w \in staged'[t] <=> t = s
        BY <1>7, <3>2
      <4>3. attempt[s] \in Nat /\ attempt' = attempt /\ kind' = kind /\ phase' = phase
            /\ committed' = committed
        BY <1>2, <1>3, <3>2, FramesAssumption DEF IInv, TypeOK
      <4>. QED  BY <3>2, <4>1, <4>2, <4>3 DEF WriteFits
    <3>. QED  BY <1>4, <2>2, <3>1, <3>2
  <2>3. durable' \subseteq wrote' /\ \A t \in Frames : staged'[t] \subseteq wrote'
    BY <1>2, <1>4 DEF IInv, WritesFit
  <2>. QED  BY <1>2, <2>1, <2>2, <2>3 DEF WritesFit
<1>9. ListenersFit'
  <2>1. \A l : Ours(l)' <=> Ours(l)
    BY <1>3 DEF Ours, OneConnection
  <2>. QED  BY <1>2, <1>3, <2>1 DEF IInv, ListenersFit
<1>. QED  BY <1>5, <1>6, <1>8, <1>9 DEF IInv

LEMMA ListenKeeps ==
  ASSUME IInv, NEW f \in Frames, NEW ev \in Events, Listen(f, ev)
  PROVE  IInv'
<1>1. PICK l, h : /\ l = [frame |-> f, event |-> ev, scope |-> ScopeOf(f),
                          attached |-> Attached(f)]
                  /\ h = HookOf(f)
  OBVIOUS
<1>2. /\ phase[f] = "body" /\ h # None
      /\ listeners' = [listeners EXCEPT ![h] = @ \union {l}]
      /\ UNCHANGED <<phase, attempt, session, callVars, ctxVars, dbVars, hook, fired>>
  BY <1>1 DEF Listen
<1>3. UNCHANGED <<kind, prop, conn, path, callers, scope, restore, sessionIn, hookIn,
                  staged, durable, wrote, committed>>
  BY <1>2 DEF callVars, ctxVars, dbVars
<1>4. /\ l \in ListenerRecords /\ l.scope = ScopeOf(f) /\ (l.attached <=> Attached(f))
      /\ l.frame = f /\ h \in Frames
  <2>1. ScopeOf(f) \in Scopes /\ Attached(f) \in BOOLEAN
    BY ScopeType DEF IInv, Attached
  <2>. QED  BY <1>1, <1>2, <2>1, HookIsOwn DEF ListenerRecords
<1>5. TypeOK'
  <2>1. listeners' \in [Frames -> SUBSET ListenerRecords]
    BY <1>2, <1>4 DEF IInv, TypeOK
  <2>. QED  BY <1>2, <1>3, <2>1 DEF IInv, TypeOK
<1>6. \A g \in Frames : FrameFits(g)' /\ ContextFits(g)' /\ CallersFit(g)' /\ AttachedFits(g)'
  BY <1>2, <1>3, FramesUnchanged
<1>7. WritesFit'
  BY <1>2, <1>3 DEF IInv, WritesFit, WriteFits
<1>8. ListenersFit'
  <2>1. \A m : Ours(m)' <=> Ours(m)
    BY <1>3 DEF Ours, OneConnection
  <2>2. Ours(l) => l.scope[1] = h /\ kind[h] = "txn"
    <3>. SUFFICES ASSUME Ours(l) PROVE l.scope[1] = h /\ kind[h] = "txn"
      OBVIOUS
    <3>1. Attached(f) /\ OneConnection(f) /\ ScopeOf(f) # NoScope
      BY <1>4 DEF Ours
    <3>. QED  BY <1>1, <1>2, <1>4, <3>1, ScopeIsOpen DEF IInv, AttachedFits
  <2>3. \A t \in Frames : \A m \in listeners'[t] : m \in listeners[t] \/ (m = l /\ t = h)
    BY <1>2 DEF IInv, TypeOK
  <2>4. \A t \in Frames : \A m \in listeners'[t] :
           phase'[m.frame] # "idle" /\ (Ours(m)' => m.scope[1] = t /\ kind'[t] = "txn")
    BY <1>2, <1>3, <1>4, <2>1, <2>2, <2>3 DEF IInv, ListenersFit
  <2>. QED  BY <1>2, <1>3, <2>1, <2>4 DEF IInv, ListenersFit
<1>. QED  BY <1>5, <1>6, <1>7, <1>8 DEF IInv

-----------------------------------------------------------------------------
LEMMA Inductive == IInv /\ [Next]_vars => IInv'
<1>. SUFFICES ASSUME IInv, [Next]_vars PROVE IInv'
  OBVIOUS
<1>1. ASSUME NEW f \in Frames, NEW pr \in Propagations, NEW cn \in Conns,
             CallFromRoot(f, pr, cn) \/ \E g \in Frames : Call(g, f, pr, cn)
      PROVE  IInv'
  BY <1>1, CallKeeps
<1>2. ASSUME NEW f \in Frames, StartSession(f) \/ Retry(f) PROVE IInv'
  BY <1>2, BeginKeeps
<1>3. ASSUME NEW f \in Frames, StartFails(f) PROVE IInv'
  BY <1>3, StartFailsKeeps
<1>4. ASSUME NEW f \in Frames, NEW own \in Frames \union {None}, Write(f, own) PROVE IInv'
  BY <1>4, WriteKeeps
<1>5. ASSUME NEW f \in Frames, NEW ev \in Events, Listen(f, ev) PROVE IInv'
  BY <1>5, ListenKeeps
<1>6. ASSUME NEW f \in Frames, NEW ok \in BOOLEAN, EndBody(f, ok) \/ EndAttempt(f, ok)
      PROVE  IInv'
  BY <1>6, EndBodyKeeps, EndAttemptKeeps
<1>7. ASSUME NEW f \in Frames, CommitSucceeds(f) \/ CommitUnknown(f) \/ Abort(f) PROVE IInv'
  BY <1>7, OutcomeKeeps
<1>8. ASSUME NEW f \in Frames, EndSession(f) PROVE IInv'
  BY <1>8, EndSessionKeeps
<1>9. ASSUME NEW f \in Frames, EmitHooks(f) PROVE IInv'
  BY <1>9, EmitHooksKeeps
<1>10. CASE UNCHANGED vars
  <2>1. UNCHANGED <<phase, attempt, session, callVars, ctxVars, dbVars, hookVars>>
    BY <1>10 DEF vars
  <2>2. UNCHANGED <<hook, listeners, fired, staged, durable, wrote, committed, kind, prop,
                    conn, path, callers, scope, restore, sessionIn, hookIn>>
    BY <2>1 DEF callVars, ctxVars, dbVars, hookVars
  <2>3. \A f \in Frames : /\ FrameFits(f)' /\ ContextFits(f)'
                          /\ CallersFit(f)' /\ AttachedFits(f)'
    BY <2>1, <2>2, FramesUnchanged
  <2>4. TypeOK' /\ WritesFit'
    BY <2>1, <2>2 DEF IInv, TypeOK, WritesFit, WriteFits
  <2>5. ListenersFit'
    BY <2>1, <2>2 DEF IInv, ListenersFit, Ours, OneConnection
  <2>. QED  BY <2>3, <2>4, <2>5 DEF IInv
<1>. QED
  BY <1>1, <1>2, <1>3, <1>4, <1>5, <1>6, <1>7, <1>8, <1>9, <1>10 DEF Next

LEMMA Invariance == Spec => []IInv
BY InitHolds, Inductive, PTL DEF Spec

\* Every variable keeps its type, for any frames, connections and attempts.
THEOREM TypeCorrect == Spec => []TypeOK
<1>1. IInv => TypeOK
  BY DEF IInv
<1>. QED  BY <1>1, Invariance, PTL

\* A body whose callers wait runs in the transaction that its propagation type
\* asks for, still open and of its own connection, however calls are nested
\* (wrapInTransaction.ts:95-133).
THEOREM ScopesFollowPropagation == Spec => []ScopeFollowsPropagation
<1>1. IInv => ScopeFollowsPropagation
  <2>. SUFFICES ASSUME IInv, NEW f \in Frames, phase[f] = "body", Attached(f)
                PROVE  LET s == SessionOf(f)
                       IN  /\ s = ScopeOf(f)[1]
                           /\ prop[f] \in {"REQUIRED", "MANDATORY"} => s # None
                           /\ prop[f] \in {"NEVER", "NOT_SUPPORTED"} => s = None
                           /\ s # None => /\ session[s] = "active"
                                          /\ attempt[s] = ScopeOf(f)[2]
                                          /\ conn[s] = conn[f]
    BY DEF ScopeFollowsPropagation
  <2>1. /\ prop[f] \in {"REQUIRED", "MANDATORY"} => ScopeOf(f) # NoScope
        /\ prop[f] \in {"NEVER", "NOT_SUPPORTED"} => ScopeOf(f) = NoScope
    BY DEF IInv, FrameFits
  <2>. QED  BY <2>1, ScopeIsOpen
<1>. QED  BY <1>1, Invariance, PTL

\* The writes of an attempt are in the database exactly when it committed.
THEOREM WritesAreAtomic == Spec => []AllOrNothing
<1>1. IInv => AllOrNothing
  <2>. SUFFICES ASSUME IInv, NEW w \in wrote, w.attached
                PROVE  w \in durable <=> w.scope = NoScope \/ committed[w.scope[1]] = w.scope[2]
    BY DEF AllOrNothing
  <2>1. WriteFits(w)
    BY DEF IInv, WritesFit
  <2>. QED  BY <2>1 DEF WriteFits
<1>. QED  BY <1>1, Invariance, PTL

\* A body whose callers wait registers listeners on the open emitter of its
\* transaction.
THEOREM HooksFollowScope == Spec => []HookFollowsScope
<1>1. IInv => HookFollowsScope
  <2>. SUFFICES ASSUME IInv, NEW f \in Frames, phase[f] = "body", Attached(f), OneConnection(f)
                PROVE  /\ HookOf(f) # None => hook[HookOf(f)] = "open"
                       /\ ScopeOf(f) # NoScope => HookOf(f) = ScopeOf(f)[1]
                       /\ ScopeOf(f) = NoScope /\ HookOf(f) # None =>
                            kind[HookOf(f)] = "hooked"
    BY DEF HookFollowsScope
  <2>1. HookOf(f) # None => hook[HookOf(f)] = "open"
    <3>. SUFFICES ASSUME HookOf(f) # None PROVE hook[HookOf(f)] = "open"
      OBVIOUS
    <3>1. PICK h : h = HookOf(f)
      OBVIOUS
    <3>2. h \in Frames /\ kind[h] # "plain" /\ h \in Callers(callers[f]) \union {f}
      BY <3>1, HookIsOwn
    <3>3. phase[h] = "body"
      BY <3>2 DEF Callers, Attached
    <3>. QED  BY <3>1, <3>2, <3>3 DEF IInv, FrameFits
  <2>. QED  BY <2>1 DEF IInv, AttachedFits
<1>. QED  BY <1>1, Invariance, PTL

\* "commit" listeners run only for a transaction that committed, never together
\* with its "rollback" listeners.
THEOREM OutcomeReachesListeners == Spec => []ListenersFollowOutcome
<1>1. IInv => ListenersFollowOutcome
  <2>. SUFFICES ASSUME IInv, NEW s \in Frames, NEW l \in FiredIn(s), NEW m \in FiredIn(s),
                       l.event = "commit"
                PROVE  committed[s] # 0 /\ m.event # "rollback"
    BY DEF ListenersFollowOutcome
  <2>1. s # None
    BY FramesAssumption
  <2>2. l \in fired /\ m \in fired /\ Ours(l) /\ Ours(m) /\ l.scope[1] = s /\ m.scope[1] = s
    BY <2>1 DEF FiredIn, Ours, NoScope
  <2>. QED  BY <2>2 DEF IInv, ListenersFit
<1>. QED  BY <1>1, Invariance, PTL

\* A body finds no session whose transaction is over, not even one that outlived
\* its callers, if none of them was NOT_SUPPORTED.
THEOREM NoDeadSessions == Spec => []NoDeadSession
<1>1. IInv => NoDeadSession
  <2>. SUFFICES ASSUME IInv, NEW f \in Frames, phase[f] = "body",
                       \A g \in {f} \union Callers(callers[f]) : prop[g] # "NOT_SUPPORTED"
                PROVE  SessionOf(f) = None \/ session[SessionOf(f)] = "active"
    BY DEF NoDeadSession, Callers
  <2>1. path[f] \in Seq(Contexts) /\ conn[f] \in Conns
    BY DEF IInv, TypeOK
  <2>2. ASSUME NEW i \in 1..Len(path[f]), sessionIn[conn[f]][path[f][i]] # Unset,
               SessionOf(f) = sessionIn[conn[f]][path[f][i]], SessionOf(f) # None
        PROVE  session[SessionOf(f)] = "active"
    <3>1. PICK x \in Contexts : x = path[f][i]
      BY <2>1, <2>2
    <3>2. PICK h \in Frames : h = x[1] /\ prop[h] # "NOT_SUPPORTED"
      BY <2>2, <3>1, ContextParts DEF IInv, CallersFit
    <3>3. x = HookCtx(h)
      BY <2>1, <2>2, <3>1, <3>2, ContextParts DEF IInv, ContextFits
    <3>4. SessionOf(f) = h /\ kind[h] = "txn" /\ phase[h] = "body"
      BY <2>1, <2>2, <3>1, <3>3 DEF IInv, ContextFits
    <3>. QED  BY <3>4 DEF IInv, FrameFits, Working
  <2>. QED  BY <2>1, <2>2, LookupFinds DEF SessionOf
<1>. QED  BY <1>1, Invariance, PTL

-----------------------------------------------------------------------------
(* Refinement: sessions, contexts and retries implement AtomicTransactions *)

\* The attached writes in the database and in sessions, as Atomic sees them.
Durable == {w \in durable : w.attached}
Pending == {w \in UNION {staged[f] : f \in Frames} : w.attached}

AtomicStep == [Atomic!Next]_(Atomic!vars)

LEMMA Stutter ==
  ASSUME Durable' = Durable, Pending' = Pending, Over' = Over
  PROVE  AtomicStep
BY DEF AtomicStep, Atomic!vars, Durable, Pending

\* The attempts of g that are over.
Ended(g) ==
    {n \in 1..MaxAttempts :
        /\ kind[g] = "txn"
        /\ \/ n < attempt[g]
           \/ n = attempt[g] /\ phase[g] \in {"ending", "done"}}

LEMMA OverByFrame ==
  /\ \A t : t \in Over <=> t \in Frames \X (1..MaxAttempts) /\ t[2] \in Ended(t[1])
  /\ \A t : t \in Over' <=> t \in Frames \X (1..MaxAttempts) /\ t[2] \in Ended(t[1])'
BY DEF Over, Ended

LEMMA OverSame ==
  ASSUME \A g \in Frames : Ended(g)' = Ended(g)
  PROVE  Over' = Over
<1>1. \A t : t \in Over' <=> t \in Over
  <2>. SUFFICES ASSUME NEW t \in Frames \X (1..MaxAttempts) PROVE t \in Over' <=> t \in Over
    BY OverByFrame
  <2>1. Ended(t[1])' = Ended(t[1])
    OBVIOUS
  <2>. QED  BY <2>1, OverByFrame
<1>. QED  BY <1>1

LEMMA OverGrows ==
  ASSUME NEW f \in Frames, NEW n \in 1..MaxAttempts, n \notin Ended(f),
         Ended(f)' = Ended(f) \union {n},
         \A g \in Frames \ {f} : Ended(g)' = Ended(g)
  PROVE  <<f, n>> \notin Over /\ Over' = Over \union {<<f, n>>}
<1>1. <<f, n>> \notin Over
  BY OverByFrame
<1>2. ASSUME NEW t PROVE t \in Over' <=> t \in Over \/ t = <<f, n>>
  <2>1. CASE t \in Frames \X (1..MaxAttempts) /\ t[1] = f
    <3>1. t = <<f, n>> <=> t[2] = n
      BY <2>1
    <3>2. t \in Over <=> t[2] \in Ended(f)
      BY <2>1, OverByFrame
    <3>3. t \in Over' <=> t[2] \in Ended(f)'
      BY <2>1, OverByFrame
    <3>. QED  BY <3>1, <3>2, <3>3
  <2>2. CASE t \in Frames \X (1..MaxAttempts) /\ t[1] # f
    <3>1. Ended(t[1])' = Ended(t[1]) /\ t # <<f, n>>
      BY <2>2
    <3>. QED  BY <2>2, <3>1, OverByFrame
  <2>3. CASE t \notin Frames \X (1..MaxAttempts)
    BY <2>3, OverByFrame
  <2>. QED  BY <2>1, <2>2, <2>3
<1>. QED  BY <1>1, <1>2

\* Steps that move no write and end no attempt.
LEMMA QuietStep ==
  ASSUME UNCHANGED <<staged, durable>>, \A g \in Frames : Ended(g)' = Ended(g)
  PROVE  AtomicStep
BY OverSame, Stutter DEF Durable, Pending

\* A step of f that stays in its attempt, or has not begun one.
LEMMA SameAttempt ==
  ASSUME NEW f \in Frames,
         \A g \in Frames \ {f} :
            phase'[g] = phase[g] /\ kind'[g] = kind[g] /\ attempt'[g] = attempt[g],
         \/ /\ kind'[f] = kind[f] /\ attempt'[f] = attempt[f]
            /\ \/ kind[f] # "txn" \/ attempt[f] = 0
               \/ phase'[f] \in {"ending", "done"} <=> phase[f] \in {"ending", "done"}
         \/ /\ kind[f] # "txn" \/ attempt[f] = 0
            /\ kind'[f] # "txn" \/ attempt'[f] = 0
         \/ /\ kind'[f] = kind[f] /\ attempt[f] = 0 /\ attempt'[f] = 1
            /\ phase'[f] \notin {"ending", "done"}
  PROVE  \A g \in Frames : Ended(g)' = Ended(g)
<1>1. \A g \in Frames \ {f} : Ended(g)' = Ended(g)
  BY DEF Ended
<1>2. Ended(f)' = Ended(f)
  BY DEF Ended
<1>. QED  BY <1>1, <1>2

\* The attached writes of f that wait are those of its current attempt.
LEMMA PendingOf ==
  ASSUME IInv, NEW f \in Frames, phase[f] \in Working
  PROVE  /\ \A w \in Pending : w.scope = <<f, attempt[f]>> <=> w \in staged[f]
         /\ \A w \in staged[f] : w.attached => w \in Pending
<1>1. ASSUME NEW w \in Pending PROVE w.scope = <<f, attempt[f]>> <=> w \in staged[f]
  <2>1. PICK t \in Frames : w \in staged[t] /\ w.attached
    BY DEF Pending
  <2>2. WriteFits(w) /\ w.scope \in Scopes
    BY <2>1 DEF IInv, TypeOK, WriteRecords, WritesFit
  <2>3. w.scope # NoScope /\ t = w.scope[1] /\ w.scope[2] = attempt[t]
    BY <2>1, <2>2 DEF WriteFits
  <2>4. w.scope = <<t, attempt[t]>>
    BY <2>2, <2>3 DEF Scopes
  <2>5. w \in staged[f] => f = t
    BY <2>2, <2>3 DEF WriteFits
  <2>. QED  BY <2>1, <2>4, <2>5
<1>2. \A w \in staged[f] : w.attached => w \in Pending
  BY DEF Pending
<1>. QED  BY <1>1, <1>2

\* The end of an attempt, with its writes in the database or dropped.
LEMMA AttemptEnds ==
  ASSUME IInv, NEW f \in Frames, phase[f] \in Working, kind[f] = "txn",
         staged' = [staged EXCEPT ![f] = {}],
         durable' = durable \union staged[f] \/ durable' = durable,
         attempt[f] \in 1..MaxAttempts, attempt[f] \notin Ended(f),
         Ended(f)' = Ended(f) \union {attempt[f]},
         \A g \in Frames \ {f} : Ended(g)' = Ended(g)
  PROVE  AtomicStep
<1>1. PICK t : t = <<f, attempt[f]>>
  OBVIOUS
<1>2. t \notin Over /\ Over' = Over \union {t} /\ t \in Frames \X (1..MaxAttempts)
  BY <1>1, OverGrows
<1>3. PICK own : own = {w \in Pending : w.scope = t}
  OBVIOUS
<1>4. \A w : w \in own <=> w \in staged[f] /\ w.attached
  BY <1>1, <1>3, PendingOf DEF Pending
<1>5. Pending' = Pending \ own
  <2>1. staged'[f] = {} /\ \A g \in Frames \ {f} : staged'[g] = staged[g]
    BY DEF IInv, TypeOK
  <2>2. ASSUME NEW w PROVE w \in Pending' <=> w \in Pending /\ w \notin own
    <3>1. w \in Pending' <=> w.attached /\ \E g \in Frames : w \in staged'[g]
      BY DEF Pending
    <3>2. w \in Pending <=> w.attached /\ \E g \in Frames : w \in staged[g]
      BY DEF Pending
    <3>3. w \in Pending /\ w \notin own => \E g \in Frames \ {f} : w \in staged[g]
      BY <1>4, <3>2
    <3>4. ASSUME NEW g \in Frames \ {f}, w \in staged[g], w.attached PROVE w \notin own
      <4>1. WriteFits(w)
        BY <3>4 DEF IInv, WritesFit
      <4>2. w \notin staged[f]
        BY <3>4, <4>1 DEF WriteFits
      <4>. QED  BY <1>4, <4>2
    <3>. QED  BY <2>1, <3>1, <3>2, <3>3, <3>4
  <2>. QED  BY <2>2
<1>6. CASE durable' = durable \union staged[f]
  <2>1. Durable' = Durable \union own
    BY <1>4, <1>6 DEF Durable
  <2>2. Atomic!Commit(t)
    BY <1>2, <1>3, <1>5, <2>1 DEF Atomic!Commit, Atomic!Of, Durable, Pending
  <2>. QED  BY <1>2, <2>2 DEF AtomicStep, Atomic!Next
<1>7. CASE durable' = durable
  <2>1. Durable' = Durable
    BY <1>7 DEF Durable
  <2>2. Atomic!Discard(t)
    BY <1>2, <1>3, <1>5, <2>1 DEF Atomic!Discard, Atomic!Of, Durable, Pending
  <2>. QED  BY <1>2, <2>2 DEF AtomicStep, Atomic!Next
<1>. QED  BY <1>6, <1>7

\* Every step is a step of AtomicTransactions or a stutter.
LEMMA StepIsAtomic == IInv /\ [Next]_vars => AtomicStep
<1>. SUFFICES ASSUME IInv, [Next]_vars PROVE AtomicStep
  OBVIOUS
<1>1. ASSUME NEW f \in Frames, NEW pr \in Propagations, NEW cn \in Conns, NEW p, NEW above,
             phase[f] = "idle", CallFits(p, above, cn), Propagate(f, p, above, pr, cn),
             UNCHANGED <<session, dbVars, listeners, fired>>
      PROVE  AtomicStep
  <2>1. kind[f] # "txn" /\ (kind'[f] # "txn" \/ attempt'[f] = 0)
    <3>1. /\ kind[f] = "plain" /\ attempt[f] = 0
          /\ kind \in [Frames -> {"plain", "hooked", "txn"}]
          /\ attempt \in [Frames -> 0..MaxAttempts]
      BY <1>1 DEF IInv, FrameFits, TypeOK
    <3>. QED  BY <1>1, <3>1
              DEF Propagate, RunOriginal, RunWithNewHook, RunWithNewTransaction, Throw
  <2>2. \A g \in Frames : Ended(g)' = Ended(g)
    BY <1>1, <2>1, PropagateElsewhere, SameAttempt
  <2>. QED  BY <1>1, <2>2, QuietStep DEF dbVars
<1>2. ASSUME NEW f \in Frames, NEW pr \in Propagations, NEW cn \in Conns,
             CallFromRoot(f, pr, cn) \/ \E g \in Frames : Call(g, f, pr, cn)
      PROVE  AtomicStep
  <2>1. CASE CallFromRoot(f, pr, cn)
    BY <1>1, <2>1, RootCall DEF CallFromRoot
  <2>2. ASSUME NEW g \in Frames, Call(g, f, pr, cn) PROVE AtomicStep
    <3>1. PICK above : above = callers[g] \union {<<g, attempt[g]>>}
      OBVIOUS
    <3>2. CallFits(path[g], above, cn)
      BY <2>2, <3>1, NestedCall DEF Call
    <3>. QED  BY <1>1, <2>2, <3>1, <3>2 DEF Call
  <2>. QED  BY <1>2, <2>1, <2>2
<1>3. ASSUME NEW f \in Frames, StartSession(f) PROVE AtomicStep
  <2>1. /\ attempt[f] = 0 /\ kind'[f] = kind[f] /\ attempt'[f] = 1 /\ phase'[f] = "body"
        /\ \A g \in Frames \ {f} :
             phase'[g] = phase[g] /\ kind'[g] = kind[g] /\ attempt'[g] = attempt[g]
    BY <1>3 DEF StartSession, BeginAttempt, callVars, IInv, TypeOK, FrameFits
  <2>2. \A g \in Frames : Ended(g)' = Ended(g)
    BY <2>1, SameAttempt
  <2>. QED  BY <1>3, <2>2, QuietStep DEF StartSession, dbVars
<1>4. ASSUME NEW f \in Frames,
             \/ StartFails(f) \/ EndSession(f) \/ EmitHooks(f)
             \/ \E ev \in Events : Listen(f, ev)
             \/ \E ok \in BOOLEAN : EndBody(f, ok) \/ EndAttempt(f, ok)
      PROVE  AtomicStep
  <2>1. /\ UNCHANGED <<kind, attempt, staged, durable>>
        /\ \/ phase' = phase
           \/ /\ phase' = [phase EXCEPT ![f] = "done"]
              /\ kind[f] # "txn" \/ phase[f] \in {"starting", "ending"}
           \/ /\ phase[f] = "body"
              /\ \/ phase' = [phase EXCEPT ![f] = "committing"]
                 \/ phase' = [phase EXCEPT ![f] = "aborting"]
    BY <1>4 DEF StartFails, EndSession, EmitHooks, Listen, EndBody, EndAttempt, callVars, dbVars
  <2>2. /\ \A g \in Frames \ {f} : phase'[g] = phase[g]
        /\ \/ kind[f] # "txn" \/ attempt[f] = 0
           \/ phase'[f] \in {"ending", "done"} <=> phase[f] \in {"ending", "done"}
    BY <2>1 DEF IInv, TypeOK, FrameFits
  <2>3. \A g \in Frames : Ended(g)' = Ended(g)
    BY <2>1, <2>2, SameAttempt
  <2>. QED  BY <2>1, <2>3, QuietStep
<1>5. ASSUME NEW f \in Frames, NEW own \in Frames \union {None}, Write(f, own)
      PROVE  AtomicStep
  <2>1. PICK w, s : WriteGoes(f, w, s)
    BY <1>5, WriteLands
  <2>2. w \in WriteRecords /\ Over' = Over
    BY <2>1 DEF WriteGoes, callVars, Over
  <2>3. CASE ~w.attached
    <3>1. Durable' = Durable
      BY <2>1, <2>3 DEF WriteGoes, Durable
    <3>2. ASSUME NEW v PROVE v \in Pending' <=> v \in Pending
      <4>1. v \in Pending' <=> v.attached /\ \E g \in Frames : v \in staged'[g]
        BY DEF Pending
      <4>2. v \in Pending <=> v.attached /\ \E g \in Frames : v \in staged[g]
        BY DEF Pending
      <4>3. ASSUME v.attached, NEW g \in Frames PROVE v \in staged'[g] <=> v \in staged[g]
        <5>1. staged \in [Frames -> SUBSET WriteRecords] /\ v # w
          BY <2>3, <4>3 DEF IInv, TypeOK
        <5>2. staged' = staged \/ staged' = [staged EXCEPT ![s] = @ \union {w}]
          BY <2>1 DEF WriteGoes
        <5>3. staged'[g] = staged[g] \/ staged'[g] = staged[g] \union {w}
          BY <5>1, <5>2
        <5>. QED  BY <5>1, <5>3
      <4>. QED  BY <4>1, <4>2, <4>3
    <3>. QED  BY <2>2, <3>1, <3>2, Stutter
  <2>4. CASE /\ w.attached /\ w.scope = NoScope
             /\ durable' = durable \union {w} /\ staged' = staged
    <3>1. Durable' = Durable \union {w} /\ Pending' = Pending
      BY <2>4 DEF Durable, Pending
    <3>2. Atomic!WriteAlone(w)
      BY <2>2, <2>4, <3>1 DEF Atomic!WriteAlone, Durable, Pending
    <3>. QED  BY <2>2, <3>2 DEF AtomicStep, Atomic!Next
  <2>5. CASE /\ w.attached /\ s \in Frames /\ phase[s] \in Working /\ attempt[s] > 0
             /\ w.scope = <<s, attempt[s]>> /\ durable' = durable
             /\ staged' = [staged EXCEPT ![s] = @ \union {w}]
    <3>1. w.scope \in (Frames \X (1..MaxAttempts)) \ Over
      <4>1. attempt[s] \in 1..MaxAttempts
        BY <2>5, FramesAssumption DEF IInv, TypeOK
      <4>2. attempt[s] \notin Ended(s)
        BY <2>5, <4>1 DEF Ended, Working
      <4>. QED  BY <2>5, <4>1, <4>2, OverByFrame
    <3>2. /\ staged'[s] = staged[s] \union {w}
          /\ \A g \in Frames \ {s} : staged'[g] = staged[g]
      BY <2>5 DEF IInv, TypeOK
    <3>3. ASSUME NEW v PROVE v \in Pending' <=> v \in Pending \/ v = w
      <4>1. v \in Pending' <=> v.attached /\ \E g \in Frames : v \in staged'[g]
        BY DEF Pending
      <4>2. v \in Pending <=> v.attached /\ \E g \in Frames : v \in staged[g]
        BY DEF Pending
      <4>. QED  BY <2>5, <3>2, <4>1, <4>2
    <3>4. Durable' = Durable /\ Pending' = Pending \union {w}
      BY <2>5, <3>3 DEF Durable
    <3>5. Atomic!WriteIn(w)
      BY <2>2, <3>1, <3>4 DEF Atomic!WriteIn, Durable, Pending
    <3>. QED  BY <2>2, <3>5 DEF AtomicStep, Atomic!Next
  <2>. QED  BY <2>1, <2>3, <2>4, <2>5 DEF WriteGoes
<1>6. ASSUME NEW f \in Frames,
             CommitSucceeds(f) \/ CommitUnknown(f) \/ Abort(f) \/ Retry(f)
      PROVE  AtomicStep
  <2>1. /\ phase[f] \in {"committing", "aborting"} /\ staged' = [staged EXCEPT ![f] = {}]
        /\ durable' = durable \union staged[f] \/ durable' = durable
        /\ kind' = kind
        /\ \/ phase' = [phase EXCEPT ![f] = "ending"] /\ attempt' = attempt
           \/ /\ phase' = [phase EXCEPT ![f] = "body"]
              /\ attempt' = [attempt EXCEPT ![f] = @ + 1]
    BY <1>6 DEF CommitSucceeds, CommitUnknown, Abort, Retry, Commit, BeginAttempt, callVars
  <2>2. kind[f] = "txn" /\ attempt[f] \in 1..MaxAttempts /\ MaxAttempts \in Nat
    <3>1. kind[f] = "txn" /\ attempt[f] > 0
      BY <2>1 DEF IInv, FrameFits
    <3>2. attempt[f] \in 0..MaxAttempts /\ MaxAttempts \in Nat
      BY FramesAssumption DEF IInv, TypeOK
    <3>. QED  BY <3>1, <3>2
  <2>3. /\ \A g \in Frames \ {f} : phase'[g] = phase[g] /\ attempt'[g] = attempt[g]
        /\ \/ phase'[f] = "ending" /\ attempt'[f] = attempt[f]
           \/ phase'[f] = "body" /\ attempt'[f] = attempt[f] + 1
    BY <2>1, <2>2 DEF IInv, TypeOK
  <2>4. \A g \in Frames \ {f} : Ended(g)' = Ended(g)
    BY <2>1, <2>3 DEF Ended
  <2>5. attempt[f] \notin Ended(f)
    BY <2>1, <2>2 DEF Ended
  <2>6. Ended(f)' = Ended(f) \union {attempt[f]}
    <3>. SUFFICES ASSUME NEW n \in 1..MaxAttempts
                  PROVE  n \in Ended(f)' <=> n \in Ended(f) \/ n = attempt[f]
      BY <2>2 DEF Ended
    <3>1. n \in Ended(f) <=> n < attempt[f]
      BY <2>1, <2>2 DEF Ended
    <3>2. n \in Ended(f)' <=> n <= attempt[f]
      BY <2>1, <2>2, <2>3 DEF Ended
    <3>. QED  BY <2>2, <3>1, <3>2
  <2>. QED  BY <2>1, <2>2, <2>4, <2>5, <2>6, AttemptEnds DEF Working
<1>7. CASE UNCHANGED vars
  BY <1>7, Stutter DEF vars, callVars, dbVars, Durable, Pending, Over
<1>. QED
  BY <1>2, <1>3, <1>4, <1>5, <1>6, <1>7 DEF Next

\* Wrapped methods, their contexts, sessions, retries and lost answers, make
\* transactions: the writes of an attempt reach the database together or never.
THEOREM TransactionsAreAtomic == Spec => ImplementsAtomic
<1>1. Init => Atomic!Init
  <2>. SUFFICES ASSUME Init PROVE Atomic!Init
    OBVIOUS
  <2>1. Durable = {} /\ Pending = {}
    BY DEF Init, Durable, Pending
  <2>2. Over = {}
    BY DEF Init, Over
  <2>. QED  BY <2>1, <2>2 DEF Atomic!Init, Durable, Pending
<1>2. Spec => Atomic!Init /\ [][Atomic!Next]_(Atomic!vars)
  BY <1>1, StepIsAtomic, Invariance, PTL DEF Spec, AtomicStep
<1>. QED  BY <1>2 DEF ImplementsAtomic, Atomic!Spec
=============================================================================
