------------------------------ MODULE MCClients -----------------------------
(***************************************************************************)
(* The telemetry service around presence (limiter, heartbeat, pairing,     *)
(* connection pool, the history its owner reads) and the SCMDB sink, each  *)
(* with its own tables and counters.  A behaviour follows one ("part");     *)
(* the pairing's variables and properties are those of Pairing itself.     *)
(***************************************************************************)
EXTENDS Pairing, TLC

CONSTANTS Keys, Peers, Devices, Workers, Nesting, Rows,
          Limit, Window, MaxEntries, MaxTime, MaxCount,  \* see RequestLimit
          PerPeerLimit, GlobalLimit, MaxPeers,           \* see Heartbeat
          PoolMax, Ids, PageSize, LastInstant            \* see PoolUse, HistoryView

VARIABLES part,
  now, entries, overflow, liAnswer, admitted, told,
  hbPc, peer, device, result, hbAnswer, activeByPeer, activeTotal, revoked, blocked,
    deleted, was,
  poPc, held, waiting, owner, poRow,
  connection, identity, events, rowLock, accountLock, siPc, token, event, sender,
    kind, binds, counted, senders, accepted,
  viNow, viRows, past, viEntries, cursor, buttons, call, since, overlapped

limiterVars == <<now, entries, overflow, liAnswer, admitted, told>>
beatVars == <<hbPc, peer, device, result, hbAnswer, activeByPeer, activeTotal,
  revoked, blocked, deleted, was>>
poolVars == <<poPc, held, waiting, owner, poRow>>
sinkVars == <<connection, identity, events, rowLock, accountLock, siPc, token,
  event, sender, kind, binds, counted, senders, accepted>>
viewVars == <<viNow, viRows, past, viEntries, cursor, buttons, call, since, overlapped>>
allVars == <<part, limiterVars, beatVars, vars, poolVars, sinkVars, viewVars>>

Limiter == INSTANCE RequestLimit WITH answer <- liAnswer

Beat == INSTANCE Heartbeat WITH
  Requests <- Keys, pc <- hbPc, answer <- hbAnswer

Pool == INSTANCE PoolUse WITH
  Handlers <- Workers, pc <- poPc, row <- poRow

Sink == INSTANCE ScmdbSink WITH
  Posts <- Keys, Connects <- Peers, Tokens <- Creates, Events <- Nesting,
  Senders <- Nesting, pc <- siPc

Atomic == INSTANCE AtomicSink WITH
  Tokens <- Creates, Events <- Nesting, Senders <- Nesting, applied <- counted,
  answered <- accepted

View == INSTANCE HistoryView WITH
  Calls <- Peers, MaxTime <- LastInstant, now <- viNow, rows <- viRows,
  entries <- viEntries

ASSUME PartsAssumption ==
  /\ Limiter!RequestLimitAssumption /\ Beat!HeartbeatAssumption
  /\ PairingAssumption /\ Pool!PoolUseAssumption
  /\ Sink!ScmdbSinkAssumption /\ View!HistoryViewAssumption

PartsInit ==
  /\ part \in { "limiter", "beat", "pair", "pool", "sink", "view"}
  /\ Limiter!Init /\ Beat!Init /\ Init /\ Pool!Init
  /\ Sink!Init /\ View!Init

PartsNext ==
  /\ \/ part = "limiter" /\ Limiter!Next
          /\ UNCHANGED <<beatVars, vars, poolVars, sinkVars, viewVars>>
     \/ part = "beat" /\ Beat!Next
          /\ UNCHANGED <<limiterVars, vars, poolVars, sinkVars, viewVars>>
     \/ part = "pair" /\ Next
          /\ UNCHANGED <<limiterVars, beatVars, poolVars, sinkVars, viewVars>>
     \/ part = "pool" /\ Pool!Next
          /\ UNCHANGED <<limiterVars, beatVars, vars, sinkVars, viewVars>>
     \/ part = "sink" /\ Sink!Next
          /\ UNCHANGED <<limiterVars, beatVars, vars, poolVars, viewVars>>
     \/ part = "view" /\ View!Next
          /\ UNCHANGED <<limiterVars, beatVars, vars, poolVars, sinkVars>>
  /\ UNCHANGED part

PartsSpec == PartsInit /\ [][PartsNext]_allVars

Symmetric == Permutations(Keys) \cup Permutations(Peers)
-----------------------------------------------------------------------------
\* The variables of the part a behaviour follows stay in their types.
PartsTypeOK ==
  /\ part = "limiter" => Limiter!TypeOK
  /\ part = "beat" => Beat!TypeOK
  /\ part = "pair" => TypeOK
  /\ part = "pool" => Pool!TypeOK
  /\ part = "sink" => Sink!TypeOK
  /\ part = "view" => View!TypeOK

\* See RequestLimit: two budgets at most in any interval of a window's length.
BudgetIsExact == Limiter!BudgetIsExact

\* See RequestLimit: coming back when told is refused only by a map filled since.
RetryIsUseful == Limiter!RetryIsUseful

\* See Heartbeat: the counters are the running lookups.
SlotsAreExact == Beat!SlotsAreExact

\* See Heartbeat: every answer was true at a moment of its request.
AnswersAreTimely == Beat!AnswersAreTimely

\* See PoolUse: the pool stops only when a holder asks for a second connection.
StuckOnlyByNesting == Pool!StuckOnlyByNesting

\* See AtomicSink: however its statements interleave, a delivery takes effect at one
\* moment, at which its connection is alive and its sender's, and its event is applied
\* for the first time or answered again (/v1/scmdb in server.js).
SinkIsAtomic == Atomic!Spec

\* See ScmdbSink: a token serves one sender, and none after it was revoked.
SinkIsOwned == Sink!SinkIsOwned

\* See HistoryView: read step by step, the list has every row once and in order.
ViewIsFaithful == View!ViewIsFaithful
=============================================================================
