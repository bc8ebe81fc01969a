-------------------------- MODULE BatchedProvider --------------------------
(***************************************************************************)
(* The Batched mixin of the providers package: read calls made within       *)
(* batchingDelayMs of each other are sent as one aggregate call of the      *)
(* Multicall contract, and its results are handed to the callers by their   *)
(* position.                                                               *)
(*                                                                         *)
(* What call c returns at block b is the pair <<c, b>>, so that an answer   *)
(* tells which call it is the answer of, and at which block.                *)
(***************************************************************************)
EXTENDS Naturals, Sequences

CONSTANTS Calls,     \* the calls that are made, each once
          LATEST,    \* the block tag "latest", which an omitted tag stands for
          REJECTED,  \* the answer of a promise that is rejected
          PENDING,   \* the promise is not settled
          MAX_BLOCK  \* bound: the number of the last block

ASSUME ConstantsAssumption ==
  /\ MAX_BLOCK \in Nat \ {0}
  /\ LATEST \notin 1..MAX_BLOCK
  /\ PENDING # REJECTED
  /\ \A c \in Calls, b \in 1..MAX_BLOCK : <<c, b>> \notin {PENDING, REJECTED}

Blocks == 1..MAX_BLOCK

\* A request carries a tag, and gas or value fields make it unbatchable.
Requests == [blockTag : Blocks \cup {LATEST}, batchable : BOOLEAN]

VARIABLES request,   \* what each call asks for
          multicall, \* whether chainId was set, to a chain that has the contract
          state,     \* how far each call has come
          asked,     \* the latest block when the call was made
          batched,   \* the calls, callbacks and block tag of _batched
          timeout,   \* whether the timer of _enqueueCall is running
          sent,      \* the requests that the node has not answered
          answer,    \* how the promise of each call was settled
          height     \* the latest block

vars == <<request, multicall, state, asked, batched, timeout, sent, answer, height>>

emptyBatch == [calls |-> <<>>, callbacks |-> <<>>, blockTag |-> LATEST]

-----------------------------------------------------------------------------
\* The setter of chainId creates the contract, once.
setChainId ==
  /\ ~multicall
  /\ multicall' = TRUE
  /\ UNCHANGED <<request, state, asked, batched, timeout, sent, answer, height>>

\* The base class sends a call by itself.
superCall(c, blockTag) ==
  sent' = sent \cup {[calls |-> <<c>>, callbacks |-> <<c>>, blockTag |-> blockTag]}

\* call(), up to the await of its arguments.
call(c) ==
  /\ state[c] = "new"
  /\ \E q \in Requests : /\ q.blockTag # LATEST => q.blockTag <= height
                         /\ request' = [request EXCEPT ![c] = q]
  /\ asked' = [asked EXCEPT ![c] = height]
  /\ IF multicall THEN state' = [state EXCEPT ![c] = "resolving"] /\ UNCHANGED sent
                  ELSE state' = [state EXCEPT ![c] = "made"] /\ superCall(c, request'[c].blockTag)
  /\ UNCHANGED <<multicall, batched, timeout, answer, height>>

\* A slip: calls of any block join the batch.
neverConflictsWith(blockTag) == FALSE

alreadyBatchedCallsConflictWith(blockTag) ==
  batched.calls # <<>> /\ blockTag # batched.blockTag

\* _enqueueCall: the timer starts again, the call and its callback are appended.
enqueueCall(c) ==
  /\ batched' = [calls |-> Append(batched.calls, c),
                 callbacks |-> Append(batched.callbacks, c),
                 blockTag |-> IF batched.calls = <<>> THEN request[c].blockTag ELSE batched.blockTag]
  /\ timeout' = TRUE

\* call(), after the await.
resolved(c) ==
  /\ state[c] = "resolving"
  /\ state' = [state EXCEPT ![c] = "made"]
  /\ IF ~request[c].batchable \/ alreadyBatchedCallsConflictWith(request[c].blockTag)
       THEN superCall(c, request[c].blockTag) /\ UNCHANGED <<batched, timeout>>
       ELSE enqueueCall(c) /\ UNCHANGED sent
  /\ UNCHANGED <<request, multicall, asked, answer, height>>

\* A slip: no new batch begins.
dispatchCallsAgain ==
  /\ timeout
  /\ timeout' = FALSE
  /\ sent' = sent \cup {batched}
  /\ UNCHANGED <<request, multicall, state, asked, batched, answer, height>>

\* The timer runs out: the batch is sent and a new one begins.
dispatchCalls ==
  /\ timeout
  /\ timeout' = FALSE
  /\ sent' = sent \cup {batched}
  /\ batched' = emptyBatch
  /\ UNCHANGED <<request, multicall, state, asked, answer, height>>

\* A slip: only the first caller learns of a failure.
rejectFirst(r) == [c \in Calls |-> IF c = r.callbacks[1] THEN REJECTED ELSE answer[c]]

\* Every callback of a request is settled.
reject(r) ==
  [c \in Calls |-> IF \E i \in DOMAIN r.callbacks : r.callbacks[i] = c THEN REJECTED ELSE answer[c]]

resolve(r, block) ==
  [c \in Calls |-> IF \E i \in DOMAIN r.callbacks : r.callbacks[i] = c
                     THEN LET i == CHOOSE i \in DOMAIN r.callbacks : r.callbacks[i] = c
                          IN <<r.calls[i], block>>
                     ELSE answer[c]]

\* The node answers a request from the block of its tag.
nodeAnswers(r) ==
  /\ sent' = sent \ {r}
  /\ answer' = resolve(r, IF r.blockTag = LATEST THEN height ELSE r.blockTag)
  /\ UNCHANGED <<request, multicall, state, asked, batched, timeout, height>>

\* A call that reverts makes the aggregate it is part of revert; and the
\* connection to the node may fail.
nodeFails(r) ==
  /\ sent' = sent \ {r}
  /\ answer' = reject(r)
  /\ UNCHANGED <<request, multicall, state, asked, batched, timeout, height>>

newBlock ==
  /\ height < MAX_BLOCK
  /\ height' = height + 1
  /\ UNCHANGED <<request, multicall, state, asked, batched, timeout, sent, answer>>

Init ==
  /\ request = [c \in Calls |-> [blockTag |-> LATEST, batchable |-> TRUE]]
  /\ multicall = FALSE
  /\ state = [c \in Calls |-> "new"]
  /\ asked = [c \in Calls |-> 1]
  /\ batched = emptyBatch
  /\ timeout = FALSE
  /\ sent = {}
  /\ answer = [c \in Calls |-> PENDING]
  /\ height = 1

Next ==
  \/ setChainId
  \/ \E c \in Calls : call(c)
  \/ \E c \in Calls : resolved(c)
  \/ dispatchCalls
  \/ \E r \in sent : nodeAnswers(r)
  \/ \E r \in sent : nodeFails(r)
  \/ newBlock

Spec == Init /\ [][Next]_vars

\* Promises and timers run; the node answers or the connection breaks.
Fairness ==
  /\ \A c \in Calls : WF_vars(resolved(c))
  /\ WF_vars(dispatchCalls)
  /\ WF_vars(\E r \in sent : nodeAnswers(r) \/ nodeFails(r))

FairSpec == Spec /\ Fairness

-----------------------------------------------------------------------------
(* Properties                                                              *)

\* A call that is resolved got the result of that very call, whatever else was
\* in its batch, at the block of its own tag, or, for "latest", at a block that
\* was the latest at some time since the call was made.
AnswerIsOwn ==
  \A c \in Calls :
    answer[c] \notin {PENDING, REJECTED} =>
      \E b \in Blocks : /\ answer[c] = <<c, b>>
                        /\ request[c].blockTag = LATEST => asked[c] <= b /\ b <= height
                        /\ request[c].blockTag # LATEST => b = request[c].blockTag

\* The callbacks of a call are called at most once, whatever timers and answers
\* come late.
SettledOnce ==
  [][\A c \in Calls : answer[c] # PENDING => answer'[c] = answer[c]]_vars

\* Every call is settled in the end, also when the aggregate it is part of fails.
EveryCallIsSettled ==
  \A c \in Calls : (state[c] # "new") ~> (answer[c] # PENDING)
=============================================================================
