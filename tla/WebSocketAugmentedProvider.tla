-------------------- MODULE WebSocketAugmentedProvider --------------------
(***************************************************************************)
(* The WebSocketAugmented mixin of the providers package: new blocks are    *)
(* reported by a WebSocket while there is one and by the base provider      *)
(* otherwise, to whoever listens; waitForTransaction is built on it.        *)
(*                                                                         *)
(* LiquityContext opens the socket in an effect and closes it in the        *)
(* clean-up of the effect.  The socket may also be closed by the other      *)
(* side, and is then opened again after ten seconds.  The node is a group   *)
(* of nodes behind a load balancer, one of which may be behind the others.  *)
(***************************************************************************)
EXTENDS Integers

CONSTANTS Sockets,       \* bound: the WebSocketProviders that are created
          BASE,          \* the base provider, as a source of blocks
          CONFIRMATIONS, \* confirmations that waitForTransaction is asked for
          MAX_BLOCK,     \* bound: the last block number, which stands for all later ones
          NULL           \* JavaScript's undefined and null

\* What the theorems assume of the constants.
Assumptions ==
  /\ BASE \notin Sockets /\ NULL \notin Sockets /\ NULL \notin Int
  /\ CONFIRMATIONS \in Nat /\ MAX_BLOCK \in Nat

VARIABLES socket,      \* state of each socket: none, connecting, open or closed
          onClose,     \* the sockets whose onclose handler is set
          wsProvider,  \* _wsProvider
          reconnect,   \* whether the timer of _onWebSocketClose is running
          effect,      \* whether LiquityContext has opened and not yet closed
          missed,      \* whether a call of closeWebSocket found no provider, only the timer
          attached,    \* the sources that _blockListener listens to
          emitted,     \* the last block that each source reported
          seenBlock,   \* _seenBlock
          scheduled,   \* _blockListenerScheduled
          listeners,   \* _blockListeners
          height, behind, \* the latest block, and that of the node that is behind
          txBlock,     \* the block that has the transaction
          waiter       \* the progress of waitForTransaction

connection == <<socket, onClose, wsProvider, reconnect, effect, missed>>
blocks == <<emitted, seenBlock, scheduled>>
node == <<height, behind, txBlock>>
vars == <<connection, attached, blocks, listeners, node, waiter>>

Sources == Sockets \cup {BASE}

\* The source that block events are taken from, given _wsProvider.
Source(ws) == IF ws # NULL THEN ws ELSE BASE

-----------------------------------------------------------------------------
(* Opening and closing                                                     *)

\* _switchover
switched(ws) ==
  IF listeners = {} THEN attached
  ELSE (IF ws # NULL THEN attached \ {BASE} ELSE attached) \cup {Source(ws)}

openWebSocket(s) ==
  /\ socket[s] = "none"
  /\ socket' = [socket EXCEPT ![s] = "connecting"]
  /\ onClose' = onClose \cup {s}
  /\ wsProvider' = s
  /\ attached' = switched(s)

\* closeWebSocket, when there is a provider: a closed socket reports nothing.
\* wsClosed also holds a socket that the other side has closed.
closeWebSocket(wsClosed) ==
  /\ socket' = [s \in Sockets |-> IF s \in wsClosed \cup {wsProvider} THEN "closed" ELSE socket[s]]
  /\ onClose' = onClose \ (wsClosed \cup {wsProvider})
  /\ wsProvider' = NULL
  /\ attached' = switched(NULL) \ (wsClosed \cup {wsProvider})

effectOpens ==
  /\ ~effect
  /\ effect' = TRUE
  /\ \E s \in Sockets : openWebSocket(s)
  /\ UNCHANGED <<reconnect, missed, blocks, listeners, node, waiter>>

\* Without a provider closeWebSocket does nothing, whether or not the timer runs.
effectCloses ==
  /\ effect
  /\ effect' = FALSE
  /\ IF wsProvider # NULL
       THEN closeWebSocket({}) /\ reconnect' = FALSE /\ UNCHANGED missed
       ELSE missed' = (missed \/ reconnect) /\ UNCHANGED <<socket, onClose, wsProvider, attached, reconnect>>
  /\ UNCHANGED <<blocks, listeners, node, waiter>>

socketOpens(s) ==
  /\ socket[s] = "connecting"
  /\ socket' = [socket EXCEPT ![s] = "open"]
  /\ emitted' = [emitted EXCEPT ![s] = height]
  /\ UNCHANGED <<onClose, wsProvider, reconnect, effect, missed, attached, seenBlock, scheduled,
                 listeners, node, waiter>>

\* _onWebSocketClose: the other side closes a socket, or refuses it.
onWebSocketClose(s) ==
  /\ s \in onClose
  /\ socket[s] \in {"connecting", "open"}
  /\ IF wsProvider # NULL
       THEN closeWebSocket({s})
       ELSE /\ socket' = [socket EXCEPT ![s] = "closed"]
            /\ onClose' = onClose \ {s}
            /\ attached' = attached \ {s}
            /\ UNCHANGED wsProvider
  /\ reconnect' = TRUE
  /\ UNCHANGED <<effect, missed, blocks, listeners, node, waiter>>

\* The timer runs out; its id is not reset.
reconnects ==
  /\ reconnect
  /\ reconnect' = FALSE
  /\ \E s \in Sockets : openWebSocket(s)
  /\ UNCHANGED <<effect, missed, blocks, listeners, node, waiter>>

-----------------------------------------------------------------------------
(* Blocks and their listeners                                              *)

\* A source tells of blocks; _onBlock notes the last and sets a timer of 50 ms.
onBlock(src) ==
  /\ src \in attached
  /\ src # BASE => socket[src] = "open"
  /\ \E b \in (emitted[src] + 1 .. height) \cup ({MAX_BLOCK} \cap {height}) :
       /\ emitted' = [emitted EXCEPT ![src] = b]
       /\ seenBlock' = b
  /\ scheduled' = TRUE
  /\ UNCHANGED <<connection, attached, listeners, node, waiter>>

removeBlockListener(l) ==
  /\ listeners' = listeners \ {l}
  /\ attached' = IF listeners = {l} THEN attached \ {Source(wsProvider)} ELSE attached

addBlockListener(l) ==
  /\ listeners' = listeners \cup {l}
  /\ attached' = IF listeners = {} THEN attached \cup {Source(wsProvider)} ELSE attached

\* The timer of _onBlock: every listener gets the last block seen.  That of
\* waitForTransaction is a listener of once(), which removes itself.
callListeners ==
  /\ scheduled
  /\ scheduled' = FALSE
  /\ IF "waiter" \in listeners
       THEN /\ removeBlockListener("waiter")
            /\ waiter' = [waiter EXCEPT !.at = "ask", !.latestBlock = seenBlock]
       ELSE UNCHANGED <<listeners, attached, waiter>>
  /\ UNCHANGED <<connection, emitted, seenBlock, node>>

\* A store subscribes and unsubscribes.
storeListens ==
  /\ "store" \notin listeners
  /\ addBlockListener("store")
  /\ UNCHANGED <<connection, blocks, node, waiter>>

storeStops ==
  /\ "store" \in listeners
  /\ removeBlockListener("store")
  /\ UNCHANGED <<connection, blocks, node, waiter>>

-----------------------------------------------------------------------------
(* waitForTransaction                                                      *)

\* A receipt, as the node whose latest block is b gives it: its confirmations.
Receipt(b) == IF txBlock # NULL /\ txBlock <= b THEN b - txBlock + 1 ELSE NULL

\* getTransactionReceipt is answered by one of the nodes; the answer travels.
askReceipt ==
  /\ waiter.at = "ask"
  /\ \E b \in {behind, height} : waiter' = [waiter EXCEPT !.at = "answer", !.receipt = Receipt(b), !.of = b]
  /\ UNCHANGED <<connection, attached, blocks, listeners, node>>

\* _getTransactionReceiptFromLatest asks again when the answer comes from before
\* the latest block that was seen.
glitch ==
  /\ waiter.latestBlock # NULL
  /\ waiter.receipt = NULL => txBlock = waiter.latestBlock
  /\ waiter.receipt # NULL => waiter.of < waiter.latestBlock

confirmed == waiter.receipt # NULL /\ waiter.receipt >= CONFIRMATIONS

receiptArrives ==
  /\ waiter.at = "answer"
  /\ IF glitch
       THEN waiter' = [waiter EXCEPT !.at = "ask"] /\ UNCHANGED <<listeners, attached>>
     ELSE IF confirmed
       THEN waiter' = [waiter EXCEPT !.at = "done"] /\ UNCHANGED <<listeners, attached>>
     ELSE /\ waiter' = [waiter EXCEPT !.at = "block"]
          /\ addBlockListener("waiter")
  /\ UNCHANGED <<connection, blocks, node>>

-----------------------------------------------------------------------------
newBlock ==
  /\ height < MAX_BLOCK
  /\ height' = height + 1
  /\ behind' = height
  /\ txBlock' \in IF txBlock = NULL THEN {NULL, height + 1} ELSE {txBlock}
  /\ UNCHANGED <<connection, attached, blocks, listeners, waiter>>

catchUp ==
  /\ behind < height
  /\ behind' = height
  /\ UNCHANGED <<connection, attached, blocks, listeners, height, txBlock, waiter>>

Init ==
  /\ socket = [s \in Sockets |-> "none"]
  /\ onClose = {}
  /\ wsProvider = NULL
  /\ reconnect = FALSE
  /\ effect = FALSE
  /\ missed = FALSE
  /\ attached = {}
  /\ emitted = [s \in Sources |-> 1]
  /\ seenBlock = 0
  /\ scheduled = FALSE
  /\ listeners = {}
  /\ height = 1
  /\ behind = 1
  /\ txBlock = NULL
  /\ waiter = [at |-> "ask", latestBlock |-> NULL, receipt |-> NULL, of |-> 0]

Next ==
  \/ effectOpens
  \/ effectCloses
  \/ \E s \in Sockets : socketOpens(s)
  \/ \E s \in Sockets : onWebSocketClose(s)
  \/ reconnects
  \/ \E src \in Sources : onBlock(src)
  \/ callListeners
  \/ storeListens
  \/ storeStops
  \/ askReceipt
  \/ receiptArrives
  \/ newBlock
  \/ catchUp

Spec == Init /\ [][Next]_vars

-----------------------------------------------------------------------------
(* Properties                                                              *)

\* Through every reconnection, switch-over and change of listeners: blocks are
\* taken from the present source exactly while somebody listens, and the base
\* provider is not polled beside a socket.
ListenersHaveTheirSource ==
  /\ (Source(wsProvider) \in attached) <=> (listeners # {})
  /\ wsProvider # NULL => BASE \notin attached

\* At most one socket is alive, and none once the page has closed it, unless the
\* page closed it while only the reconnection timer was left.
SocketsDoNotLeak ==
  ~missed => LET alive == {s \in Sockets : socket[s] \in {"connecting", "open"}}
             IN  alive = {wsProvider} \ {NULL} /\ (alive # {} => effect)

\* The receipt that waitForTransaction returns has the confirmations it was
\* asked for, and is no older than the last block that was reported to it.
ReceiptIsFresh ==
  waiter.at = "done" => /\ txBlock + CONFIRMATIONS - 1 <= height
                        /\ waiter.latestBlock # NULL => waiter.of >= waiter.latestBlock
=============================================================================
