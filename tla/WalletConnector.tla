--------------------------- MODULE WalletConnector ---------------------------
(***************************************************************************)
(* What stands between a wallet and the pages of the front end: Connector   *)
(* (the subscription to the wallets of web3-onboard and the reducer),        *)
(* WalletConnector (the check of the account against the whitelist service) *)
(* and LiquityProvider (the chain and the configuration).                   *)
(*                                                                         *)
(* web3-onboard, the wallets and the whitelist are outside.  A dispatch      *)
(* made from a subscription renders at once (React 17), and its effects run  *)
(* before the next event: both are part of the action.  ENS names and the    *)
(* pages that bypass the check ("/zero/confirm", "/zero/access") are left    *)
(* out.  switchAccounts has no caller.                                       *)
(***************************************************************************)
EXTENDS Naturals, Sequences

CONSTANTS
    NULL,
    Software, Hardware,     \* labels of wallets
    Accounts, Allowed,      \* accounts, and those on the whitelist
    Chains, currentChainId

(* No wallet reports what stands for nothing. *)
Assumptions ==
    /\ NULL \notin Accounts \cup Chains \cup Software \cup Hardware
    /\ currentChainId \in Chains

VARIABLES
    wallets,                \* web3-onboard: the connected wallets, the primary one first
    connecting, auto,       \* its modal is open; the label reconnected after a load
    asked,                  \* labels of the wallets asked to change their chain
    remembered,             \* localStorage: selectedWallet, its first label
    conn,                   \* Connector: provider (a label), walletAddress, chainId
    checks,                 \* WalletConnector: checkAccountAccess calls under way,
    hasAccess, loading,     \*   and its state
    config,                 \* LiquityProvider: whether it has the configuration
    events,                 \* how many events there were
    left,                   \* the user disconnected and asked for nothing since
    crossed                 \* the last answer was for another account

vars == <<wallets, connecting, auto, asked, remembered, conn, checks, hasAccess,
          loading, config, events, left, crossed>>

access == <<checks, hasAccess, loading, crossed>>

NoWallet == [provider |-> NULL, walletAddress |-> NULL, chainId |-> NULL]
Wallets == [label : Software \cup Hardware, account : Accounts, chain : Chains]

Init ==
    /\ wallets = <<>> /\ connecting = FALSE /\ asked = {}
    /\ remembered \in Software \cup {NULL} /\ auto = remembered
    /\ conn = NoWallet
    /\ checks = {} /\ hasAccess = FALSE /\ loading = FALSE /\ config = FALSE
    /\ events = 0 /\ left = FALSE /\ crossed = FALSE
-----------------------------------------------------------------------------
(* What is rendered *)

isWalletConnected == conn.chainId # NULL

(* WalletConnector renders its children, LiquityProvider first. *)
mounted == ~loading /\ isWalletConnected /\ hasAccess

Screen ==
    CASE loading -> "loader"
      [] ~loading /\ ~mounted -> "signup"
      [] mounted /\ conn.chainId # currentChainId -> "unsupported"
      [] mounted /\ conn.chainId = currentChainId ->
            IF config /\ conn.provider # NULL THEN "app" ELSE "loader"

(* The configuration is state of LiquityProvider, which forgets it as it goes. *)
render == config' = (config /\ mounted')
-----------------------------------------------------------------------------
(* Connector *)

(* UPDATE_WALLET, then CONFIG_UPDATE on the right chain; or WALLET_DISCONNECTED. *)
reducer(ws) ==
    IF ws = <<>> THEN NoWallet
    ELSE [provider |-> IF ws[1].chain = currentChainId THEN ws[1].label ELSE conn.provider,
          walletAddress |-> ws[1].account, chainId |-> ws[1].chain]

checkAccess(account) ==
    /\ checks' = checks \cup {[id |-> events', account |-> account]}
    /\ loading' = TRUE
    /\ hasAccess' = FALSE
    /\ crossed' = FALSE

remember(ws) ==
    LET connectedWallets == SelectSeq(ws, LAMBDA w : w.label \notin Hardware)
    IN  IF ws # <<>> /\ ws[1].chain = currentChainId /\ connectedWallets # <<>>
        THEN connectedWallets[1].label ELSE remembered

(* The wallets become ws.  The effect of WalletConnector depends on           *)
(* isWalletConnected and walletAddress.                                      *)
updateState(ws) ==
    /\ wallets' = ws
    /\ conn' = reducer(ws)
    /\ asked' = IF ws # <<>> /\ ws[1].chain # currentChainId THEN asked \cup {ws[1].label} ELSE asked
    /\ IF conn'.walletAddress \notin {NULL, conn.walletAddress}
       THEN checkAccess(conn'.walletAddress)
       ELSE UNCHANGED access
    /\ render

event == events' = events + 1

connectWallet ==
    /\ event
    /\ ~loading /\ ~isWalletConnected /\ ~connecting
    /\ connecting' = TRUE /\ left' = FALSE
    /\ UNCHANGED <<wallets, auto, asked, remembered, conn, access, config>>

(* The wallet leaves at once, then selectedWallet is removed. *)
disconnectWallet ==
    /\ event
    /\ ~loading /\ isWalletConnected
    /\ updateState(Tail(wallets))
    /\ remembered' = NULL
    /\ left' = (wallets' = <<>> /\ auto = NULL /\ ~connecting)
    /\ UNCHANGED <<connecting, auto>>

(* The page is loaded again: the wallet remembered, if any, is reconnected. *)
reload ==
    /\ event
    /\ wallets' = <<>> /\ connecting' = FALSE /\ asked' = {}
    /\ auto' = remembered
    /\ conn' = NoWallet
    /\ checks' = {} /\ hasAccess' = FALSE /\ loading' = FALSE /\ config' = FALSE
    /\ crossed' = FALSE
    /\ UNCHANGED <<remembered, left>>
-----------------------------------------------------------------------------
(* web3-onboard and the wallets *)

without(i) == SubSeq(wallets, 1, i - 1) \o SubSeq(wallets, i + 1, Len(wallets))

(* A wallet that connects becomes the primary one, and is listed once. *)
added(w) ==
    <<w>> \o IF \E i \in DOMAIN wallets : wallets[i].label = w.label
            THEN without(CHOOSE i \in DOMAIN wallets : wallets[i].label = w.label)
            ELSE wallets

notify(ws) == updateState(ws) /\ remembered' = remember(ws) /\ UNCHANGED left

walletConnects(w) ==
    /\ event
    /\ connecting /\ connecting' = FALSE
    /\ notify(added(w))
    /\ UNCHANGED auto

connectRefused ==
    /\ connecting /\ connecting' = FALSE
    /\ UNCHANGED <<wallets, auto, asked, remembered, conn, access, config, events, left>>

autoConnects(w) ==
    /\ event
    /\ auto # NULL /\ auto = w.label /\ auto' = NULL
    /\ notify(added(w))
    /\ UNCHANGED connecting

autoConnectFails ==
    /\ auto # NULL /\ auto' = NULL
    /\ UNCHANGED <<wallets, connecting, asked, remembered, conn, access, config, events, left>>

walletChanges(i, account, chain) ==
    /\ event
    /\ notify([wallets EXCEPT ![i].account = account, ![i].chain = chain])
    /\ UNCHANGED <<connecting, auto>>

walletLeaves(i) ==
    /\ event
    /\ notify(without(i))
    /\ UNCHANGED <<connecting, auto>>

(* A wallet asked to change its chain refuses; walletChanges if it does not. *)
setChainRefused(label) ==
    /\ asked' = asked \ {label}
    /\ UNCHANGED <<wallets, connecting, auto, remembered, conn, access, config, events, left>>
-----------------------------------------------------------------------------
(* WalletConnector and LiquityProvider *)

checkAnswers(c) ==
    /\ checks' = checks \ {c}
    /\ hasAccess' = (c.account \in Allowed)
    /\ loading' = FALSE
    /\ crossed' = (c.account # conn.walletAddress)
    /\ UNCHANGED <<wallets, connecting, auto, asked, remembered, conn, events, left>>
    /\ render

checkFails(c) ==
    /\ checks' = checks \ {c}
    /\ loading' = FALSE
    /\ UNCHANGED <<hasAccess, crossed>>
    /\ UNCHANGED <<wallets, connecting, auto, asked, remembered, conn, events, left>>
    /\ render

getConfig ==
    /\ mounted /\ ~config
    /\ config' = TRUE
    /\ UNCHANGED <<wallets, connecting, auto, asked, remembered, conn, access, events, left>>
-----------------------------------------------------------------------------
Check == \E c \in checks : checkAnswers(c) \/ checkFails(c)

Next ==
    \/ connectWallet \/ disconnectWallet \/ reload
    \/ \E w \in Wallets : walletConnects(w)
    \/ connectRefused
    \/ \E w \in Wallets : autoConnects(w)
    \/ autoConnectFails
    \/ \E i \in DOMAIN wallets, a \in Accounts, c \in Chains : walletChanges(i, a, c)
    \/ \E i \in DOMAIN wallets : walletLeaves(i)
    \/ \E label \in asked : setChainRefused(label)
    \/ Check
    \/ getConfig

Spec == Init /\ [][Next]_vars
-----------------------------------------------------------------------------
(* The pages are shown for the wallet that is connected: its provider, its    *)
(* account and the chain they need, whatever wallets came before.            *)
AppIsTheWallet ==
    Screen = "app" =>
        /\ wallets # <<>>
        /\ conn = [provider |-> wallets[1].label, walletAddress |-> wallets[1].account,
                   chainId |-> currentChainId]

(* The pages are shown to accounts that the whitelist allows, checks that     *)
(* fail and wallets that change meanwhile included.  The exception is an      *)
(* answer that comes after the account it is for was left: nothing in         *)
(* checkAccess compares the two.                                             *)
AccessIsOwn == mounted /\ ~crossed => conn.walletAddress \in Allowed

(* The loader is shown only while something is awaited that ends it.          *)
LoaderIsWaiting == Screen = "loader" => checks # {} \/ (mounted /\ ~config)

(* After a disconnection no wallet comes back before the user connects one,   *)
(* page loads included.  A reconnection already under way does come back.     *)
DisconnectLasts == left => wallets = <<>>

=============================================================================
