----------------------------- MODULE WalletSend -----------------------------
(***************************************************************************)
(* invokeWallet of src/wallet.js among everything that changes a wallet    *)
(* meanwhile: connecting, disconnecting, switching chains, "view as", and  *)
(* the events of a provider, which may be told late.  A client object is   *)
(* named by its provider; that the captured client is still the current    *)
(* object is the flag call.same, which every new client clears.            *)
(***************************************************************************)
EXTENDS Naturals

CONSTANTS
  Providers,        \* the injected wallets and the Safe app
  SafeProvider,     \* the one of them that is a Safe
  Networks,         \* the chains
  Accounts,         \* the accounts a provider may have
  ReviewedNetwork,  \* the request was reviewed for this chain
  ReviewedAccount,  \* and for this account
  Tries,            \* how often a replaced client is tried: 3
  Nobody            \* no provider, client or account

ASSUME WalletSendAssumption ==
  /\ SafeProvider \in Providers
  /\ ReviewedNetwork \in Networks
  /\ ReviewedAccount \in Accounts
  /\ Tries \in Nat \ {0}
  /\ Nobody \notin Providers \cup Accounts

VARIABLES
  network,    \* outside: the chain of each provider
  untold,     \* outside: the providers whose last chainChanged did not reach the page
  active,     \* activeProvider
  client,     \* walletClient: the provider it was made for
  bound,      \* _boundProvider
  account,    \* account
  asking,     \* the providers whose accounts connect awaits
  viewAs,     \* the "view as" mode
  call        \* the invocation

sendVars == <<network, untold, active, client, bound, account, asking, viewAs, call>>

\* from, same: the captured client; read: the chain it gave; safe: the reviewed route;
\* anew: did a connection complete meanwhile? (a history variable)
SendCalls == [at : {"idle", "read", "check", "sent", "refused"}, try : 0 .. Tries,
          from : Providers \cup {Nobody}, same : BOOLEAN, read : Networks,
          safe : BOOLEAN, anew : BOOLEAN]

SendTypeOK ==
  /\ network \in [Providers -> Networks]
  /\ untold \subseteq Providers
  /\ active \in Providers
  /\ client \in Providers \cup {Nobody}
  /\ bound \in Providers \cup {Nobody}
  /\ account \in Accounts \cup {Nobody}
  /\ asking \subseteq Providers
  /\ viewAs \in BOOLEAN
  /\ call \in SendCalls

\* connect and initSafeApp set the route together with the provider.
ConnectedViaSafe == active = SafeProvider

\* A wallet is connected when the user reviews the request.
SendInit ==
  /\ network \in [Providers -> Networks]
  /\ untold = {}
  /\ active \in Providers
  /\ client = active
  /\ bound = active
  /\ account = ReviewedAccount
  /\ asking = {}
  /\ viewAs = FALSE
  /\ call = [at |-> "idle", try |-> 0, from |-> Nobody, same |-> TRUE,
             read |-> ReviewedNetwork, safe |-> ConnectedViaSafe, anew |-> FALSE]

\* setupClients: a new object, also for the same provider.
NewClient(p) == client' = p /\ call' = [call EXCEPT !.same = FALSE]

\* One attempt captures the client and asks it for its chain.
Begin(n) ==
  call' = IF client = Nobody THEN [call EXCEPT !.at = "refused"]
          ELSE [call EXCEPT !.at = "read", !.try = n, !.from = client, !.same = TRUE]

Invoke ==
  /\ call.at = "idle"
  /\ Begin(1)
  /\ UNCHANGED <<network, untold, active, client, bound, account, asking, viewAs>>

\* The chain is read, or the read fails.
ChainRead ==
  /\ call.at = "read"
  /\ \/ call' = [call EXCEPT !.at = "check", !.read = network[call.from]]
     \/ call' = [call EXCEPT !.at = "refused"]
  /\ UNCHANGED <<network, untold, active, client, bound, account, asking, viewAs>>

AsReviewed ==
  /\ call.read = ReviewedNetwork
  /\ ~viewAs
  /\ account = ReviewedAccount
  /\ ConnectedViaSafe = call.safe

\* Mutant: the captured client is used although another took its place.
Check_AnyClient ==
  /\ call.at = "check"
  /\ call' = [call EXCEPT !.at = IF AsReviewed THEN "sent" ELSE "refused"]
  /\ UNCHANGED <<network, untold, active, client, bound, account, asking, viewAs>>

\* A replaced client is tried again, Tries times in all; then everything reviewed is
\* compared and the wallet called without another await.
Check ==
  /\ call.at = "check"
  /\ \/ call.same /\ call' = [call EXCEPT !.at = IF AsReviewed THEN "sent" ELSE "refused"]
     \/ ~call.same /\ call.try < Tries /\ Begin(call.try + 1)
     \/ ~call.same /\ call.try = Tries /\ call' = [call EXCEPT !.at = "refused"]
  /\ UNCHANGED <<network, untold, active, client, bound, account, asking, viewAs>>

----------------------------------------------------------------------------
(* What changes the wallet.                                                *)

\* connect, up to the account request: a chosen provider is active and bound at once.
Connect(p) ==
  /\ bound' \in IF p = active THEN {p, bound} ELSE {p}
  /\ active' = p
  /\ NewClient(p)
  /\ asking' = asking \cup {p}
  /\ UNCHANGED <<network, untold, account, viewAs>>

\* The accounts arrive, for whatever provider is active by now; or the user declines.
Connected(p) ==
  /\ p \in asking
  /\ asking' = asking \ {p}
  /\ \/ /\ account' \in Accounts \cup {Nobody}
        /\ bound' = active
        /\ call' = [call EXCEPT !.anew = TRUE]
     \/ UNCHANGED <<account, bound, call>>
  /\ UNCHANGED <<network, untold, active, client, viewAs>>

Disconnect ==
  /\ client' = Nobody /\ account' = Nobody /\ bound' = Nobody
  /\ call' = [call EXCEPT !.same = FALSE]
  /\ UNCHANGED <<network, untold, active, asking, viewAs>>

\* switchChain: the wallet that was asked, which may be replaced by now, agreed; the client
\* is made again for whatever provider is active.
SwitchChain(p, n) ==
  /\ network' = [network EXCEPT ![p] = n]
  /\ untold' = untold \cup {p}
  /\ NewClient(active)
  /\ UNCHANGED <<active, bound, account, asking, viewAs>>

AccountsChanged ==
  /\ bound # Nobody
  /\ account' \in Accounts \cup {Nobody}
  /\ IF account' # Nobody THEN NewClient(active)
     ELSE client' = Nobody /\ call' = [call EXCEPT !.same = FALSE]
  /\ UNCHANGED <<network, untold, active, bound, asking, viewAs>>

ChainChanged ==
  /\ bound \in untold
  /\ untold' = untold \ {bound}
  /\ IF account # Nobody THEN NewClient(active) ELSE UNCHANGED <<client, call>>
  /\ UNCHANGED <<network, active, bound, account, asking, viewAs>>

SetViewAs ==
  /\ viewAs' = ~viewAs
  /\ UNCHANGED <<network, untold, active, client, bound, account, asking, call>>

\* The user changes the chain in the wallet.
WalletMoves(p, n) ==
  /\ network[p] # n
  /\ network' = [network EXCEPT ![p] = n]
  /\ untold' = untold \cup {p}
  /\ UNCHANGED <<active, client, bound, account, asking, viewAs, call>>

\* One invocation is followed to its end.
SendNext ==
  /\ call.at \notin {"sent", "refused"}
  /\ \/ Invoke \/ ChainRead \/ Check
     \/ Disconnect \/ AccountsChanged \/ ChainChanged \/ SetViewAs
     \/ \E p \in Providers : Connect(p) \/ Connected(p)
     \/ \E n \in Networks, p \in Providers : SwitchChain(p, n) \/ WalletMoves(p, n)

SendSpec == SendInit /\ [][SendNext]_sendVars

----------------------------------------------------------------------------
\* A request reaches the provider that is connected now, never one that was replaced while
\* its chain was read, by the route and for the account reviewed; and that provider is on
\* the reviewed chain, or it moved and the page was not told yet (wallet.js:145-147).  The
\* chain is exempt when a new connection completed during the same invocation: the page
\* ignores chain events while it has no account.
SentWhereReviewed ==
  [][ call.at = "check" /\ call'.at = "sent" =>
        /\ call.from = active /\ client = active
        /\ account = ReviewedAccount /\ ConnectedViaSafe = call.safe /\ ~viewAs
        /\ network[active] = ReviewedNetwork \/ active \in untold \/ call.anew ]_sendVars
=============================================================================
