-------------------------- MODULE ActivationTokens --------------------------
(***************************************************************************)
(* Activation tokens (wl_xdg_activation.c).  A token is committed once,    *)
(* may outlive its resource while it waits to be used, is good for ten     *)
(* seconds and one activation, and is freed with its resource, with its    *)
(* use, or when a later look-up passes it.                                 *)
(*                                                                         *)
(* Left out: serial, seat, surface and app id of a token, which nothing    *)
(* reads; what an activation does to the focus (KeyboardSeat); errors of   *)
(* the protocol.  A client is its address: a token remembers no more.      *)
(***************************************************************************)
EXTENDS SequencesExt, Naturals, Queues

CONSTANTS
  Token,      \* addresses of activation_token_request
  Activator,  \* addresses of clients
  Lifetime    \* ACTIVATION_TOKEN_TTL_SEC

ASSUME TokenAssumption == Lifetime \in Nat \ {0}

VARIABLES
  activation_tokens,  \* the list, newest first
  tokenOf,            \* the fields of each token
  uses                \* history: activations each token was good for

tokenVars == <<activation_tokens, tokenOf, uses>>

\* age counts from the commit, up to one more than the lifetime.
TokenFields == [client : Activator, resource : BOOLEAN, committed : BOOLEAN,
                used : BOOLEAN, age : 0..(Lifetime + 1)]

Listed == ToSet(activation_tokens)

TokensTypeOK ==
  /\ activation_tokens \in Seq(Token) /\ IsInjective(activation_tokens)
  /\ tokenOf \in [Token -> TokenFields]
  /\ uses \in [Token -> Nat]

TokensInit ==
  /\ activation_tokens = <<>>
  /\ tokenOf \in [Token -> {[client |-> c, resource |-> FALSE, committed |-> FALSE,
                             used |-> FALSE, age |-> 0] : c \in Activator}]
  /\ uses = [t \in Token |-> 0]

---------------------------------------------------------------------------
\* activation_get_activation_token
GetToken(t, c) ==
  /\ t \notin Listed
  /\ activation_tokens' = <<t>> \o activation_tokens
  /\ tokenOf' = [tokenOf EXCEPT ![t] =
       [client |-> c, resource |-> TRUE, committed |-> FALSE, used |-> FALSE, age |-> 0]]
  /\ uses' = [uses EXCEPT ![t] = 0]

\* activation_token_commit
CommitToken(t) ==
  /\ t \in Listed /\ tokenOf[t].resource /\ ~tokenOf[t].used /\ ~tokenOf[t].committed
  /\ tokenOf' = [tokenOf EXCEPT ![t].committed = TRUE]
  /\ UNCHANGED <<activation_tokens, uses>>

TokensWithout(S) == Without(activation_tokens, S)

\* activation_token_resource_destroy, of a set of tokens: one that is
\* destroyed, or all that are a dying client's.
Destroyed(S) ==
  LET waits == {t \in S : tokenOf[t].committed /\ ~tokenOf[t].used}
  IN /\ activation_tokens' = TokensWithout(S \ waits)
     /\ tokenOf' = [t \in Token |-> IF t \in waits
                      THEN [tokenOf[t] EXCEPT !.resource = FALSE] ELSE tokenOf[t]]
     /\ UNCHANGED uses

DestroyToken(t) == t \in Listed /\ tokenOf[t].resource /\ Destroyed({t})

ActivatorDies(c) ==
  LET mine == {t \in Listed : tokenOf[t].resource /\ tokenOf[t].client = c}
  IN mine # {} /\ Destroyed(mine)

\* token_is_expired
Expired_Late(t) == tokenOf[t].age > Lifetime + 1

Expired(t) == tokenOf[t].age > Lifetime

\* The look-up of find_active_token passes over all others.
Good(t) == tokenOf[t].committed /\ ~tokenOf[t].used /\ ~Expired(t)

\* What find_active_token frees on its way to the token in place n
Swept(n) ==
  {activation_tokens[i] : i \in 1..(n - 1)} \cap
    {t \in Token : tokenOf[t].committed /\ ~tokenOf[t].resource
                   /\ (tokenOf[t].used \/ Expired(t))}

\* activation_activate by client c, with the token in place n
UseToken_Again(n, c) ==
  LET t == activation_tokens[n]
  IN IF c # tokenOf[t].client
     THEN activation_tokens' = TokensWithout(Swept(n)) /\ UNCHANGED <<tokenOf, uses>>
     ELSE /\ uses' = [uses EXCEPT ![t] = @ + 1]
          /\ activation_tokens' =
               TokensWithout(Swept(n) \cup IF tokenOf[t].resource THEN {} ELSE {t})
          /\ UNCHANGED tokenOf

UseToken_Kept(n, c) ==
  LET t == activation_tokens[n]
  IN IF c # tokenOf[t].client
     THEN activation_tokens' = TokensWithout(Swept(n)) /\ UNCHANGED <<tokenOf, uses>>
     ELSE /\ uses' = [uses EXCEPT ![t] = @ + 1]
          /\ tokenOf' = [tokenOf EXCEPT ![t].used = TRUE]
          /\ activation_tokens' = TokensWithout(Swept(n))

UseToken(n, c) ==
  LET t == activation_tokens[n]
  IN IF c # tokenOf[t].client
     THEN activation_tokens' = TokensWithout(Swept(n)) /\ UNCHANGED <<tokenOf, uses>>
     ELSE /\ uses' = [uses EXCEPT ![t] = @ + 1]
          /\ tokenOf' = [tokenOf EXCEPT ![t].used = TRUE]
          /\ activation_tokens' =
               TokensWithout(Swept(n) \cup IF tokenOf[t].resource THEN {} ELSE {t})

Activate(n, c) ==
  /\ n \in DOMAIN activation_tokens /\ Good(activation_tokens[n])
  /\ UseToken(n, c)

\* activation_activate with a token that is unknown, used or too old
ActivateInVain ==
  /\ Swept(Len(activation_tokens) + 1) # {}
  /\ activation_tokens' = TokensWithout(Swept(Len(activation_tokens) + 1))
  /\ UNCHANGED <<tokenOf, uses>>

\* A second goes by.
Second ==
  /\ tokenOf' = [t \in Token |->
       IF t \in Listed /\ tokenOf[t].committed /\ ~Expired(t)
       THEN [tokenOf[t] EXCEPT !.age = @ + 1] ELSE tokenOf[t]]
  /\ UNCHANGED <<activation_tokens, uses>>

TokensNext ==
  \/ \E t \in Token : CommitToken(t) \/ DestroyToken(t)
  \/ \E c \in Activator :
       \/ ActivatorDies(c)
       \/ \E t \in Token : GetToken(t, c)
       \/ \E n \in 1..Cardinality(Token) : Activate(n, c)
  \/ ActivateInVain \/ Second

TokensSpec == TokensInit /\ [][TokensNext]_tokenVars

---------------------------------------------------------------------------
(* A token is good for one activation, whether its resource is gone or not *)
(* and in whatever order commit, use, age and look-ups come.               *)
UsedOnce == \A t \in Token : uses[t] <= 1

(* A token without a resource is one that may yet be used, or has only     *)
(* grown too old: used or never committed, it was freed on the spot, since *)
(* nobody else would.                                                      *)
OrphansMayBeUsed ==
  \A t \in Listed : ~tokenOf[t].resource => tokenOf[t].committed /\ ~tokenOf[t].used

(***************************************************************************)
(* A token activates one surface, once, before it expires, also when its   *)
(* object is gone, and the list names each token once.                     *)
(***************************************************************************)
TokensOK ==
  /\ TokensTypeOK /\ UsedOnce /\ OrphansMayBeUsed
=============================================================================
