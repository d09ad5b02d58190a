---------------------------- MODULE MCTokenStore ----------------------------
(* Instances of SignIn for TLC: behaviours with every call and without     *)
(* sign-ins by PKCE, in which at most one token set is bought, and         *)
(* behaviours with sign-ins and one call, for which the first access token  *)
(* may have expired.                                                       *)
EXTENDS SignIn, TLC

CONSTANTS c1, c2, i1, a1

VARIABLE signingIn

OneAccount == {a1}
TwoCalls == {c1, c2}
OneImageCall == {i1}

MCInit == Init /\ InitSignIn /\ signingIn \in BOOLEAN
MCNext ==
    /\ UNCHANGED signingIn
    /\ \/ ~signingIn /\ Next /\ minted' <= 2 /\ UNCHANGED signVars
       \/ /\ signingIn /\ SignInNext
          /\ expired' \subseteq {1} /\ \A c \in AllCalls \ {c1} : pc'[c] = "idle"
MCSpec == MCInit /\ [][MCNext]_<<vars, signVars, signingIn>> /\ Fairness
=============================================================================
