--------------------------- MODULE MCStreamedAnswer ---------------------------
EXTENDS StreamedAnswer

(* One thing at a time: an image, the identity policy, a callable fence,   *)
(* a native call.                                                          *)
Asked == {a \in [image : BOOLEAN, policy : BOOLEAN, callable : BOOLEAN,
                native : BOOLEAN] :
            \A f, g \in DOMAIN a : a[f] /\ a[g] => f = g}
===============================================================================
