--------------------------- MODULE UpstreamLists ---------------------------
(***************************************************************************)
(* Lists of upstreams (internal/gateway/proxy.go): joined without          *)
(* repetitions, and turned so that another element is in front.            *)
(***************************************************************************)
EXTENDS Integers, FiniteSets, Sequences

\* Where each upstream of a list is named for the first time.
FirstMentions(s) == {i \in DOMAIN s : \A j \in 1 .. i - 1 : s[j] # s[i]}

\* Of a set of positions, those up to i.
UpTo(F, i) == {j \in F : j <= i}

\* The upstreams of both lists in the order of their first mention.
AppendUpstreams_Twice(base, extras) == base \o extras
AppendUpstreams(base, extras) ==
    LET s == base \o extras
        F == FirstMentions(s)
    IN  [k \in 1 .. Cardinality(F) |->
            s[CHOOSE i \in F : Cardinality(UpTo(F, i)) = k]]

Rotated(s, i) == SubSeq(s, i, Len(s)) \o SubSeq(s, 1, i - 1)
=============================================================================
