------------------------- MODULE MCChannelBootstrap -------------------------
(***************************************************************************)
(* Instances of ChannelBootstrap: small networks and the edits users make. *)
(***************************************************************************)
EXTENDS ChannelBootstrap

CONSTANTS a, c, p0, p1, o1, o2

OneOrderer == <<o1>>
TwoOrderers == <<o1, o2>>

Of(g, peers) == [name |-> g, peers |-> peers]
DeclareA == <<Of(a, <<p0, p1>>)>>
DeclareAC == <<Of(a, <<p0, p1>>), Of(c, <<p0>>)>>
DeclareCA == <<Of(c, <<p0>>), Of(a, <<p0, p1>>)>>

Declarations == {DeclareA, DeclareAC, DeclareCA}

\* c is appended to the declaration or put in front of it.
AddC == {<<DeclareA, DeclareAC>>, <<DeclareA, DeclareCA>>}

\* Envelopes for c carry the proposal read at version 0; a proposal that was
\* read later differs from it.
WellSigned == [name : {c}, version : {0}, enough : {TRUE}]
=============================================================================
