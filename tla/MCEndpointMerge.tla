---------------------------- MODULE MCEndpointMerge ----------------------------
(* EndpointMerge for segments a, b, c, of which the text of c starts with     *)
(* that of b, and a number p.                                                  *)
EXTENDS EndpointMerge

CONSTANTS a, b, c, p

MCPaths == {<<a>>, <<c>>, <<b, p>>, <<b, a>>, <<b, b>>}
MCParams == {p}
MCExtends == {<<b, c>>}

Symmetry == Permutations(Exchanges)
=============================================================================
