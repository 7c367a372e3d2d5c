------------------------------ MODULE Routing ------------------------------
(***************************************************************************)
(* The cluster of the network simulator and its routes                     *)
(* (phantora/netsim/src/cluster.rs, architecture.rs): hosts under top of   *)
(* rack switches, the switches under one "cloud" (Spines = 1, the          *)
(* arbitrary and the fat-tree cluster) or under several spines.  Every     *)
(* edge is added as two links, down and up, with consecutive numbers.      *)
(***************************************************************************)
EXTENDS Integers, FiniteSets, SequencesExt

CONSTANTS
  Spines,    \* number of spine switches
  Racks,     \* number of racks
  RackSize,  \* hosts per rack
  HostBw,    \* bytes per tick of a link between a host and its switch
  UplinkBw   \* bytes per tick of a link between a switch and a spine

ASSUME TopologyAssumption ==
  /\ Spines \in Nat \ {0} /\ Racks \in Nat \ {0} /\ RackSize \in Nat \ {0}
  /\ HostBw \in Nat \ {0} /\ UplinkBw \in Nat \ {0}

Host(h) == <<"host", h>>
Hosts   == {Host(h) : h \in 0 .. Racks * RackSize - 1}

\* The k-th edge, as <<parent, child>>: of each rack first the uplinks of its
\* switch, then the links of its hosts.
EdgesPerRack == Spines + RackSize
Edge(k) ==
  LET i == k \div EdgesPerRack
      j == k % EdgesPerRack
  IN  IF j < Spines
      THEN <<<<"spine", j>>, <<"tor", i>>>>
      ELSE <<<<"tor", i>>, Host(i * RackSize + j - Spines)>>

\* add_link_by_name: edge k is link 2k down to the child and link 2k + 1 up.
Links          == 0 .. 2 * Racks * EdgesPerRack - 1
Source(l)      == Edge(l \div 2)[1 + (l % 2)]
Target(l)      == Edge(l \div 2)[2 - (l % 2)]
ReverseLink(l) == IF l % 2 = 0 THEN l + 1 ELSE l - 1
Bandwidth(l)   == IF (l \div 2) % EdgesPerRack < Spines THEN UplinkBw ELSE HostBw

\* Node::parent, the uplinks of every node in the order they were added.
Parents ==
  [x \in {Source(l) : l \in Links} |-> SetToSortSeq({l \in Links : l % 2 = 1 /\ Source(l) = x}, <)]

\* The node n levels above x on the way resolve_route takes, always the first
\* uplink; hosts are at depth 3 and a route climbs to depth 1 at most.
MaxClimb == 2
Ancestor(x, n) ==
  LET up[k \in 0 .. n] == IF k = 0 THEN x ELSE Target(Head(Parents[up[k - 1]]))
  IN  up[n]
Uplink(x, n) == Head(Parents[Ancestor(x, n)])

\* Where the two ways up meet: the levels to climb.
Meet(x, y) ==
  CHOOSE n \in 0 .. MaxClimb :
    /\ Ancestor(x, n) = Ancestor(y, n)
    /\ \A m \in 0 .. n - 1 : Ancestor(x, m) # Ancestor(y, m)

\* Mutant: ResolveRoute that forgets to reverse the way down.
ResolveRouteUnreversed(x, y, virt) ==
  IF x = y /\ virt
  THEN <<Uplink(x, 0), ReverseLink(Uplink(x, 0))>>
  ELSE LET n == Meet(x, y)
       IN  [i \in 1 .. 2 * n |->
              IF i <= n THEN Uplink(x, i - 1) ELSE ReverseLink(Uplink(y, i - n - 1))]

\* resolve_route: up to the first common ancestor and down again.  Two virtual
\* machines of one host (virt) talk through its access link; otherwise the
\* path from a host to itself is empty.
ResolveRoute(x, y, virt) ==
  IF x = y /\ virt
  THEN <<Uplink(x, 0), ReverseLink(Uplink(x, 0))>>
  ELSE LET n == Meet(x, y)
       IN  [i \in 1 .. 2 * n |->
              IF i <= n THEN Uplink(x, i - 1) ELSE ReverseLink(Uplink(y, 2 * n - i))]

-----------------------------------------------------------------------------

\* The first pass of resolve_route_multipath: the lists ys_from of the links
\* that lead from y's side to the nodes n levels above it.
LinksUp(y) ==
  LET from[n \in 0 .. MaxClimb] ==
        IF n = 0 THEN << >>
        ELSE LET below == IF n = 1 THEN <<y>>
                          ELSE [i \in DOMAIN from[n - 1] |-> Target(from[n - 1][i])]
             IN  FlattenSeq([i \in DOMAIN below |-> Parents[below[i]]])
  IN  from

\* The ways up from x, one per choice the load balancer's hash makes at every
\* hop, each ending at the first node y's side reaches as well.
WaysUp(x, y) ==
  LET reached(n) == IF n = 0 THEN {y} ELSE {Target(l) : l \in Range(LinksUp(y)[n])}
      top(p)     == IF p = << >> THEN x ELSE Target(Last(p))
      up[n \in 0 .. MaxClimb] ==
        IF n = 0 THEN {<< >>}
        ELSE {Append(p, l) : <<p, l>> \in
                {<<p, l>> \in up[n - 1] \X Links :
                   top(p) \notin reached(n - 1) /\ l \in Range(Parents[top(p)])}}
  IN  {p \in UNION {up[n] : n \in 0 .. MaxClimb} : top(p) \in reached(Len(p))}

\* The second pass: from the top of p down to y, at each level by the first
\* link of ys_from that leads to where the route stands.
WayDown(p, y) ==
  LET from == LinksUp(y)
      n    == Len(p)
      link(x, k) == from[k][CHOOSE i \in DOMAIN from[k] :
                              /\ Target(from[k][i]) = x
                              /\ \A j \in 1 .. i - 1 : Target(from[k][j]) # x]
      down[i \in 1 .. n] ==
        link(IF i = 1 THEN Target(Last(p)) ELSE Source(down[i - 1]), n - i + 1)
  IN  [i \in 1 .. n |-> ReverseLink(down[i])]

\* resolve_route_multipath, for every outcome of the hashes.
ResolveRouteMultipath(x, y, virt) ==
  IF x = y THEN {ResolveRoute(x, y, virt)}
  ELSE {p \o WayDown(p, y) : p \in WaysUp(x, y)}

\* A path of consecutive links from x to y.
IsPath(p, x, y) ==
  /\ p = << >> => x = y
  /\ p # << >> => Source(Head(p)) = x /\ Target(Last(p)) = y
  /\ \A i \in 1 .. Len(p) - 1 : Target(p[i]) = Source(p[i + 1])
====
