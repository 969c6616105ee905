------------------------- MODULE MC_Configuration -------------------------
(* Ports 8080, 8081 and 9090; 2^32 + 8080 (33 bits, 8080 after a uint32   *)
(* conversion); 2^64 (65 bits) for the cache size; unset and non-numeric  *)
(* values; metrics words that ParseBool accepts and one it rejects.        *)
(* Trusted proxies: unset, "10.0.0.0/8", " 10.0.0.0/8 ", "10.0.0.0/8,    *)
(* 10.1.0.0/16" (the usual way of writing a list), a bogus address, a lone *)
(* space, and a trailing comma.                                            *)
EXTENDS Configuration

MCEnvPort == {Empty, Text, Num(13, 8080), Num(14, 9090), Num(33, 8080)}
MCEnvMetricsPort == {Empty, Num(13, 8080), Num(13, 8081)}
MCEnvCacheSize == {Empty, Num(7, 100), Num(65, 0)}
MCEnvMetrics == {"", "true", "yes"}
MCEnvProxies ==
    {EmptyList, <<Segment("cidr", FALSE)>>, <<Segment("cidr", TRUE)>>,
     <<Segment("cidr", FALSE), Segment("cidr", TRUE)>>,
     <<Segment("bogus", FALSE)>>, <<Segment("", TRUE)>>,
     <<Segment("cidr", FALSE), Segment("", FALSE)>>}
MCFlagPort == {Absent, Num(14, 9090), Num(33, 8081)}

=============================================================================
