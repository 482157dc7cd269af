-------------------------- MODULE MCInitialConfig --------------------------
(* Small instances of InitialConfig.  With one bit for the UNI the third   *)
(* UNI takes a number of another one.                                      *)
EXTENDS InitialConfig, TLC

Mib(pptp, veip) == [pptp |-> pptp, veip |-> veip]

MCMibs == {Mib({}, {}), Mib({257}, {}), Mib({258, 257}, {}), Mib({258}, {257}),
           Mib({257, 258, 259}, {}), Mib({257}, {257})}
MCVeip == {Mib({}, {257})}
=============================================================================
