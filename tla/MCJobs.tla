------------------------------- MODULE MCJobs -------------------------------
(* Jobs for TLC: addresses up to the one behind the last byte, process      *)
(* numbers behind the last slot, malformed lines, and numbers that wrap:    *)
(* negative ones, ones with the sign bit, behind an unsigned (16 and 17)    *)
(* and behind an unsigned long (256).                                       *)
EXTENDS Jobs

Num(S) == {[num |-> i] : i \in S}
Text(S) == {[text |-> s] : s \in S}
LinesOf(cmd, A) == {[cmd |-> cmd, args |-> a] : a \in A}

CONSTANTS a, b, MCAddrs, MCSteps, MCAmounts
Addr == Num(MCAddrs)
Pid == Num({0, 1})
Step == Num(MCSteps)
Amount == Num(MCAmounts)
File == Text({<<a>>})

MCWide ==
    LinesOf("read", Num({17, -1}) \X Num({16}) \X Num({17}))
    \cup LinesOf("read", Num({0}) \X Num({256, -1}) \X Num({1}))
    \cup LinesOf("loopRead", Num({0}) \X Num({0}) \X Num({1, 3, -1})
                             \X Num({5, 7, -1}))
    \cup LinesOf("loopWrite", Num({1}) \X Num({0}) \X Text({<<a>>})
                              \X Num({-1, 8, 17, 256}) \X Num({-1, 8, 17}))

MCLines ==
    LinesOf("read", Addr \X Pid \X Amount)
    \cup LinesOf("loopRead", Addr \X Num({0}) \X Step \X Amount)
    \cup LinesOf("readToFile", Num({1}) \X Num({0}) \X Amount \X File)
    \cup LinesOf("loopReadToFile", Num({1}) \X Num({0}) \X Step \X Num({1, 2}) \X File)
    \cup LinesOf("write", Addr \X Pid \X Text({<<a>>, <<a, b, b>>}))
    \cup LinesOf("loopWrite", Addr \X Num({0}) \X Text({<<a>>, <<a, b>>})
                              \X Step \X Amount)
    \cup LinesOf("read", Num({0}) \X Num({2, 3}) \X Num({1}))
    \cup LinesOf("read", Num({0}) \X File \X Num({1}))
    \cup LinesOf("write", Num({0}) \X Num({0}))
    \cup MCWide
=============================================================================
