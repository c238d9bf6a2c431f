----------------------------- MODULE MCDockerMeter -----------------------------
(* Instance of DockerMeter for TLC. *)
EXTENDS DockerMeter, TLC

\* The threads that run ticks are interchangeable.
TickerSymmetry == Permutations(Tickers)
===============================================================================
