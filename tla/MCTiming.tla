------------------------------ MODULE MCTiming ------------------------------
\* Instances of Timing for TLC; a unit is a second in MCTiming_waves and five
\* seconds in MCTiming_cut (the default timeout, 5 s, and the 15 s that
\* WriteTimeout adds to it).
EXTENDS Timing

============================================================================
