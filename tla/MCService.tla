------------------------------- MODULE MCService -------------------------------
(* Service on small instances.                                             *)
EXTENDS Service

\* One AMF, with everything that may happen at any time, and with messages enough to fill
\* both channels of events; two AMFs.
Scenarios ==
    {[amfs |-> 1, msgs |-> 2, busy |-> TRUE], [amfs |-> 1, msgs |-> 4, busy |-> FALSE],
     [amfs |-> 2, msgs |-> 0, busy |-> TRUE], [amfs |-> 2, msgs |-> 1, busy |-> FALSE]}
=============================================================================
