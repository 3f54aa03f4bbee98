------------------------------ MODULE MCFlogSD ------------------------------
EXTENDS FlogSD

MCSdBlock == 0 .. 1
MCValue   == { "e", "x" }
MCCards   == { [ kind |-> "sd1", single |-> FALSE ], [ kind |-> "sd2", single |-> TRUE ],
               [ kind |-> "sdhc", single |-> TRUE ] }
MCStarts  == { 0, 5 }
Holding   == { "erases_hold" }

=============================================================================
