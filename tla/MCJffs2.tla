------------------------------ MODULE MCJffs2 ------------------------------
EXTENDS Jffs2, TLC

CONSTANTS k, m
MCNames == {k, m}
MCImages == {{[name |-> k, pages |-> 2]}, {[name |-> k, pages |-> 1], [name |-> m, pages |-> 2]}}
=============================================================================
