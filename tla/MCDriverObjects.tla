-------------------------- MODULE MCDriverObjects --------------------------
EXTENDS DriverObjects
MCMaxOf == [config |-> 1, context |-> 1, surface |-> 2, buffer |-> 1,
            image |-> 1]
=============================================================================
