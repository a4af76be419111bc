------------------------------ MODULE MCContents ------------------------------
EXTENDS Contents

CONSTANTS l1, l2, base

\* A base image can be pulled; what is built on it comes from commits.
OnlyBase == [name \in Name |-> IF name = base THEN {{l1}} ELSE {}]
===============================================================================
