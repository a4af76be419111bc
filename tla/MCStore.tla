------------------------------- MODULE MCStore -------------------------------
EXTENDS Store

CONSTANTS l1, l2

\* A base image and one built on it, as the registry has them.
BaseAndDerived == {<<l1>>, <<l1, l2>>}
\* An archive with an image and one built on it.
ImageAndDerived ==
  {<<[name |-> p[1], chain |-> <<l1>>], [name |-> p[2], chain |-> <<l1, l2>>]>> :
     p \in {q \in Name \X Name : q[1] # q[2]}}

\* Two unrelated versions of an image.
TwoVersions == {<<l1>>, <<l2>>}

Symmetric == Permutations(Name) \cup Permutations(Unique)
===============================================================================
