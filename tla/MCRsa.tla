------------------------------- MODULE MCRsa -------------------------------
\* Words of 6 bits, primes of one word and a modulus of two: products of a modulus with
\* itself stay below 2^31.
EXTENDS Rsa
FirstMessages == {0, 1, 2, 53, 61, 122, 1000, 3179, 3232}
TextsAroundABlock == {1, 7, 8, 9, 13}
=============================================================================
