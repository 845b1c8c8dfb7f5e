---------------------------- MODULE MCCryptoKeys ----------------------------
EXTENDS CryptoKeys, TLC

Symmetric == Permutations(User) \union Permutations(Key) \union Permutations(File)
=============================================================================
