----------------------------- MODULE MCKeychain -----------------------------
EXTENDS Keychain
CONSTANTS h1, p1, k1, k2, w1
=============================================================================
