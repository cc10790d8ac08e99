---------------------------- MODULE MCSecureEnv ----------------------------
EXTENDS SecureEnv

\* Every descriptor flag given.
MCAllGiven == {SiteSet}

\* Every subset of descriptor flags given.
MCAnyGiven == SUBSET SiteSet
=============================================================================
