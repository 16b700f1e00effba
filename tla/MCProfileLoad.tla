---------------------------- MODULE MCProfileLoad ----------------------------
EXTENDS ProfileLoad
MCTypes == <<"Config", "Basket">>
=============================================================================
