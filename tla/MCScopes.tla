------------------------------ MODULE MCScopes ------------------------------
EXTENDS Scopes

CONSTANTS x, print  \* model values: an identifier and a library function

MCIds      == {x, print}
OneLibFunc == <<print>>
=============================================================================
