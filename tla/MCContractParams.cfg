\* The script as it is: no constants, one run of the width loop.
SPECIFICATION Spec
INVARIANT OutputMatchesSpec
INVARIANT ParamFitsWidth
