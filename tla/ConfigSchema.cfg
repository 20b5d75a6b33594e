\* A schema file of every kind is being added; any platform, with and without
\* credentials; one edit by hand.
SPECIFICATION Spec
CONSTANTS
  Extras = {"none", "second", "undescribed", "hidden", "clash"}
  Platforms = {"openstack", "aws", "bad"}
  Credentials = {TRUE, FALSE}
  MaxEdits = 1
INVARIANTS
  TypeOK
  MergedWhole
  SampleIsEnough
PROPERTIES
  TestsFindTheirSettings
  SameVerdict
