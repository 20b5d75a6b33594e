\* The command of the README, with OpenStack's credentials set.
SPECIFICATION Spec
CONSTANTS
  Extras = {"none"}
  Platforms = {"openstack", "aws"}
  Credentials = {TRUE}
  MaxEdits = 0
INVARIANTS
  BasicConfigIsGenerated
