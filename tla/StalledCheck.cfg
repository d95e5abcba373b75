\* Two releases.
SPECIFICATION FairSpec
CONSTANT MaxVersion = 2
PROPERTY BannerIsReleased
CHECK_DEADLOCK FALSE
