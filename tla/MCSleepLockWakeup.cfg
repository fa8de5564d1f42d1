\* Is every sleeper woken?
SPECIFICATION FairSpec
CONSTANT Thread = {t1, t2}
PROPERTY SleepersAreWoken
