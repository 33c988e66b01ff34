SPECIFICATION Spec
CONSTANT Thread = {t1, t2, t3}
PROPERTY WritersFirst
